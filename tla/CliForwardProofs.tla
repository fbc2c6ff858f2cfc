-------------------------- MODULE CliForwardProofs --------------------------
(***************************************************************************)
(* Proofs about CliForward for every number of requests, every retention,  *)
(* page size, page limit, capacity of the id set and concurrency.          *)
(*                                                                         *)
(* The invariant CliInv is a conjunction of parts, and each part has one   *)
(* lemma that every step keeps it: the server's tables, the events on      *)
(* their way, a newcomer that has not read its first "ready", the cutoff,  *)
(* history, the pool with the remembered ids, and the gap between stream   *)
(* and pages.                                                              *)
(***************************************************************************)
EXTENDS CliForward, FiniteSetTheorems, TLAPS

-----------------------------------------------------------------------------
(* Sets of requests: extremes, ranks and the order in which they are queued.  *)

\* The least of a set of numbers.
LEMMA LeastOf ==
  ASSUME NEW S, S \subseteq Nat, S # {}
  PROVE  Min(S) \in S /\ \A n \in S : Min(S) <= n
<1>1. PICK m \in S : \A n \in S : ~(<<n, m>> \in OpToRel(<, Nat))
  BY NatLessThanWellFounded, WFMin
<1>2. \A n \in S : m <= n
  <2> SUFFICES ASSUME NEW n \in S, n < m
               PROVE  FALSE
    OBVIOUS
  <2>1. <<n, m>> \in Nat \X Nat /\ <<n, m>>[1] < <<n, m>>[2]
    OBVIOUS
  <2>2. <<n, m>> \in OpToRel(<, Nat)
    BY <2>1, Zenon DEF OpToRel
  <2> QED
    BY <1>1, <2>2, Zenon
<1> QED
  BY <1>2 DEF Min

\* A bounded set of numbers has a greatest.
LEMMA GreatestOf ==
  ASSUME NEW S, NEW L \in Nat, S \subseteq 0..L, S # {}
  PROVE  \E m \in S : \A n \in S : n <= m
<1> DEFINE D == {L - n : n \in S}
           k == Min(D)
<1>1. D \subseteq Nat /\ D # {}
  <2>1. \A n \in S : L - n \in Nat
    OBVIOUS
  <2> QED
    BY <2>1
<1>2. k \in D /\ \A n \in D : k <= n
  BY <1>1, LeastOf
<1>3. \A n \in S : k <= L - n
  BY <1>2
<1>4. PICK m \in S : k = L - m
  BY <1>2
<1> HIDE DEF k
<1>5. \A n \in S : n <= m
  <2>1. \A n \in S : n \in Int
    OBVIOUS
  <2> QED
    BY <1>3, <1>4, <2>1
<1> QED
  BY <1>5

\* Requests are numbers, and a set of them is finite.
LEMMA Requests ==
  /\ LastRequest \in Nat /\ IsFiniteSet(Request) /\ Request \subseteq Nat
  /\ \A S \in SUBSET Request : IsFiniteSet(S) /\ Cardinality(S) \in Nat
<1>1. LastRequest \in Nat
  BY CliAssumption
<1>2. IsFiniteSet(Request)
  BY <1>1, FS_Interval DEF Request
<1>3. ASSUME NEW S \in SUBSET Request
      PROVE  IsFiniteSet(S) /\ Cardinality(S) \in Nat
  BY <1>2, FS_Subset, FS_CardinalityType
<1> QED
  BY <1>1, <1>2, <1>3 DEF Request

\* A set of requests has a newest.
LEMMA GreatestRequest ==
  ASSUME NEW S \in SUBSET Request, S # {}
  PROVE  \E m \in S : \A n \in S : n <= m
<1>1. S \subseteq 0..LastRequest
  BY Requests DEF Request
<1> QED
  BY <1>1, GreatestOf, Requests

\* How many of S are at most r: the place of r in Ascending(S).
Rank(S, r) == Cardinality({q \in S : q <= r})

\* Places are those of a list of S, and grow with the requests.
LEMMA RankGrows ==
  ASSUME NEW S \in SUBSET Request, NEW a \in S, NEW b \in S
  PROVE  /\ Rank(S, a) \in 1..Cardinality(S)
         /\ a < b => Rank(S, a) < Rank(S, b)
         /\ a <= b => Rank(S, a) <= Rank(S, b)
<1> DEFINE A == {q \in S : q <= a}
           B == {q \in S : q <= b}
<1>1. /\ S \subseteq Nat /\ a \in A /\ b \in B
      /\ A \in SUBSET S /\ B \in SUBSET S /\ A \in SUBSET Request
      /\ B \in SUBSET Request
      /\ a < b => A \subseteq B /\ b \notin A
      /\ a <= b => A \subseteq B
  <2>1. \A q \in S : q \in Nat
    BY Requests
  <2>2. a \in A /\ b \in B /\ A \subseteq S /\ B \subseteq S
    BY <2>1
  <2>3. a <= b => A \subseteq B
    BY <2>1
  <2>4. a < b => a <= b /\ b \notin A
    BY <2>1
  <2> QED
    BY <2>1, <2>2, <2>3, <2>4
<1> HIDE DEF A, B
<1>2. /\ IsFiniteSet(S) /\ IsFiniteSet(A) /\ IsFiniteSet(B)
      /\ Cardinality(S) \in Nat /\ Cardinality(A) \in Nat /\ Cardinality(B) \in Nat
  BY <1>1, Requests
<1>3. Cardinality(A) # 0
  BY <1>1, <1>2, FS_EmptySet
<1>4. Cardinality(A) <= Cardinality(S)
  BY <1>1, <1>2, FS_Subset
<1>5. ASSUME A \subseteq B
      PROVE  Cardinality(A) <= Cardinality(B) /\ (Cardinality(A) = Cardinality(B) => A = B)
  BY <1>2, <1>5, FS_Subset
<1>6. Rank(S, a) = Cardinality(A) /\ Rank(S, b) = Cardinality(B)
  BY DEF Rank, A, B
<1> QED
  BY <1>1, <1>2, <1>3, <1>4, <1>5, <1>6

\* Every place of a list of S is that of a request.
LEMMA RankReaches ==
  ASSUME NEW S \in SUBSET Request, NEW i \in 1..Cardinality(S)
  PROVE  \E r \in S : Rank(S, r) = i
<1> DEFINE n == Cardinality(S)
           f == [r \in S |-> Rank(S, r)]
<1>1. n \in Nat /\ IsFiniteSet(S)
  BY Requests
<1>2. f \in [S -> 1..n]
  BY RankGrows
<1>3. \A a, b \in S : f[a] = f[b] => a = b
  <2> SUFFICES ASSUME NEW a \in S, NEW b \in S, a # b PROVE f[a] # f[b]
    OBVIOUS
  <2>1. a \in Nat /\ b \in Nat
    BY Requests
  <2>2. (a < b => f[a] < f[b]) /\ (b < a => f[b] < f[a]) /\ f[a] \in Nat /\ f[b] \in Nat
    BY RankGrows, <1>2
  <2> QED
    BY <2>1, <2>2
<1> HIDE DEF f
<1>4. f \in Injection(S, 1..n)
  BY <1>2, <1>3 DEF Injection, IsInjective
<1>5. IsFiniteSet(1..n) /\ Cardinality(1..n) = n
  BY <1>1, FS_Interval
<1>6. f \in Surjection(S, 1..n)
  BY <1>4, <1>5, FS_Injection
<1> QED
  BY <1>6 DEF Surjection, f

\* s grows from each of its n places to the next.
Upwards(s, n) == \A i, j \in 1..n : i < j => s[i] < s[j]

\* A set of requests can be listed oldest first: each place holds the request of
\* that rank.
LEMMA AscendingExists ==
  ASSUME NEW S \in SUBSET Request
  PROVE  \E s \in [1..Cardinality(S) -> S] : Upwards(s, Cardinality(S))
<1> DEFINE n == Cardinality(S)
           s == [i \in 1..n |-> CHOOSE r \in S : Rank(S, r) = i]
<1>1. \A i \in 1..n : s[i] \in S /\ Rank(S, s[i]) = i
  BY RankReaches
<1>2. s \in [1..n -> S]
  BY <1>1
<1> HIDE DEF s
<1>3. ASSUME NEW i \in 1..n, NEW j \in 1..n, i < j PROVE s[i] < s[j]
  <2>1. s[i] \in S /\ s[j] \in S /\ s[i] \in Nat /\ s[j] \in Nat
    BY <1>1, Requests
  <2>2. s[j] <= s[i] => Rank(S, s[j]) <= Rank(S, s[i])
    BY <2>1, RankGrows
  <2>3. Rank(S, s[i]) = i /\ Rank(S, s[j]) = j
    BY <1>1
  <2>4. i \in Nat /\ j \in Nat
    OBVIOUS
  <2> QED
    BY <1>3, <2>1, <2>2, <2>3, <2>4
<1>4. Upwards(s, n)
  BY <1>3 DEF Upwards
<1> QED
  BY <1>2, <1>4

\* Ascending(S) lists the requests of S, oldest first.
LEMMA AscendingLists ==
  ASSUME NEW S \in SUBSET Request
  PROVE  /\ Ascending(S) \in Seq(S) /\ Len(Ascending(S)) = Cardinality(S)
         /\ ToSet(Ascending(S)) = S
         /\ Upwards(Ascending(S), Len(Ascending(S)))
<1> DEFINE n == Cardinality(S)
           s == Ascending(S)
<1>1. n \in Nat /\ IsFiniteSet(S) /\ S \subseteq Nat
  BY Requests
<1>2. s \in [1..n -> S] /\ Upwards(s, n)
  BY AscendingExists DEF Ascending, Upwards
<1> HIDE DEF s
<1>3. s \in Seq(S) /\ Len(s) = n /\ DOMAIN s = 1..n
  BY <1>1, <1>2
<1>4. \A i, j \in 1..n : s[i] = s[j] => i = j
  <2> SUFFICES ASSUME NEW i \in 1..n, NEW j \in 1..n, i # j PROVE s[i] # s[j]
    OBVIOUS
  <2>1. (i < j => s[i] < s[j]) /\ (j < i => s[j] < s[i]) /\ s[i] \in Nat /\ s[j] \in Nat
    BY <1>1, <1>2 DEF Upwards
  <2> QED
    BY <2>1
<1>5. s \in Injection(1..n, S)
  BY <1>2, <1>4 DEF Injection, IsInjective
<1>6. IsFiniteSet(1..n) /\ Cardinality(1..n) = n
  BY <1>1, FS_Interval
<1>7. s \in Surjection(1..n, S)
  BY <1>1, <1>5, <1>6, FS_Injection
<1>8. ToSet(s) = S
  BY <1>3, <1>7 DEF ToSet, Surjection
<1>9. Upwards(s, Len(s))
  BY <1>2, <1>3
<1> QED
  BY <1>3, <1>8, <1>9 DEF s

\* The newest of a set are at its upper end.
LEMMA NewestRows ==
  ASSUME NEW S \in SUBSET Request, NEW n \in Nat \ {0}
  PROVE  /\ Newest(S, n) \subseteq S
         /\ S # {} => Newest(S, n) # {}
         /\ \A q \in Newest(S, n), r \in S : q < r => r \in Newest(S, n)
<1> DEFINE Above(q) == {x \in S : x > q}
<1>1. \A q : Above(q) \in SUBSET Request /\ IsFiniteSet(Above(q)) /\ Cardinality(Above(q)) \in Nat
  BY Requests
<1>2. ASSUME S # {} PROVE Newest(S, n) # {}
  <2>1. PICK m \in S : \A x \in S : x <= m
    BY <1>2, GreatestRequest
  <2>2. \A x \in S : x \in Nat
    BY Requests
  <2>3. Above(m) = {}
    BY <2>1, <2>2
  <2>4. Cardinality(Above(m)) < n
    BY <2>3, FS_EmptySet
  <2> QED
    BY <2>4 DEF Newest
<1>3. ASSUME NEW q \in Newest(S, n), NEW r \in S, q < r PROVE r \in Newest(S, n)
  <2>1. q \in S /\ Cardinality(Above(q)) < n
    BY DEF Newest
  <2>2. Above(r) \subseteq Above(q)
    <3>1. \A x \in S : x \in Nat
      BY Requests
    <3> QED
      BY <1>3, <2>1, <3>1
  <2> HIDE DEF Above
  <2>3. Cardinality(Above(r)) <= Cardinality(Above(q))
    BY <1>1, <2>2, FS_Subset
  <2>4. Cardinality(Above(r)) < n
    BY <1>1, <2>1, <2>3
  <2> QED
    BY <2>4 DEF Newest, Above
<1> QED
  BY <1>2, <1>3 DEF Newest

\* Of a set, those that fewer than n precede are at most n.
LEMMA FirstAreFew ==
  ASSUME NEW S \in SUBSET Request, NEW n \in Nat
  PROVE  Cardinality({r \in S : Cardinality({q \in S : q < r}) < n}) <= n
<1> DEFINE Below(r) == {q \in S : q < r}
           F == {r \in S : Cardinality(Below(r)) < n}
<1>1. F \in SUBSET Request
  OBVIOUS
<1>2. CASE F = {}
  <2>1. Cardinality(F) = 0
    BY <1>2, FS_EmptySet
  <2> HIDE DEF F
  <2>2. Cardinality(F) <= n
    BY <2>1
  <2> QED
    BY <2>2 DEF F, Below
<1>3. CASE F # {}
  <2>1. PICK g \in F : \A r \in F : r <= g
    BY <1>1, <1>3, GreatestRequest
  <2>2. F \ {g} \subseteq Below(g)
    <3>1. \A x \in S : x \in Nat
      BY Requests
    <3> QED
      BY <2>1, <3>1
  <2>3. Cardinality(Below(g)) < n /\ Below(g) \in SUBSET Request
    BY <2>1
  <2> HIDE DEF Below, F
  <2>4. Cardinality(F \ {g}) <= Cardinality(Below(g))
    BY <2>2, <2>3, Requests, FS_Subset
  <2>5. Cardinality(F \ {g}) = Cardinality(F) - 1
    BY <1>1, Requests, FS_RemoveElement
  <2>6. Cardinality(F) <= n
    <3>1. Cardinality(F) \in Nat /\ Cardinality(Below(g)) \in Nat
      BY <1>1, <2>3, Requests
    <3> QED
      BY <2>3, <2>4, <2>5, <3>1
  <2> QED
    BY <2>6 DEF F, Below
<1> QED
  BY <1>2, <1>3

\* A set and another one that is not larger fit together.
LEMMA FitsTogether ==
  ASSUME NEW A \in SUBSET Request, NEW B \in SUBSET Request
  PROVE  /\ Cardinality(A \cup B) <= Cardinality(A) + Cardinality(B)
         /\ A \cap B = {} => Cardinality(A \cup B) = Cardinality(A) + Cardinality(B)
<1>1. /\ IsFiniteSet(A) /\ IsFiniteSet(B) /\ A \cap B \in SUBSET Request
      /\ Cardinality(A) \in Nat /\ Cardinality(B) \in Nat
  BY Requests
<1>2. Cardinality(A \cup B) = Cardinality(A) + Cardinality(B) - Cardinality(A \cap B)
  BY <1>1, FS_Union
<1>3. Cardinality(A \cap B) \in Nat
  BY <1>1, Requests
<1>4. A \cap B = {} => Cardinality(A \cap B) = 0
  BY FS_EmptySet
<1> QED
  BY <1>1, <1>2, <1>3, <1>4

-----------------------------------------------------------------------------
(* Sequences of events, of waiting tasks and of remembered ids, as sets.       *)

\* The elements of two sequences, joined.
LEMMA Joined ==
  ASSUME NEW S, NEW a \in Seq(S), NEW b \in Seq(S)
  PROVE  /\ a \o b \in Seq(S) /\ Len(a \o b) = Len(a) + Len(b)
         /\ \A i \in 1..Len(a) + Len(b) : (a \o b)[i] = IF i <= Len(a) THEN a[i] ELSE b[i - Len(a)]
OBVIOUS

\* A joined sequence has the elements of both.
LEMMA SetOfJoined ==
  ASSUME NEW S, NEW a \in Seq(S), NEW b \in Seq(S)
  PROVE  ToSet(a \o b) = ToSet(a) \cup ToSet(b)
<1> DEFINE s == a \o b
<1>1. /\ s \in Seq(S) /\ Len(s) = Len(a) + Len(b)
      /\ \A i \in 1..Len(s) : s[i] = IF i <= Len(a) THEN a[i] ELSE b[i - Len(a)]
  BY Joined
<1> HIDE DEF s
<1>2. DOMAIN s = 1..Len(s) /\ DOMAIN a = 1..Len(a) /\ DOMAIN b = 1..Len(b)
  BY <1>1
<1>3. Len(a) \in Nat /\ Len(b) \in Nat
  OBVIOUS
<1>4. ASSUME NEW i \in 1..Len(s) PROVE s[i] \in ToSet(a) \cup ToSet(b)
  <2>1. CASE i <= Len(a)
    BY <1>1, <1>2, <1>3, <2>1 DEF ToSet
  <2>2. CASE ~(i <= Len(a))
    <3>1. i - Len(a) \in 1..Len(b)
      BY <1>1, <1>3, <2>2
    <3> QED
      BY <1>1, <1>2, <2>2, <3>1 DEF ToSet
  <2> QED
    BY <2>1, <2>2
<1>5. ASSUME NEW i \in 1..Len(a) PROVE a[i] \in ToSet(s)
  <2>1. i \in 1..Len(s) /\ s[i] = a[i]
    BY <1>1, <1>3
  <2> QED
    BY <1>2, <2>1 DEF ToSet
<1>6. ASSUME NEW i \in 1..Len(b) PROVE b[i] \in ToSet(s)
  <2>1. i + Len(a) \in 1..Len(s) /\ ~(i + Len(a) <= Len(a)) /\ (i + Len(a)) - Len(a) = i
    BY <1>1, <1>3
  <2>2. s[i + Len(a)] = b[(i + Len(a)) - Len(a)]
    BY <1>1, <2>1
  <2> QED
    BY <1>2, <2>1, <2>2 DEF ToSet
<1>7. ToSet(s) \subseteq ToSet(a) \cup ToSet(b)
  BY <1>2, <1>4 DEF ToSet
<1>8. ToSet(a) \subseteq ToSet(s) /\ ToSet(b) \subseteq ToSet(s)
  BY <1>2, <1>5, <1>6 DEF ToSet
<1> QED
  BY <1>7, <1>8 DEF s

\* The same of sequences of requests.
LEMMA RequestsJoined ==
  ASSUME NEW a \in Seq(Request), NEW b \in Seq(Request)
  PROVE  /\ a \o b \in Seq(Request) /\ Len(a \o b) = Len(a) + Len(b)
         /\ ToSet(a \o b) = ToSet(a) \cup ToSet(b)
<1>1. a \o b \in Seq(Request) /\ Len(a \o b) = Len(a) + Len(b)
  BY Joined
<1>2. ToSet(a \o b) = ToSet(a) \cup ToSet(b)
  BY SetOfJoined
<1> QED
  BY <1>1, <1>2

\* An appended element is one more.
LEMMA SetOfMore ==
  ASSUME NEW S, NEW s \in Seq(S), NEW x \in S
  PROVE  ToSet(Append(s, x)) = ToSet(s) \cup {x}
<1>1. /\ Append(s, x) \in Seq(S) /\ Len(Append(s, x)) = Len(s) + 1
      /\ \A i \in 1..Len(s) : Append(s, x)[i] = s[i]
      /\ Append(s, x)[Len(s) + 1] = x
      /\ DOMAIN s = 1..Len(s) /\ DOMAIN Append(s, x) = 1..(Len(s) + 1)
      /\ 1..(Len(s) + 1) = 1..Len(s) \cup {Len(s) + 1}
  OBVIOUS
<1> QED
  BY <1>1 DEF ToSet

\* A sequence has its head and the elements of its tail.
LEMMA SetOfRest ==
  ASSUME NEW S, NEW s \in Seq(S), s # <<>>
  PROVE  /\ Head(s) \in S /\ Tail(s) \in Seq(S)
         /\ ToSet(s) = {Head(s)} \cup ToSet(Tail(s))
<1> DEFINE t == Tail(s)
<1>1. /\ Head(s) = s[1] /\ t \in Seq(S) /\ Len(t) = Len(s) - 1 /\ Len(s) \in Nat \ {0}
      /\ \A i \in 1..Len(t) : t[i] = s[i + 1]
      /\ DOMAIN s = 1..Len(s) /\ DOMAIN t = 1..Len(t)
  OBVIOUS
<1> HIDE DEF t
<1>2. \A i \in 1..Len(t) : i + 1 \in 1..Len(s)
  BY <1>1
<1>3. \A i \in 1..Len(s) : i = 1 \/ (i - 1 \in 1..Len(t) /\ s[i] = t[i - 1])
  BY <1>1
<1>4. 1 \in 1..Len(s)
  BY <1>1
<1>5. ToSet(s) = {s[i] : i \in 1..Len(s)} /\ ToSet(t) = {t[i] : i \in 1..Len(t)}
  BY <1>1 DEF ToSet
<1>6. ToSet(s) \subseteq {s[1]} \cup ToSet(t)
  BY <1>3, <1>5
<1>7. {s[1]} \cup ToSet(t) \subseteq ToSet(s)
  BY <1>1, <1>2, <1>4, <1>5
<1> QED
  BY <1>1, <1>6, <1>7 DEF t

\* What follows place i in a sequence.
Later(s, i) == {s[j] : j \in (i + 1)..Len(s)}

\* No two places of a sequence hold the same.
Distinct(s) == \A i, j \in 1..Len(s) : s[i] = s[j] => i = j

\* An upward list of a set has none twice, and after a place come the newer ones.
LEMMA UpwardList ==
  ASSUME NEW S \in SUBSET Request, NEW s \in Seq(S), Upwards(s, Len(s)), ToSet(s) = S
  PROVE  /\ Distinct(s)
         /\ \A i \in 1..Len(s) : Later(s, i) = {q \in S : q > s[i]}
<1>1. S = {s[j] : j \in 1..Len(s)} /\ Len(s) \in Nat
  BY DEF ToSet
<1>2. \A j \in 1..Len(s) : s[j] \in Nat
  BY <1>1, Requests
<1>3. \A i, j \in 1..Len(s) : i < j => s[i] < s[j]
  BY DEF Upwards
<1>4. ASSUME NEW i \in 1..Len(s), NEW j \in 1..Len(s)
      PROVE  /\ s[i] = s[j] => i = j
             /\ s[j] > s[i] <=> j > i
  <2>1. s[i] \in Nat /\ s[j] \in Nat /\ (i < j => s[i] < s[j]) /\ (j < i => s[j] < s[i])
    BY <1>2, <1>3
  <2>2. i \in Nat /\ j \in Nat /\ (i < j \/ i = j \/ j < i)
    BY <1>1
  <2>3. CASE i < j
    BY <2>1, <2>2, <2>3
  <2>4. CASE i = j
    BY <2>1, <2>2, <2>4
  <2>5. CASE j < i
    BY <2>1, <2>2, <2>5
  <2> QED
    BY <2>2, <2>3, <2>4, <2>5
<1>5. ASSUME NEW i \in 1..Len(s) PROVE Later(s, i) = {q \in S : q > s[i]}
  <2>1. \A j \in (i + 1)..Len(s) : j \in 1..Len(s) /\ j > i
    BY <1>1
  <2>2. \A j \in 1..Len(s) : j > i => j \in (i + 1)..Len(s)
    BY <1>1
  <2>3. ASSUME NEW q \in Later(s, i) PROVE q \in S /\ q > s[i]
    BY <1>1, <1>4, <2>1 DEF Later
  <2>4. ASSUME NEW q \in S, q > s[i] PROVE q \in Later(s, i)
    <3>1. PICK j \in 1..Len(s) : q = s[j]
      BY <1>1
    <3> QED
      BY <1>4, <2>2, <2>4, <3>1 DEF Later
  <2> QED
    BY <2>3, <2>4
<1> QED
  BY <1>4, <1>5 DEF Distinct

\* In a joined sequence, what follows a place of the first part is the rest of that
\* part and all of the second.
LEMMA LaterJoined ==
  ASSUME NEW a \in Seq(Request), NEW b \in Seq(Request),
         Distinct(a), Distinct(b), ToSet(a) \cap ToSet(b) = {}
  PROVE  /\ Distinct(a \o b)
         /\ \A i \in 1..Len(a \o b) :
              \/ i \in 1..Len(a) /\ (a \o b)[i] = a[i] /\ Later(a \o b, i) = Later(a, i) \cup ToSet(b)
              \/ \E k \in 1..Len(b) : (a \o b)[i] = b[k] /\ Later(a \o b, i) = Later(b, k)
<1> DEFINE s == a \o b
<1>1. /\ s \in Seq(Request) /\ Len(s) = Len(a) + Len(b)
      /\ \A i \in 1..Len(s) : s[i] = IF i <= Len(a) THEN a[i] ELSE b[i - Len(a)]
  BY Joined
<1> HIDE DEF s
<1>2. /\ Len(a) \in Nat /\ Len(b) \in Nat
      /\ ToSet(a) = {a[i] : i \in 1..Len(a)} /\ ToSet(b) = {b[i] : i \in 1..Len(b)}
  BY DEF ToSet
<1>3. \A i \in 1..Len(a) : i \in 1..Len(s) /\ s[i] = a[i]
  BY <1>1, <1>2
<1>4. ASSUME NEW k \in 1..Len(b) PROVE k + Len(a) \in 1..Len(s) /\ s[k + Len(a)] = b[k]
  <2>1. k + Len(a) \in 1..Len(s) /\ ~(k + Len(a) <= Len(a)) /\ (k + Len(a)) - Len(a) = k
    BY <1>1, <1>2
  <2>2. s[k + Len(a)] = b[(k + Len(a)) - Len(a)]
    BY <1>1, <2>1
  <2> QED
    BY <2>1, <2>2
<1>5. \A i \in 1..Len(s) : i \in 1..Len(a) \/ \E k \in 1..Len(b) : i = k + Len(a)
  <2>1. \A i \in 1..Len(s) : i \in 1..Len(a) \/ (i - Len(a) \in 1..Len(b) /\ i = (i - Len(a)) + Len(a))
    BY <1>1, <1>2
  <2> QED
    BY <2>1
<1>6. Distinct(s)
  <2> SUFFICES ASSUME NEW i \in 1..Len(s), NEW j \in 1..Len(s), s[i] = s[j] PROVE i = j
    BY DEF Distinct
  <2>1. CASE i \in 1..Len(a) /\ j \in 1..Len(a)
    BY <1>3, <2>1 DEF Distinct
  <2>2. ASSUME NEW k \in 1..Len(b), NEW l \in 1..Len(b), i = k + Len(a), j = l + Len(a)
        PROVE  i = j
    BY <1>4, <2>2 DEF Distinct
  <2>3. ASSUME NEW k \in 1..Len(b), i = k + Len(a), j \in 1..Len(a) PROVE FALSE
    BY <1>2, <1>3, <1>4, <2>3
  <2>4. ASSUME NEW k \in 1..Len(b), j = k + Len(a), i \in 1..Len(a) PROVE FALSE
    BY <1>2, <1>3, <1>4, <2>4
  <2> QED
    BY <1>5, <2>1, <2>2, <2>3, <2>4
<1>7. ASSUME NEW i \in 1..Len(a) PROVE Later(s, i) = Later(a, i) \cup ToSet(b)
  <2>1. ASSUME NEW j \in (i + 1)..Len(s) PROVE s[j] \in Later(a, i) \cup ToSet(b)
    <3>1. j \in 1..Len(s) /\ j > i
      BY <1>1, <1>2
    <3>2. CASE j \in 1..Len(a)
      <4>1. j \in (i + 1)..Len(a)
        BY <1>2, <3>1, <3>2
      <4> QED
        BY <1>3, <3>2, <4>1 DEF Later
    <3>3. ASSUME NEW k \in 1..Len(b), j = k + Len(a) PROVE s[j] \in ToSet(b)
      BY <1>2, <1>4, <3>3
    <3> QED
      BY <1>5, <3>1, <3>2, <3>3
  <2>2. ASSUME NEW j \in (i + 1)..Len(a) PROVE a[j] \in Later(s, i)
    <3>1. j \in 1..Len(a) /\ j \in (i + 1)..Len(s)
      BY <1>1, <1>2
    <3> QED
      BY <1>3, <3>1 DEF Later
  <2>3. ASSUME NEW k \in 1..Len(b) PROVE b[k] \in Later(s, i)
    <3>1. k + Len(a) \in (i + 1)..Len(s)
      BY <1>1, <1>2
    <3> QED
      BY <1>4, <3>1 DEF Later
  <2>4. Later(s, i) \subseteq Later(a, i) \cup ToSet(b)
    BY <2>1 DEF Later
  <2>5. Later(a, i) \subseteq Later(s, i)
    BY <2>2 DEF Later
  <2>6. ToSet(b) \subseteq Later(s, i)
    BY <1>2, <2>3
  <2> QED
    BY <2>4, <2>5, <2>6
<1>8. ASSUME NEW k \in 1..Len(b) PROVE Later(s, k + Len(a)) = Later(b, k)
  <2>1. ASSUME NEW j \in (k + Len(a) + 1)..Len(s) PROVE s[j] \in Later(b, k)
    <3>1. j \in 1..Len(s) /\ ~(j \in 1..Len(a))
      BY <1>1, <1>2
    <3>2. PICK l \in 1..Len(b) : j = l + Len(a)
      BY <1>5, <3>1
    <3>3. l \in (k + 1)..Len(b)
      BY <1>2, <3>2
    <3> QED
      BY <1>4, <3>2, <3>3 DEF Later
  <2>2. ASSUME NEW l \in (k + 1)..Len(b) PROVE b[l] \in Later(s, k + Len(a))
    <3>1. l \in 1..Len(b) /\ l + Len(a) \in (k + Len(a) + 1)..Len(s)
      BY <1>1, <1>2
    <3> QED
      BY <1>4, <3>1 DEF Later
  <2> QED
    BY <2>1, <2>2 DEF Later
<1>9. ASSUME NEW i \in 1..Len(s)
      PROVE  \/ i \in 1..Len(a) /\ s[i] = a[i] /\ Later(s, i) = Later(a, i) \cup ToSet(b)
             \/ \E k \in 1..Len(b) : s[i] = b[k] /\ Later(s, i) = Later(b, k)
  <2>1. CASE i \in 1..Len(a)
    BY <1>3, <1>7, <2>1
  <2>2. ASSUME NEW k \in 1..Len(b), i = k + Len(a)
        PROVE  s[i] = b[k] /\ Later(s, i) = Later(b, k)
    BY <1>4, <1>8, <2>2
  <2> QED
    BY <1>5, <2>1, <2>2
<1> QED
  BY <1>6, <1>9 DEF s

\* Distinct requests that follow a place are as many as places follow it.
LEMMA LaterCount ==
  ASSUME NEW s \in Seq(Request), Distinct(s), NEW i \in 1..Len(s)
  PROVE  Cardinality(Later(s, i)) = Len(s) - i
<1> DEFINE P == (i + 1)..Len(s)
           f == [j \in P |-> s[j]]
<1>1. Len(s) \in Nat /\ i \in Nat /\ i <= Len(s)
  OBVIOUS
<1>2. IsFiniteSet(P) /\ Cardinality(P) = Len(s) - i
  <2>1. i + 1 \in Int /\ Len(s) \in Int
    BY <1>1
  <2>2. IsFiniteSet(P) /\ Cardinality(P) = IF i + 1 > Len(s) THEN 0 ELSE Len(s) - (i + 1) + 1
    BY <2>1, FS_Interval, Zenon
  <2> QED
    BY <1>1, <2>2
<1>3. P \subseteq 1..Len(s)
  BY <1>1
<1> HIDE DEF P
<1>4. f \in Bijection(P, Later(s, i))
  <2>1. f \in [P -> Later(s, i)] /\ \A y \in Later(s, i) : \E j \in P : f[j] = y
    BY DEF Later, P
  <2>2. \A j, k \in P : f[j] = f[k] => j = k
    BY <1>3 DEF Distinct
  <2> HIDE DEF f
  <2> QED
    BY <2>1, <2>2 DEF Bijection, Injection, Surjection, IsInjective
<1> HIDE DEF f
<1>5. ExistsBijection(P, Later(s, i))
  BY <1>4 DEF ExistsBijection
<1> QED
  BY <1>2, <1>5, FS_Bijection

\* The ids that are remembered are the latest ones: up to the capacity, all; beyond
\* it, as many as fit.
LEMMA Remembered ==
  ASSUME NEW ids \in Seq(Request)
  PROVE  /\ Remember(ids) \in Seq(Request) /\ Len(Remember(ids)) <= History
         /\ \E k \in 0..Len(ids) :
              /\ Len(Remember(ids)) = Len(ids) - k
              /\ \A i \in 1..Len(ids) - k : Remember(ids)[i] = ids[k + i]
              /\ k > 0 => Len(ids) - k = History
<1> DEFINE k == IF Len(ids) > History THEN Len(ids) - History ELSE 0
           s == SubSeq(ids, k + 1, Len(ids))
<1>1. History \in Nat /\ Len(ids) \in Nat /\ k \in 0..Len(ids)
      /\ Len(ids) - k <= History /\ (k > 0 => Len(ids) - k = History)
  BY CliAssumption
<1>2. Remember(ids) = s
  <2>1. k + 1 = IF Len(ids) > History THEN Len(ids) - History + 1 ELSE 1
    BY <1>1
  <2> HIDE DEF k
  <2> QED
    BY <2>1 DEF Remember
<1> HIDE DEF k
<1>3. /\ s \in Seq(Request) /\ Len(s) = Len(ids) - k
      /\ \A i \in 1..Len(ids) - k : s[i] = ids[k + i]
  BY <1>1
<1> HIDE DEF s
<1> QED
  BY <1>1, <1>2, <1>3

\* What remains of distinct ids is distinct, and each is followed by the same ids as
\* before.
LEMMA LaterRemembered ==
  ASSUME NEW ids \in Seq(Request), NEW s \in Seq(Request), Distinct(ids),
         NEW k \in 0..Len(ids), Len(s) = Len(ids) - k,
         \A i \in 1..Len(ids) - k : s[i] = ids[k + i]
  PROVE  /\ Distinct(s) /\ ToSet(s) \subseteq ToSet(ids)
         /\ \A i \in 1..Len(s) : k + i \in 1..Len(ids) /\ Later(s, i) = Later(ids, k + i)
         /\ \A i \in 1..Len(ids) : i <= k \/ ids[i] \in ToSet(s)
<1>1. /\ Len(ids) \in Nat /\ Len(s) \in Nat /\ k \in Nat
      /\ ToSet(s) = {s[i] : i \in 1..Len(s)} /\ ToSet(ids) = {ids[i] : i \in 1..Len(ids)}
  <2>1. Len(ids) \in Nat /\ Len(s) \in Nat /\ k \in Nat
    OBVIOUS
  <2>2. ToSet(s) = {s[i] : i \in 1..Len(s)}
    BY DEF ToSet
  <2>3. ToSet(ids) = {ids[i] : i \in 1..Len(ids)}
    BY DEF ToSet
  <2> QED
    BY <2>1, <2>2, <2>3
<1>2. \A i \in 1..Len(s) : k + i \in 1..Len(ids) /\ s[i] = ids[k + i]
  BY <1>1
<1>3. \A i \in 1..Len(ids) : i <= k \/ (i - k \in 1..Len(s) /\ k + (i - k) = i)
  BY <1>1
<1>4. Distinct(s)
  <2> SUFFICES ASSUME NEW i \in 1..Len(s), NEW j \in 1..Len(s), s[i] = s[j] PROVE i = j
    BY DEF Distinct
  <2>1. k + i = k + j
    BY <1>2 DEF Distinct
  <2> QED
    BY <1>1, <2>1
<1>5. ASSUME NEW i \in 1..Len(s) PROVE Later(s, i) = Later(ids, k + i)
  <2>1. ASSUME NEW j \in (i + 1)..Len(s) PROVE s[j] \in Later(ids, k + i)
    <3>1. j \in 1..Len(s) /\ k + j \in (k + i + 1)..Len(ids)
      BY <1>1
    <3> QED
      BY <1>2, <3>1 DEF Later
  <2>2. ASSUME NEW j \in (k + i + 1)..Len(ids) PROVE ids[j] \in Later(s, i)
    <3>1. j - k \in (i + 1)..Len(s) /\ j - k \in 1..Len(s) /\ k + (j - k) = j
      BY <1>1
    <3>2. s[j - k] = ids[k + (j - k)]
      BY <1>2, <3>1
    <3> QED
      BY <3>1, <3>2 DEF Later
  <2> QED
    BY <2>1, <2>2 DEF Later
<1>6. ASSUME NEW i \in 1..Len(ids), ~(i <= k) PROVE ids[i] \in ToSet(s)
  <2>1. i - k \in 1..Len(s) /\ k + (i - k) = i
    BY <1>3, <1>6
  <2>2. s[i - k] = ids[k + (i - k)]
    BY <1>2, <2>1
  <2> QED
    BY <1>1, <2>1, <2>2
<1> QED
  BY <1>1, <1>2, <1>4, <1>5, <1>6

-----------------------------------------------------------------------------
(* The pool: what a call of handle and of run does, and what it keeps.        *)

\* What TypeOK says of the pool.
PoolOK ==
  /\ delivered \in Seq(Request) /\ Len(delivered) <= History
  /\ active \in Seq(Request) /\ Len(active) <= Concurrency
  /\ queued \in Seq(Request)
  /\ started \in SUBSET Request /\ since \in [Request -> SUBSET Request]

\* Since the delivery of a remembered request those have been started whose ids are
\* behind its own in the set; since that of a forgotten one, as many as the set holds.
PoolInv ==
  /\ ToSet(delivered) \subseteq started
  /\ Distinct(delivered)
  /\ \A i \in 1..Len(delivered) : since[delivered[i]] = Later(delivered, i)
  /\ \A r \in started \ ToSet(delivered) : Cardinality(since[r]) >= History

\* What RepeatsAreApart says of one step.
Apart == \A r \in started : Starts(r) => Cardinality(since[r]) >= History

\* handle starts a delivery of each request it is called for, unless the request
\* is remembered.
LEMMA Handled ==
  ASSUME PoolOK, PoolInv, NEW S \in SUBSET Request, Handle(S),
         Len(active) + Cardinality(S) <= Concurrency
  PROVE  /\ delivered' \in Seq(Request) /\ Len(delivered') <= History
         /\ active' \in Seq(Request) /\ Len(active') <= Concurrency
         /\ started' \in SUBSET Request /\ since' \in [Request -> SUBSET Request]
         /\ PoolInv' /\ Apart
         /\ started' = started \cup S
<1> DEFINE new == Fresh(S)
           asc == Ascending(new)
           ids == delivered \o asc
<1>1. new \in SUBSET Request /\ new \subseteq S /\ new \cap ToSet(delivered) = {}
      /\ S \subseteq new \cup ToSet(delivered)
  BY DEF Fresh
<1>2. /\ delivered' = Remember(ids)
      /\ active' = active \o asc
      /\ started' = started \cup new
      /\ since' = [r \in Request |-> IF r \in new THEN {q \in new : q > r}
                                     ELSE IF r \in started THEN since[r] \cup new ELSE {}]
  BY DEF Handle
<1> HIDE DEF new
<1>3. Cardinality(new) <= Cardinality(S) /\ Cardinality(new) \in Nat /\ Cardinality(S) \in Nat
  BY <1>1, Requests, FS_Subset
<1>4. /\ asc \in Seq(new) /\ asc \in Seq(Request) /\ Len(asc) = Cardinality(new)
      /\ ToSet(asc) = new /\ Upwards(asc, Len(asc))
  BY <1>1, AscendingLists
<1> HIDE DEF asc
<1>5. Distinct(asc) /\ \A i \in 1..Len(asc) : asc[i] \in new /\ Later(asc, i) = {q \in new : q > asc[i]}
  BY <1>1, <1>4, UpwardList
<1>6. active' \in Seq(Request) /\ Len(active') <= Concurrency
  <2>1. active \in Seq(Request) /\ Len(active) \in Nat /\ Concurrency \in Nat
    BY CliAssumption DEF PoolOK
  <2>2. active' \in Seq(Request) /\ Len(active') = Len(active) + Len(asc)
    BY <1>2, <1>4, <2>1, RequestsJoined
  <2> QED
    BY <1>3, <1>4, <2>1, <2>2
<1>7. started' \in SUBSET Request /\ since' \in [Request -> SUBSET Request]
  <2>1. \A r \in Request : since[r] \subseteq Request
    BY DEF PoolOK
  <2> QED
    BY <1>1, <1>2, <2>1 DEF PoolOK
<1>8. started' = started \cup S
  BY <1>1, <1>2 DEF PoolInv
<1>9. Apart
  <2> SUFFICES ASSUME NEW r \in started, Starts(r) PROVE Cardinality(since[r]) >= History
    BY DEF Apart
  <2>1. PICK i \in (Len(active) + 1)..Len(active') : active'[i] = r
    BY DEF Starts
  <2>2. r \in new
    <3>1. active \in Seq(Request) /\ asc \in Seq(Request) /\ active' = active \o asc
      BY <1>2, <1>4 DEF PoolOK
    <3>2. Len(active) \in Nat /\ Len(asc) \in Nat
      BY <3>1
    <3>3. /\ Len(active') = Len(active) + Len(asc)
          /\ \A j \in 1..Len(active) + Len(asc) :
               active'[j] = IF j <= Len(active) THEN active[j] ELSE asc[j - Len(active)]
      BY <3>1, Joined, Zenon
    <3>4. /\ i \in 1..Len(active) + Len(asc) /\ ~(i <= Len(active))
          /\ i - Len(active) \in 1..Len(asc)
      BY <3>2, <3>3
    <3>5. active'[i] = asc[i - Len(active)]
      BY <3>3, <3>4
    <3> QED
      BY <1>5, <2>1, <3>4, <3>5
  <2> QED
    BY <1>1, <2>2 DEF PoolInv
<1>10. delivered \in Seq(Request) /\ Distinct(delivered) /\ ToSet(delivered) \cap ToSet(asc) = {}
  BY <1>1, <1>4 DEF PoolOK, PoolInv
<1>11. ids \in Seq(Request) /\ ToSet(ids) = ToSet(delivered) \cup new /\ Len(ids) \in Nat
  BY <1>4, <1>10, RequestsJoined
<1>12. /\ Distinct(ids)
       /\ \A i \in 1..Len(ids) :
            \/ i \in 1..Len(delivered) /\ ids[i] = delivered[i]
               /\ Later(ids, i) = Later(delivered, i) \cup ToSet(asc)
            \/ \E k \in 1..Len(asc) : ids[i] = asc[k] /\ Later(ids, i) = Later(asc, k)
  BY <1>4, <1>5, <1>10, LaterJoined, Zenon
<1> HIDE DEF ids
<1>13. ASSUME NEW i \in 1..Len(ids) PROVE since'[ids[i]] = Later(ids, i)
  <2>1. ASSUME i \in 1..Len(delivered), ids[i] = delivered[i],
               Later(ids, i) = Later(delivered, i) \cup ToSet(asc)
        PROVE  since'[ids[i]] = Later(ids, i)
    <3>1. delivered[i] \in ToSet(delivered) /\ delivered[i] \in Request
      BY <1>10, <2>1 DEF ToSet
    <3>2. delivered[i] \notin new /\ delivered[i] \in started
      BY <1>1, <3>1 DEF PoolInv
    <3>3. since'[delivered[i]] = since[delivered[i]] \cup new
      BY <1>2, <3>1, <3>2
    <3> QED
      BY <1>4, <2>1, <3>3 DEF PoolInv
  <2>2. ASSUME NEW k \in 1..Len(asc), ids[i] = asc[k], Later(ids, i) = Later(asc, k)
        PROVE  since'[ids[i]] = Later(ids, i)
    <3>1. asc[k] \in new /\ asc[k] \in Request /\ Later(asc, k) = {q \in new : q > asc[k]}
      BY <1>1, <1>5
    <3>2. since'[asc[k]] = {q \in new : q > asc[k]}
      BY <1>2, <3>1
    <3> QED
      BY <2>2, <3>1, <3>2
  <2> QED
    BY <1>12, <2>1, <2>2
<1>14. PICK k \in 0..Len(ids) :
         /\ Len(delivered') = Len(ids) - k
         /\ \A i \in 1..Len(ids) - k : delivered'[i] = ids[k + i]
         /\ k > 0 => Len(ids) - k = History
  BY <1>2, <1>11, Remembered
<1>15. delivered' \in Seq(Request) /\ Len(delivered') <= History
  BY <1>2, <1>11, Remembered
<1>16. /\ Distinct(delivered') /\ ToSet(delivered') \subseteq ToSet(ids)
       /\ \A i \in 1..Len(delivered') :
            k + i \in 1..Len(ids) /\ Later(delivered', i) = Later(ids, k + i)
       /\ \A i \in 1..Len(ids) : i <= k \/ ids[i] \in ToSet(delivered')
  BY <1>11, <1>12, <1>14, <1>15, LaterRemembered
<1>17. ToSet(delivered') \subseteq started'
  BY <1>2, <1>11, <1>16 DEF PoolInv
<1>18. ASSUME NEW i \in 1..Len(delivered') PROVE since'[delivered'[i]] = Later(delivered', i)
  <2>1. delivered'[i] = ids[k + i]
    BY <1>14
  <2> QED
    BY <1>13, <1>16, <2>1
<1>19. ASSUME NEW r \in started' \ ToSet(delivered') PROVE Cardinality(since'[r]) >= History
  <2>1. CASE r \in ToSet(ids)
    <3>1. PICK i \in 1..Len(ids) : r = ids[i]
      BY <1>11, <2>1 DEF ToSet
    <3>2. i <= k
      BY <1>16, <3>1
    <3>3. Cardinality(since'[r]) = Len(ids) - i
      BY <1>11, <1>12, <1>13, <3>1, LaterCount
    <3>4. k > 0 /\ Len(ids) - k = History
      BY <1>14, <3>2
    <3> QED
      BY <1>11, <3>2, <3>3, <3>4
  <2>2. CASE r \notin ToSet(ids)
    <3>1. r \in started /\ r \notin ToSet(delivered) /\ r \notin new /\ r \in Request
      BY <1>2, <1>11, <2>2 DEF PoolOK
    <3>2. since'[r] = since[r] \cup new /\ Cardinality(since[r]) >= History
      BY <1>2, <3>1 DEF PoolInv
    <3>3. since[r] \in SUBSET Request /\ since'[r] \in SUBSET Request /\ since[r] \subseteq since'[r]
      BY <1>1, <3>1, <3>2 DEF PoolOK
    <3>4. Cardinality(since[r]) <= Cardinality(since'[r])
      BY <3>3, Requests, FS_Subset
    <3>5. Cardinality(since[r]) \in Nat /\ Cardinality(since'[r]) \in Nat /\ History \in Nat
      BY <3>3, Requests, CliAssumption
    <3> QED
      BY <3>2, <3>4, <3>5
  <2> QED
    BY <2>1, <2>2
<1>20. PoolInv'
  BY <1>16, <1>17, <1>18, <1>19 DEF PoolInv
<1> QED
  BY <1>6, <1>7, <1>8, <1>9, <1>15, <1>20

\* What a step does with the requests of E that it offers to the pool: nothing is
\* lost, nothing else is delivered or waits, and no delivery is repeated too early.
PoolMove(E) ==
  /\ started \subseteq started'
  /\ started' \subseteq started \cup ToSet(queued) \cup E
  /\ ToSet(queued') \subseteq ToSet(queued) \cup E
  /\ ToSet(queued) \cup E \subseteq ToSet(queued') \cup started'
  /\ Apart

\* A run hands each request to handle or queues it: the slots are not exceeded,
\* since of the offered requests only as many are started as slots are free.
LEMMA RunMoves ==
  ASSUME PoolOK, PoolInv, NEW E \in SUBSET Request, Run(E)
  PROVE  PoolOK' /\ PoolInv' /\ PoolMove(E)
<1> DEFINE first == {r \in E : Cardinality({q \in E : q < r}) < FreeSlots}
<1>1. Handle(first) /\ queued' = queued \o Ascending(E \ first)
  BY DEF Run
<1>2. first \in SUBSET Request /\ first \subseteq E /\ E \ first \in SUBSET Request
  OBVIOUS
<1>3. FreeSlots \in Nat /\ Len(active) + FreeSlots = Concurrency
  <2>1. Len(active) \in Nat /\ Len(active) <= Concurrency /\ Concurrency \in Nat
    BY CliAssumption DEF PoolOK
  <2> QED
    BY <2>1 DEF FreeSlots
<1>4. Cardinality(first) <= FreeSlots
  BY <1>3, FirstAreFew
<1> HIDE DEF first
<1>5. Len(active) + Cardinality(first) <= Concurrency
  <2>1. Len(active) \in Nat /\ Cardinality(first) \in Nat
    BY <1>2, Requests DEF PoolOK
  <2> QED
    BY <1>3, <1>4, <2>1
<1>6. /\ delivered' \in Seq(Request) /\ Len(delivered') <= History
      /\ active' \in Seq(Request) /\ Len(active') <= Concurrency
      /\ started' \in SUBSET Request /\ since' \in [Request -> SUBSET Request]
      /\ PoolInv' /\ Apart
      /\ started' = started \cup first
  BY <1>1, <1>2, <1>5, Handled
<1>7. queued' \in Seq(Request) /\ ToSet(queued') = ToSet(queued) \cup (E \ first)
  <2> DEFINE more == Ascending(E \ first)
  <2>1. ToSet(more) = E \ first
    BY <1>2, AscendingLists
  <2>2. more \in Seq(Request) /\ queued \in Seq(Request)
    BY <1>2, AscendingLists DEF PoolOK
  <2>3. queued' = queued \o more
    BY <1>1
  <2> HIDE DEF more
  <2>4. queued \o more \in Seq(Request)
    BY <2>2, RequestsJoined, Zenon
  <2>5. ToSet(queued \o more) = ToSet(queued) \cup ToSet(more)
    BY <2>2, RequestsJoined, Zenon
  <2> QED
    BY <2>1, <2>3, <2>4, <2>5
<1>8. PoolOK'
  BY <1>6, <1>7 DEF PoolOK
<1>9. PoolMove(E)
  BY <1>2, <1>6, <1>7 DEF PoolMove
<1> QED
  BY <1>6, <1>8, <1>9

\* A task that has waited is handed over.
LEMMA StartQueuedMoves ==
  ASSUME PoolOK, PoolInv, StartQueued
  PROVE  PoolOK' /\ PoolInv' /\ PoolMove({})
<1> DEFINE h == Head(queued)
<1>1. queued # <<>> /\ FreeSlots > 0 /\ queued' = Tail(queued) /\ Handle({h})
  BY DEF StartQueued
<1>2. h \in Request /\ queued' \in Seq(Request) /\ ToSet(queued) = {h} \cup ToSet(queued')
  BY <1>1, SetOfRest DEF PoolOK
<1> HIDE DEF h
<1>3. Cardinality({h}) = 1
  BY FS_Singleton
<1>4. Len(active) + Cardinality({h}) <= Concurrency
  <2>1. Len(active) \in Nat /\ Concurrency \in Nat
    BY CliAssumption DEF PoolOK
  <2> QED
    BY <1>1, <1>3, <2>1 DEF FreeSlots
<1>5. /\ delivered' \in Seq(Request) /\ Len(delivered') <= History
      /\ active' \in Seq(Request) /\ Len(active') <= Concurrency
      /\ started' \in SUBSET Request /\ since' \in [Request -> SUBSET Request]
      /\ PoolInv' /\ Apart
      /\ started' = started \cup {h}
  BY <1>1, <1>2, <1>4, Handled
<1>6. PoolOK'
  BY <1>2, <1>5 DEF PoolOK
<1>7. PoolMove({})
  BY <1>2, <1>5 DEF PoolMove
<1> QED
  BY <1>5, <1>6, <1>7

\* Where no more tasks run than before, none starts.
LEMMA NoneStarts ==
  ASSUME Len(active) \in Nat, Len(active') \in Nat, Len(active') <= Len(active)
  PROVE  Apart
<1>1. (Len(active) + 1)..Len(active') = {}
  OBVIOUS
<1> QED
  BY <1>1 DEF Apart, Starts

\* A task that ends only frees its slot.
LEMMA FinishMoves ==
  ASSUME PoolOK, PoolInv, NEW r \in Request, Finish(r)
  PROVE  PoolOK' /\ PoolInv' /\ PoolMove({})
<1>1. UNCHANGED <<delivered, queued, started, since>>
  BY DEF Finish
<1>2. PICK i \in 1..Len(active) : active' = RemoveAt(active, i)
  BY DEF Finish
<1>3. active' \in Seq(Request) /\ Len(active') = Len(active) - 1
  <2> DEFINE left == SubSeq(active, 1, i - 1)
             right == SubSeq(active, i + 1, Len(active))
  <2>1. active \in Seq(Request) /\ Len(active) \in Nat /\ i \in 1..Len(active)
    BY DEF PoolOK
  <2>2. left \in Seq(Request) /\ Len(left) = i - 1
    BY <2>1
  <2>3. right \in Seq(Request) /\ Len(right) = Len(active) - i
    BY <2>1
  <2>4. active' = left \o right
    BY <1>2 DEF RemoveAt
  <2> HIDE DEF left, right
  <2>5. active' \in Seq(Request) /\ Len(active') = Len(left) + Len(right)
    BY <2>2, <2>3, <2>4, RequestsJoined
  <2> QED
    BY <2>1, <2>2, <2>3, <2>5
<1>4. /\ Len(active) \in Nat /\ Len(active') \in Nat /\ Len(active') <= Len(active)
      /\ Len(active') <= Concurrency
  <2>1. Len(active) \in Nat /\ Len(active') \in Nat /\ Concurrency \in Nat
    BY <1>3, CliAssumption DEF PoolOK
  <2> QED
    BY <1>3, <2>1 DEF PoolOK
<1>5. Apart
  BY <1>4, NoneStarts
<1> QED
  BY <1>1, <1>3, <1>4, <1>5 DEF PoolOK, PoolInv, PoolMove

\* Steps that leave the pool alone.
LEMMA NoPoolMoves ==
  ASSUME PoolOK, PoolInv, UNCHANGED poolVars
  PROVE  PoolOK' /\ PoolInv' /\ PoolMove({})
<1>1. UNCHANGED <<delivered, active, queued, started, since>>
  BY DEF poolVars
<1>2. Len(active) \in Nat /\ Len(active') = Len(active)
  BY <1>1 DEF PoolOK
<1>3. Apart
  BY <1>2, NoneStarts
<1> QED
  BY <1>1, <1>3 DEF PoolOK, PoolInv, PoolMove

-----------------------------------------------------------------------------
(* The server's tables.                                                        *)

\* What TypeOK says of the server.
ServerOK ==
  /\ clock \in 0..LastRequest
  /\ saved \in SUBSET Request /\ rows \in SUBSET saved /\ published \in SUBSET saved

\* What TypeOK says of the state at the first "ready".
OldOK == old \in [received : 0..LastRequest, published : SUBSET Request]

\* What is stored has been received, and history was published, and received, by
\* the time the first "ready" was sent.
ServerInv ==
  /\ \A r \in saved : r <= clock
  /\ old.published \subseteq published
  /\ \A r \in old.published : r <= old.received

\* Every step keeps the server's part.
LEMMA ServerKept ==
  ASSUME ServerOK, OldOK, ServerInv, [Next]_vars
  PROVE  ServerOK' /\ OldOK' /\ ServerInv'
<1>1. CASE Receive
  <2>1. clock' = clock + 1 /\ clock < LastRequest /\ UNCHANGED <<saved, rows,
                                                                 published, old>>
    BY <1>1 DEF Receive
  <2>2. clock \in Nat /\ LastRequest \in Nat /\ \A r \in saved : r \in Nat
    BY Requests DEF ServerOK
  <2> QED
    BY <2>1, <2>2 DEF ServerOK, OldOK, ServerInv
<1>2. ASSUME NEW r \in Request, Save(r) PROVE ServerOK' /\ OldOK' /\ ServerInv'
  <2>1. saved' = saved \cup {r} /\ rows' = Newest(rows \cup {r}, MaxRequests) /\ r <= clock
        /\ UNCHANGED <<clock, published, old>>
    BY <1>2 DEF Save
  <2>2. rows' \subseteq rows \cup {r}
    BY <2>1 DEF Newest
  <2> QED
    BY <2>1, <2>2 DEF ServerOK, OldOK, ServerInv
<1>3. ASSUME NEW r \in Request, Publish(r) PROVE ServerOK' /\ OldOK' /\ ServerInv'
  <2>1. published' = published \cup {r} /\ r \in saved /\ UNCHANGED <<clock, saved,
                                                                      rows, old>>
    BY <1>3 DEF Publish
  <2> QED
    BY <2>1 DEF ServerOK, OldOK, ServerInv
<1>4. CASE Clear
  <2>1. rows' = {} /\ UNCHANGED <<clock, saved, published, old>>
    BY <1>4 DEF Clear
  <2> QED
    BY <2>1 DEF ServerOK, OldOK, ServerInv
<1>5. CASE DeleteEndpoint
  <2>1. rows' = {} /\ UNCHANGED <<clock, saved, published, old>>
    BY <1>5 DEF DeleteEndpoint
  <2> QED
    BY <2>1 DEF ServerOK, OldOK, ServerInv
<1>6. CASE Connect
  <2>1. /\ old' = old \/ old' = [received |-> clock, published |-> published]
        /\ UNCHANGED <<clock, saved, rows, published>>
    BY <1>6 DEF Connect, serverVars
  <2> QED
    BY <2>1 DEF ServerOK, OldOK, ServerInv
<1>7. CASE Break \/ StartQueued \/ Fatal \/ Interrupt \/ ReadReady \/ ReadRequest
           \/ FetchPage \/ CatchUpFails \/ EndOfStream \/ Stop
  <2>1. UNCHANGED <<clock, saved, rows, published, old>>
    BY <1>7 DEF Break, StartQueued, Fatal, Interrupt, ReadReady, ReadRequest,
       FetchPage, CatchUpFails, EndOfStream, Stop, serverVars, streamVars, loopVars,
       poolVars
  <2> QED
    BY <2>1 DEF ServerOK, OldOK, ServerInv
<1>8. ASSUME NEW r \in Request, Finish(r) PROVE ServerOK' /\ OldOK' /\ ServerInv'
  <2>1. UNCHANGED <<clock, saved, rows, published, old>>
    BY <1>8 DEF Finish, serverVars, streamVars, loopVars, poolVars
  <2> QED
    BY <2>1 DEF ServerOK, OldOK, ServerInv
<1>9. CASE UNCHANGED vars
  <2>1. UNCHANGED <<clock, saved, rows, published, old>>
    BY <1>9 DEF vars, serverVars, streamVars, loopVars, poolVars
  <2> QED
    BY <2>1 DEF ServerOK, OldOK, ServerInv
<1> QED
  BY <1>1, <1>2, <1>3, <1>4, <1>5, <1>6, <1>7, <1>8, <1>9 DEF Next, Loop

-----------------------------------------------------------------------------
(* The stream and the loop.                                                    *)

\* What TypeOK says of the stream.
StreamOK == subscribed \in BOOLEAN /\ channel \in Seq(Event)

\* What TypeOK says of the loop.
LoopOK ==
  /\ phase \in {"connect", "listen", "page", "stopped"}
  /\ initialized \in BOOLEAN /\ caughtUp \in BOOLEAN
  /\ cutoff \in 0..(LastRequest + 1)
  /\ page \in [cursor : 1..(LastRequest + 1), pages : 0..MaxPages,
               collected : SUBSET Request]

\* What TypeOK says of the options and the two flags.
SwitchesOK ==
  /\ options \in [skipHistory : BOOLEAN, catchup : BOOLEAN]
  /\ deleted \in BOOLEAN /\ aborted \in BOOLEAN

\* Events are on their way only to a loop that reads them.  A "ready" is the first
\* of them, and every request among them was published since the first "ready"
\* was sent.
ChannelInv ==
  /\ phase \in {"connect", "stopped"} => ~subscribed /\ channel = <<>>
  /\ \A i \in 1..Len(channel) :
       \/ channel[i][1] = "ready" /\ i = 1 /\ phase = "listen"
       \/ channel[i][1] = "request" /\ channel[i][2] \in published \ old.published

\* Events are pairs.
LEMMA Events ==
  /\ \A r \in Request : <<"request", r>> \in Event
  /\ \A n \in 1..(LastRequest + 1) : <<"ready", n>> \in Event
  /\ \A e \in Event : /\ e = <<e[1], e[2]>> /\ e[2] \in 1..(LastRequest + 1)
                     /\ (e[1] = "ready" \/ e[1] = "request")
  /\ "ready" # "request"
BY Requests DEF Event, Request

\* Every step keeps the options and the flags of their type.
LEMMA SwitchesKept ==
  ASSUME SwitchesOK, [Next]_vars
  PROVE  SwitchesOK'
<1>1. CASE DeleteEndpoint
  BY <1>1 DEF DeleteEndpoint, SwitchesOK
<1>2. CASE Interrupt
  BY <1>2 DEF Interrupt, SwitchesOK, serverVars
<1>3. CASE Receive \/ Clear \/ Break \/ StartQueued \/ Connect \/ Fatal
           \/ ReadReady \/ ReadRequest \/ FetchPage \/ CatchUpFails \/ EndOfStream \/ Stop
  <2>1. UNCHANGED <<options, deleted, aborted>>
    BY <1>3 DEF Receive, Clear, Break, StartQueued, Connect, Fatal, ReadReady,
       ReadRequest, FetchPage, CatchUpFails, EndOfStream, Stop, serverVars,
       streamVars, loopVars, poolVars
  <2> QED
    BY <2>1 DEF SwitchesOK
<1>4. ASSUME NEW r \in Request, Save(r) \/ Publish(r) \/ Finish(r) PROVE SwitchesOK'
  <2>1. UNCHANGED <<options, deleted, aborted>>
    BY <1>4 DEF Save, Publish, Finish, serverVars, streamVars, loopVars, poolVars
  <2> QED
    BY <2>1 DEF SwitchesOK
<1>5. CASE UNCHANGED vars
  <2>1. UNCHANGED <<options, deleted, aborted>>
    BY <1>5 DEF vars, serverVars, streamVars, loopVars, poolVars
  <2> QED
    BY <2>1 DEF SwitchesOK
<1> QED
  BY <1>1, <1>2, <1>3, <1>4, <1>5 DEF Next, Loop

\* Every step keeps the events in order.
LEMMA StreamKept ==
  ASSUME ServerOK, ServerInv, StreamOK, ChannelInv, [Next]_vars
  PROVE  StreamOK' /\ ChannelInv'
<1>1. ASSUME NEW r \in Request, Publish(r) PROVE StreamOK' /\ ChannelInv'
  <2>1. /\ published' = published \cup {r} /\ r \in saved \ published
        /\ UNCHANGED <<subscribed, phase, old>>
        /\ channel' = IF subscribed THEN Append(channel, <<"request", r>>) ELSE channel
    BY <1>1 DEF Publish, loopVars
  <2>2. r \notin old.published
    BY <2>1 DEF ServerInv
  <2>3. CASE subscribed
    <3>1. /\ channel' \in Seq(Event) /\ Len(channel') = Len(channel) + 1
          /\ \A i \in 1..Len(channel) : channel'[i] = channel[i]
          /\ channel'[Len(channel) + 1] = <<"request", r>>
      BY <2>1, <2>3, Events DEF StreamOK
    <3>2. \A i \in 1..Len(channel') : i \in 1..Len(channel) \/ i = Len(channel) + 1
      BY <3>1 DEF StreamOK
    <3>3. ASSUME NEW i \in 1..Len(channel')
          PROVE  \/ channel'[i][1] = "ready" /\ i = 1 /\ phase = "listen"
                 \/ channel'[i][1] = "request" /\ channel'[i][2] \in published' \ old.published
      <4>1. CASE i \in 1..Len(channel)
        BY <2>1, <3>1, <4>1 DEF ChannelInv
      <4>2. CASE i = Len(channel) + 1
        BY <2>1, <2>2, <3>1, <4>2
      <4> QED
        BY <3>2, <4>1, <4>2
    <3>4. phase \notin {"connect", "stopped"}
      BY <2>3 DEF ChannelInv
    <3> QED
      BY <2>1, <3>1, <3>3, <3>4 DEF StreamOK, ChannelInv
  <2>4. CASE ~subscribed
    BY <2>1, <2>2, <2>4 DEF StreamOK, ChannelInv
  <2> QED
    BY <2>3, <2>4
<1>2. CASE DeleteEndpoint
  <2>1. subscribed' = FALSE /\ UNCHANGED <<channel, phase, published, old>>
    BY <1>2 DEF DeleteEndpoint, loopVars
  <2> QED
    BY <2>1 DEF StreamOK, ChannelInv
<1>3. CASE Break
  <2>1. subscribed' = FALSE /\ subscribed /\ UNCHANGED <<phase, published, old>>
    BY <1>3 DEF Break, loopVars, serverVars
  <2>2. PICK n \in 0..Len(channel) : channel' = SubSeq(channel, 1, n)
    BY <1>3 DEF Break
  <2>3. /\ channel' \in Seq(Event) /\ Len(channel') <= Len(channel)
        /\ \A i \in 1..Len(channel') : i \in 1..Len(channel) /\ channel'[i] = channel[i]
    BY <2>2 DEF StreamOK
  <2> QED
    BY <2>1, <2>3 DEF StreamOK, ChannelInv
<1>4. CASE Connect
  <2>1. subscribed' = TRUE /\ channel' = <<<<"ready", clock + 1>>>> /\ phase' = "listen"
    BY <1>4 DEF Connect
  <2>2. <<"ready", clock + 1>> \in Event
    <3>1. clock + 1 \in 1..(LastRequest + 1)
      BY Requests DEF ServerOK
    <3> QED
      BY <3>1, Events
  <2> QED
    BY <2>1, <2>2 DEF StreamOK, ChannelInv
<1>5. CASE ReadReady
  <2>1. /\ channel' = Tail(channel) /\ phase = "listen" /\ phase' \in {"listen", "page"}
        /\ channel # <<>> /\ UNCHANGED <<subscribed, published, old>>
    BY <1>5 DEF ReadReady, serverVars
  <2>2. /\ channel' \in Seq(Event)
        /\ \A i \in 1..Len(channel') :
             i + 1 \in 1..Len(channel) /\ i + 1 # 1 /\ channel'[i] = channel[i + 1]
    BY <2>1 DEF StreamOK
  <2> QED
    BY <2>1, <2>2 DEF StreamOK, ChannelInv
<1>6. CASE ReadRequest
  <2>1. /\ channel' = Tail(channel) /\ phase = "listen"
        /\ channel # <<>> /\ UNCHANGED <<subscribed, phase, published, old>>
    BY <1>6 DEF ReadRequest, serverVars, loopVars
  <2>2. /\ channel' \in Seq(Event)
        /\ \A i \in 1..Len(channel') :
             i + 1 \in 1..Len(channel) /\ i + 1 # 1 /\ channel'[i] = channel[i + 1]
    BY <2>1 DEF StreamOK
  <2> QED
    BY <2>1, <2>2 DEF StreamOK, ChannelInv
<1>7. CASE FetchPage
  <2>1. /\ phase = "page" /\ phase' \in {"listen", "page"}
        /\ UNCHANGED <<subscribed, channel, published, old>>
    BY <1>7 DEF FetchPage, serverVars, streamVars
  <2> QED
    BY <2>1 DEF StreamOK, ChannelInv
<1>8. CASE CatchUpFails
  <2>1. phase = "page" /\ phase' = "listen" /\ UNCHANGED <<subscribed, channel,
                                                           published, old>>
    BY <1>8 DEF CatchUpFails, serverVars, streamVars
  <2> QED
    BY <2>1 DEF StreamOK, ChannelInv
<1>9. CASE EndOfStream
  <2>1. ~subscribed /\ channel = <<>> /\ UNCHANGED <<subscribed, channel>>
    BY <1>9 DEF EndOfStream, streamVars
  <2> QED
    BY <2>1 DEF StreamOK, ChannelInv
<1>10. CASE Fatal
  <2>1. phase = "connect" /\ UNCHANGED <<subscribed, channel>>
    BY <1>10 DEF Fatal, streamVars
  <2> QED
    BY <2>1 DEF StreamOK, ChannelInv
<1>11. CASE Stop
  <2>1. subscribed' = FALSE /\ channel' = <<>>
    BY <1>11 DEF Stop
  <2>2. channel' \in Seq(Event) /\ 1..Len(channel') = {}
    BY <2>1
  <2> QED
    BY <2>1, <2>2 DEF StreamOK, ChannelInv
<1>12. CASE Receive \/ Clear \/ StartQueued \/ Interrupt
  <2>1. UNCHANGED <<subscribed, channel, phase, published, old>>
    BY <1>12 DEF Receive, Clear, StartQueued, Interrupt, serverVars, streamVars,
       loopVars, poolVars
  <2> QED
    BY <2>1 DEF StreamOK, ChannelInv
<1>13. ASSUME NEW r \in Request, Save(r) \/ Finish(r) PROVE StreamOK' /\ ChannelInv'
  <2>1. UNCHANGED <<subscribed, channel, phase, published, old>>
    BY <1>13 DEF Save, Finish, serverVars, streamVars, loopVars, poolVars
  <2> QED
    BY <2>1 DEF StreamOK, ChannelInv
<1>14. CASE UNCHANGED vars
  <2>1. UNCHANGED <<subscribed, channel, phase, published, old>>
    BY <1>14 DEF vars, serverVars, streamVars, loopVars, poolVars
  <2> QED
    BY <2>1 DEF StreamOK, ChannelInv
<1> QED
  BY <1>1, <1>2, <1>3, <1>4, <1>5, <1>6, <1>7, <1>8, <1>9, <1>10, <1>11, <1>12, <1>13,
     <1>14 DEF Next, Loop

\* The state of a catch-up that has read nothing is one of a catch-up.
LEMMA NoPageIsPage ==
  NoPage \in [cursor : 1..(LastRequest + 1), pages : 0..MaxPages, collected : SUBSET Request]
<1>1. LastRequest \in Nat /\ MaxPages \in Nat
  BY CliAssumption
<1>2. LastRequest + 1 \in 1..(LastRequest + 1) /\ 0 \in 0..MaxPages
  BY <1>1
<1>3. {} \in SUBSET Request
  OBVIOUS
<1> QED
  BY <1>2, <1>3 DEF NoPage

\* Every step keeps the loop's variables of their type: a page that is not the
\* last one is not empty, so it has a last row to go on from.
LEMMA LoopKept ==
  ASSUME ServerOK, StreamOK, LoopOK, [Next]_vars
  PROVE  LoopOK'
<1>1. CASE Connect
  BY <1>1 DEF Connect, LoopOK
<1>2. CASE Fatal
  BY <1>2 DEF Fatal, LoopOK
<1>3. CASE EndOfStream
  BY <1>3 DEF EndOfStream, LoopOK
<1>4. CASE Stop
  BY <1>4 DEF Stop, LoopOK
<1>5. CASE CatchUpFails
  <2>1. /\ phase' = "listen" /\ initialized' = TRUE /\ caughtUp' = FALSE
        /\ page' = NoPage /\ cutoff' = cutoff
    BY <1>5 DEF CatchUpFails
  <2> QED
    BY <2>1, NoPageIsPage DEF LoopOK
<1>6. CASE ReadReady
  <2>1. /\ channel # <<>> /\ cutoff' = Cutoff(Head(channel)[2])
        /\ phase' \in {"listen", "page"} /\ initialized' \in {TRUE, initialized}
        /\ caughtUp' \in {FALSE, caughtUp} /\ page' \in {NoPage, page}
    BY <1>6 DEF ReadReady, LoopOK
  <2>2. Head(channel)[2] \in 1..(LastRequest + 1)
    BY <2>1, Events, SetOfRest DEF StreamOK
  <2>3. cutoff' \in 0..(LastRequest + 1)
    BY <2>1, <2>2 DEF Cutoff, LoopOK
  <2> QED
    BY <2>1, <2>3, NoPageIsPage DEF LoopOK
<1>7. CASE FetchPage
  <2> DEFINE rest == {r \in rows : r < page.cursor}
             found == Newest(rest, PageSize)
             collected == page.collected \cup found
             turned == [cursor |-> NextCursor(found), pages |-> page.pages + 1,
                        collected |-> collected]
  <2>1. /\ UNCHANGED cutoff /\ phase' \in {"listen", "page"} /\ initialized' \in {TRUE, initialized}
        /\ caughtUp' = caughtUp \/ caughtUp' = (rest = found)
        /\ page' = NoPage \/ (rest # found /\ page.pages + 1 < MaxPages /\ page' = turned)
    BY <1>7 DEF FetchPage, LoopOK
  <2>2. rest \in SUBSET Request /\ found \subseteq rest /\ (rest # {} => found # {})
    <3>1. rest \in SUBSET Request
      BY DEF ServerOK
    <3> QED
      BY <3>1, NewestRows, CliAssumption
  <2> HIDE DEF rest, found
  <2>3. rest # found => NextCursor(found) \in Request
    <3>1. rest # found => found # {} /\ found \subseteq Nat /\ found \subseteq Request
      BY <2>2, Requests
    <3> QED
      BY <3>1, LeastOf DEF NextCursor
  <2>4. collected \in SUBSET Request
    BY <2>2 DEF LoopOK
  <2> HIDE DEF collected
  <2>5. rest # found /\ page.pages + 1 < MaxPages =>
          turned \in [cursor : 1..(LastRequest + 1), pages : 0..MaxPages,
                      collected : SUBSET Request]
    <3>1. page.pages \in 0..MaxPages /\ MaxPages \in Nat /\ LastRequest \in Nat
      BY CliAssumption DEF LoopOK
    <3>2. \A r \in Request : r \in 1..(LastRequest + 1)
      BY <3>1 DEF Request
    <3> QED
      BY <2>3, <2>4, <3>1, <3>2
  <2>6. caughtUp' \in BOOLEAN
    BY <2>1 DEF LoopOK
  <2> QED
    BY <2>1, <2>5, <2>6, NoPageIsPage DEF LoopOK
<1>8. CASE Receive \/ Clear \/ DeleteEndpoint \/ Break \/ StartQueued \/ Interrupt
           \/ ReadRequest
  <2>1. UNCHANGED <<phase, initialized, caughtUp, cutoff, page>>
    BY <1>8 DEF Receive, Clear, DeleteEndpoint, Break, StartQueued, Interrupt,
       ReadRequest, serverVars, streamVars, loopVars, poolVars
  <2> QED
    BY <2>1 DEF LoopOK
<1>9. ASSUME NEW r \in Request, Save(r) \/ Publish(r) \/ Finish(r) PROVE LoopOK'
  <2>1. UNCHANGED <<phase, initialized, caughtUp, cutoff, page>>
    BY <1>9 DEF Save, Publish, Finish, serverVars, streamVars, loopVars, poolVars
  <2> QED
    BY <2>1 DEF LoopOK
<1>10. CASE UNCHANGED vars
  <2>1. UNCHANGED <<phase, initialized, caughtUp, cutoff, page>>
    BY <1>10 DEF vars, serverVars, streamVars, loopVars, poolVars
  <2> QED
    BY <2>1 DEF LoopOK
<1> QED
  BY <1>1, <1>2, <1>3, <1>4, <1>5, <1>6, <1>7, <1>8, <1>9, <1>10 DEF Next, Loop

-----------------------------------------------------------------------------
(* The first "ready", the cutoff and history.                                 *)

\* A client that has not finished with its first "ready" has delivered and queued
\* nothing, and a "ready" with the time of the history is what it reads next.
NewcomerInv ==
  ~initialized =>
    /\ started = {} /\ queued = <<>>
    /\ phase = "listen" /\ subscribed => channel # <<>>
    /\ phase = "listen" /\ channel # <<>> => channel[1] = <<"ready", old.received + 1>>

\* The requests before this time are skipped.
HistoryEnd == IF options.skipHistory THEN old.received + 1 ELSE 0

\* Once the first "ready" has been read, the cutoff is the end of the history.
CutoffInv ==
  /\ initialized \/ phase = "page" => cutoff = HistoryEnd
  /\ ~options.skipHistory => cutoff = 0

\* No request of the history has been delivered or waits.
HistoryInv ==
  options.skipHistory => old.published \cap (started \cup ToSet(queued)) = {}

\* The event at the head of the channel.
LEMMA HeadOfChannel ==
  ASSUME StreamOK, ServerOK, ChannelInv, channel # <<>>
  PROVE  /\ Head(channel) = channel[1] /\ channel[1] \in Event
         /\ ToSet(channel) = {channel[1]} \cup ToSet(Tail(channel))
         /\ channel[1][1] = "request" =>
              /\ channel[1][2] \in published \ old.published
              /\ channel[1][2] \in Request
              /\ channel[1] = <<"request", channel[1][2]>>
<1>1. Head(channel) = channel[1] /\ 1 \in 1..Len(channel)
  BY DEF StreamOK
<1>2. Head(channel) \in Event /\ ToSet(channel) = {Head(channel)} \cup ToSet(Tail(channel))
  BY SetOfRest DEF StreamOK
<1>3. channel[1] = <<channel[1][1], channel[1][2]>>
  BY <1>1, <1>2, Events
<1>4. channel[1][1] = "request" => channel[1][2] \in published \ old.published
  BY <1>1, Events DEF ChannelInv
<1> QED
  BY <1>1, <1>2, <1>3, <1>4 DEF ServerOK

\* Every step keeps a newcomer's part.
LEMMA NewcomerKept ==
  ASSUME ServerOK, StreamOK, ChannelInv, LoopOK, NewcomerInv, [Next]_vars
  PROVE  NewcomerInv'
<1>1. ASSUME NEW r \in Request, Publish(r) PROVE NewcomerInv'
  <2>1. /\ UNCHANGED <<initialized, started, queued, phase, subscribed, old>>
        /\ channel' = IF subscribed THEN Append(channel, <<"request", r>>) ELSE channel
    BY <1>1 DEF Publish, loopVars, poolVars
  <2>2. \/ channel' = channel
        \/ channel' # <<>> /\ subscribed /\ (channel # <<>> => channel'[1] = channel[1])
    BY <2>1, Events DEF StreamOK
  <2> QED
    BY <2>1, <2>2 DEF NewcomerInv
<1>2. CASE DeleteEndpoint
  <2>1. subscribed' = FALSE /\ UNCHANGED <<initialized, started, queued, phase, channel,
                                           old>>
    BY <1>2 DEF DeleteEndpoint, loopVars, poolVars
  <2> QED
    BY <2>1 DEF NewcomerInv
<1>3. CASE Break
  <2>1. subscribed' = FALSE /\ UNCHANGED <<initialized, started, queued, phase, old>>
    BY <1>3 DEF Break, loopVars, poolVars
  <2>2. PICK n \in 0..Len(channel) : channel' = SubSeq(channel, 1, n)
    BY <1>3 DEF Break
  <2>3. channel' # <<>> => channel # <<>> /\ channel'[1] = channel[1]
    BY <2>2 DEF StreamOK
  <2> QED
    BY <2>1, <2>3 DEF NewcomerInv
<1>4. CASE StartQueued
  <2>1. queued # <<>> /\ UNCHANGED initialized
    BY <1>4 DEF StartQueued, loopVars
  <2> QED
    BY <2>1 DEF NewcomerInv
<1>5. CASE Connect
  <2>1. /\ channel' = <<<<"ready", clock + 1>>>> /\ UNCHANGED <<initialized, started,
                                                            queued>>
        /\ ~initialized => old' = [received |-> clock, published |-> published]
    BY <1>5 DEF Connect, poolVars
  <2>2. channel' # <<>> /\ channel'[1] = <<"ready", clock + 1>>
    BY <2>1
  <2> QED
    BY <2>1, <2>2 DEF NewcomerInv
<1>6. CASE Fatal
  <2>1. phase' = "stopped" /\ UNCHANGED <<initialized, started, queued>>
    BY <1>6 DEF Fatal, poolVars
  <2> QED
    BY <2>1 DEF NewcomerInv
<1>7. CASE ReadReady
  <2>1. (phase' = "page" /\ UNCHANGED initialized) \/ initialized' = TRUE
    BY <1>7 DEF ReadReady
  <2>2. UNCHANGED <<started, queued>>
    BY <1>7 DEF ReadReady, poolVars
  <2> QED
    BY <2>1, <2>2 DEF NewcomerInv
<1>8. CASE ReadRequest
  <2>1. phase = "listen" /\ channel # <<>> /\ Head(channel)[1] = "request" /\ UNCHANGED initialized
    BY <1>8 DEF ReadRequest, loopVars
  <2>2. channel[1][1] = "request"
    BY <2>1, HeadOfChannel
  <2>3. channel[1] # <<"ready", old.received + 1>>
    BY <2>2, Events
  <2> QED
    BY <2>1, <2>3 DEF NewcomerInv
<1>9. CASE FetchPage
  <2>1. \/ initialized' = TRUE
        \/ phase = "page" /\ UNCHANGED <<phase, initialized, started, queued>>
    BY <1>9 DEF FetchPage, poolVars
  <2> QED
    BY <2>1 DEF NewcomerInv
<1>10. CASE CatchUpFails
  <2>1. initialized' = TRUE
    BY <1>10 DEF CatchUpFails
  <2> QED
    BY <2>1 DEF NewcomerInv
<1>11. CASE EndOfStream
  <2>1. phase' = "connect" /\ UNCHANGED <<initialized, started, queued>>
    BY <1>11 DEF EndOfStream, poolVars
  <2> QED
    BY <2>1 DEF NewcomerInv
<1>12. CASE Stop
  <2>1. phase' = "stopped" /\ UNCHANGED <<initialized, started, queued>>
    BY <1>12 DEF Stop, poolVars
  <2> QED
    BY <2>1 DEF NewcomerInv
<1>13. CASE Receive \/ Clear \/ Interrupt
  <2>1. UNCHANGED <<initialized, started, queued, phase, subscribed, channel, old>>
    BY <1>13 DEF Receive, Clear, Interrupt, serverVars, streamVars, loopVars, poolVars
  <2> QED
    BY <2>1 DEF NewcomerInv
<1>14. ASSUME NEW r \in Request, Save(r) \/ Finish(r) PROVE NewcomerInv'
  <2>1. UNCHANGED <<initialized, started, queued, phase, subscribed, channel, old>>
    BY <1>14 DEF Save, Finish, serverVars, streamVars, loopVars, poolVars
  <2> QED
    BY <2>1 DEF NewcomerInv
<1>15. CASE UNCHANGED vars
  <2>1. UNCHANGED <<initialized, started, queued, phase, subscribed, channel, old>>
    BY <1>15 DEF vars, serverVars, streamVars, loopVars, poolVars
  <2> QED
    BY <2>1 DEF NewcomerInv
<1> QED
  BY <1>1, <1>2, <1>3, <1>4, <1>5, <1>6, <1>7, <1>8, <1>9, <1>10, <1>11, <1>12, <1>13,
     <1>14, <1>15 DEF Next, Loop

\* Every step keeps the cutoff: it is read from the first "ready" and from no
\* later one.
LEMMA CutoffKept ==
  ASSUME ServerOK, StreamOK, SwitchesOK, LoopOK, ChannelInv, NewcomerInv, CutoffInv,
         [Next]_vars
  PROVE  CutoffInv'
<1>1. CASE Connect
  <2>1. /\ phase = "connect" /\ phase' = "listen" /\ UNCHANGED <<options, initialized,
                                                                 cutoff>>
        /\ initialized => old' = old
    BY <1>1 DEF Connect
  <2> QED
    BY <2>1 DEF CutoffInv, HistoryEnd
<1>2. CASE Fatal
  <2>1. phase' = "stopped" /\ UNCHANGED <<options, initialized, cutoff, old>>
    BY <1>2 DEF Fatal
  <2> QED
    BY <2>1 DEF CutoffInv, HistoryEnd
<1>3. CASE EndOfStream
  <2>1. phase' = "connect" /\ UNCHANGED <<options, initialized, cutoff, old>>
    BY <1>3 DEF EndOfStream
  <2> QED
    BY <2>1 DEF CutoffInv, HistoryEnd
<1>4. CASE Stop
  <2>1. phase' = "stopped" /\ UNCHANGED <<options, initialized, cutoff, old>>
    BY <1>4 DEF Stop
  <2> QED
    BY <2>1 DEF CutoffInv, HistoryEnd
<1>5. CASE ReadReady
  <2>1. /\ phase = "listen" /\ channel # <<>> /\ cutoff' = Cutoff(Head(channel)[2])
        /\ UNCHANGED <<options, old>>
    BY <1>5 DEF ReadReady
  <2>2. Head(channel) = channel[1]
    BY <2>1, HeadOfChannel
  <2>3. ~initialized => Head(channel)[2] = old.received + 1
    BY <2>1, <2>2 DEF NewcomerInv
  <2>4. cutoff' = HistoryEnd
    BY <2>1, <2>3 DEF Cutoff, CutoffInv, HistoryEnd, SwitchesOK
  <2> QED
    BY <2>1, <2>4 DEF CutoffInv, HistoryEnd
<1>6. CASE FetchPage
  <2>1. phase = "page" /\ UNCHANGED <<options, cutoff, old>>
    BY <1>6 DEF FetchPage
  <2> QED
    BY <2>1 DEF CutoffInv, HistoryEnd
<1>7. CASE CatchUpFails
  <2>1. phase = "page" /\ UNCHANGED <<options, cutoff, old>>
    BY <1>7 DEF CatchUpFails
  <2> QED
    BY <2>1 DEF CutoffInv, HistoryEnd
<1>8. CASE Receive \/ Clear \/ DeleteEndpoint \/ Break \/ StartQueued \/ Interrupt
           \/ ReadRequest
  <2>1. UNCHANGED <<initialized, phase, cutoff, options, old>>
    BY <1>8 DEF Receive, Clear, DeleteEndpoint, Break, StartQueued, Interrupt,
       ReadRequest, serverVars, streamVars, loopVars, poolVars
  <2> QED
    BY <2>1 DEF CutoffInv, HistoryEnd
<1>9. ASSUME NEW r \in Request, Save(r) \/ Publish(r) \/ Finish(r) PROVE CutoffInv'
  <2>1. UNCHANGED <<initialized, phase, cutoff, options, old>>
    BY <1>9 DEF Save, Publish, Finish, serverVars, streamVars, loopVars, poolVars
  <2> QED
    BY <2>1 DEF CutoffInv, HistoryEnd
<1>10. CASE UNCHANGED vars
  <2>1. UNCHANGED <<initialized, phase, cutoff, options, old>>
    BY <1>10 DEF vars, serverVars, streamVars, loopVars, poolVars
  <2> QED
    BY <2>1 DEF CutoffInv, HistoryEnd
<1> QED
  BY <1>1, <1>2, <1>3, <1>4, <1>5, <1>6, <1>7, <1>8, <1>9, <1>10 DEF Next, Loop

\* Every step keeps history skipped: what the stream brings was published later,
\* and what a catch-up collects is compared with the cutoff.
LEMMA HistoryKept ==
  ASSUME PoolOK, PoolInv, ServerOK, ServerInv, OldOK, StreamOK, ChannelInv, LoopOK,
         NewcomerInv, CutoffInv, HistoryInv, [Next]_vars
  PROVE  HistoryInv'
<1>1. CASE Connect
  <2>1. UNCHANGED <<options, started, queued>> /\ (initialized => old' = old)
    BY <1>1 DEF Connect, poolVars
  <2>2. ~initialized => started' = {} /\ ToSet(queued') = {}
    <3>1. ToSet(<<>>) = {}
      BY DEF ToSet
    <3> QED
      BY <2>1, <3>1 DEF NewcomerInv
  <2> QED
    BY <2>1, <2>2 DEF HistoryInv
<1>2. CASE StartQueued
  <2>1. UNCHANGED <<options, old>>
    BY <1>2 DEF StartQueued
  <2> QED
    BY <1>2, <2>1, StartQueuedMoves DEF PoolMove, HistoryInv
<1>3. CASE ReadRequest
  <2> DEFINE q == channel[1][2]
  <2>1. /\ UNCHANGED <<options,
                       old>> /\ channel # <<>> /\ Head(channel)[1] = "request"
        /\ Run({Head(channel)[2]})
    BY <1>3 DEF ReadRequest
  <2>2. q \in published \ old.published /\ q \in Request /\ Head(channel)[2] = q
    BY <2>1, HeadOfChannel
  <2> HIDE DEF q
  <2>3. PoolMove({q})
    BY <2>1, <2>2, RunMoves
  <2> QED
    BY <2>1, <2>2, <2>3 DEF PoolMove, HistoryInv
<1>4. CASE FetchPage
  <2> DEFINE rest == {r \in rows : r < page.cursor}
             found == Newest(rest, PageSize)
             missed == (page.collected \cup found) \ Skipped
  <2>1. phase = "page" /\ UNCHANGED <<options,
                                      old>> /\ (UNCHANGED poolVars \/ Run(missed))
    BY <1>4 DEF FetchPage
  <2>2. missed \in SUBSET Request
    BY DEF Newest, LoopOK, ServerOK
  <2>3. options.skipHistory => old.published \cap missed = {}
    <3>1. options.skipHistory => cutoff = old.received + 1
      BY <2>1 DEF CutoffInv, HistoryEnd
    <3>2. \A r \in old.published : r \in Request /\ r < old.received + 1
      BY Requests DEF ServerInv, OldOK, Request
    <3> QED
      BY <3>1, <3>2 DEF Skipped
  <2> HIDE DEF missed
  <2>4. CASE UNCHANGED poolVars
    BY <2>1, <2>4 DEF poolVars, HistoryInv
  <2>5. CASE Run(missed)
    <3>1. PoolMove(missed)
      BY <2>2, <2>5, RunMoves
    <3> QED
      BY <2>1, <2>3, <3>1 DEF PoolMove, HistoryInv
  <2> QED
    BY <2>1, <2>4, <2>5
<1>5. CASE Receive \/ Clear \/ DeleteEndpoint \/ Break \/ Fatal \/ Interrupt
           \/ ReadReady \/ CatchUpFails \/ EndOfStream \/ Stop
  <2>1. UNCHANGED <<options, old, started, queued>>
    BY <1>5 DEF Receive, Clear, DeleteEndpoint, Break, Fatal, Interrupt, ReadReady,
       CatchUpFails, EndOfStream, Stop, serverVars, streamVars, loopVars, poolVars
  <2> QED
    BY <2>1 DEF HistoryInv
<1>6. ASSUME NEW r \in Request, Save(r) \/ Publish(r) \/ Finish(r) PROVE HistoryInv'
  <2>1. UNCHANGED <<options, old, started, queued>>
    BY <1>6 DEF Save, Publish, Finish, serverVars, streamVars, loopVars, poolVars
  <2> QED
    BY <2>1 DEF HistoryInv
<1>7. CASE UNCHANGED vars
  <2>1. UNCHANGED <<options, old, started, queued>>
    BY <1>7 DEF vars, serverVars, streamVars, loopVars, poolVars
  <2> QED
    BY <2>1 DEF HistoryInv
<1> QED
  BY <1>1, <1>2, <1>3, <1>4, <1>5, <1>6, <1>7 DEF Next, Loop

-----------------------------------------------------------------------------
(* Between the stream and the pages.                                           *)

\* A "ready" is the next event: a catch-up comes before anything else.
Ahead == channel # <<>> /\ channel[1][1] = "ready"

\* Requests the stream is bringing.
Announced == {r \in Request : <<"request", r>> \in ToSet(channel)}

\* Requests that are delivered, wait or are being brought.
Covered == started \cup ToSet(queued) \cup Announced

\* Listed and published requests that are not history.
Wanted == {r \in rows \cap published : r > Since}

\* While the client is connected and has caught up, every wanted request is
\* covered; during a catch-up, every one the pages already read did not show.
GapInv ==
  subscribed =>
    /\ phase = "listen" /\ caughtUp /\ ~Ahead => Wanted \subseteq Covered
    /\ phase = "page" =>
         \A r \in Wanted : r \in Covered \cup page.collected \/ r < page.cursor

\* Every step keeps the pool's part, and repeats no delivery too early.
LEMMA PoolKept ==
  ASSUME PoolOK, PoolInv, ServerOK, StreamOK, ChannelInv, LoopOK, [Next]_vars
  PROVE  PoolOK' /\ PoolInv' /\ Apart
<1>1. ASSUME NEW r \in Request, Finish(r) PROVE PoolOK' /\ PoolInv' /\ Apart
  BY <1>1, FinishMoves DEF PoolMove
<1>2. CASE StartQueued
  BY <1>2, StartQueuedMoves DEF PoolMove
<1>3. CASE ReadRequest
  <2>1. channel # <<>> /\ Head(channel)[1] = "request" /\ Run({Head(channel)[2]})
    BY <1>3 DEF ReadRequest
  <2>2. Head(channel)[2] \in Request
    BY <2>1, HeadOfChannel
  <2> QED
    BY <2>1, <2>2, RunMoves DEF PoolMove
<1>4. CASE FetchPage
  <2> DEFINE rest == {r \in rows : r < page.cursor}
             found == Newest(rest, PageSize)
             missed == (page.collected \cup found) \ Skipped
  <2>1. UNCHANGED poolVars \/ Run(missed)
    BY <1>4 DEF FetchPage
  <2>2. missed \in SUBSET Request
    BY DEF Newest, LoopOK, ServerOK
  <2> HIDE DEF missed
  <2> QED
    BY <2>1, <2>2, RunMoves, NoPoolMoves DEF PoolMove
<1>5. CASE Receive \/ Clear \/ DeleteEndpoint \/ Break \/ Connect \/ Fatal
           \/ Interrupt \/ ReadReady \/ CatchUpFails \/ EndOfStream \/ Stop
  <2>1. UNCHANGED <<poolVars>>
    BY <1>5 DEF Receive, Clear, DeleteEndpoint, Break, Connect, Fatal, Interrupt,
       ReadReady, CatchUpFails, EndOfStream, Stop, serverVars, streamVars, loopVars,
       poolVars
  <2> QED
    BY <2>1, NoPoolMoves DEF PoolMove
<1>6. ASSUME NEW r \in Request, Save(r) \/ Publish(r) PROVE PoolOK' /\ PoolInv' /\ Apart
  <2>1. UNCHANGED <<poolVars>>
    BY <1>6 DEF Save, Publish, serverVars, streamVars, loopVars, poolVars
  <2> QED
    BY <2>1, NoPoolMoves DEF PoolMove
<1>7. CASE UNCHANGED vars
  <2>1. UNCHANGED <<poolVars>>
    BY <1>7 DEF vars, serverVars, streamVars, loopVars, poolVars
  <2> QED
    BY <2>1, NoPoolMoves DEF PoolMove
<1> QED
  BY <1>1, <1>2, <1>3, <1>4, <1>5, <1>6, <1>7 DEF Next, Loop

\* Every step keeps the gap closed: a request published meanwhile is on the stream,
\* a page shows the newest of what is left, and the end of the list is the end of
\* the gap.
LEMMA GapKept ==
  ASSUME PoolOK, PoolInv, ServerOK, ServerInv, OldOK, StreamOK, ChannelInv,
         SwitchesOK,
         LoopOK, NewcomerInv, CutoffInv, GapInv, [Next]_vars
  PROVE  GapInv'
<1>1. ASSUME NEW r \in Request, Save(r) PROVE GapInv'
  <2>1. /\ r \notin saved /\ rows' = Newest(rows \cup {r}, MaxRequests)
        /\ UNCHANGED <<subscribed, phase, caughtUp, channel, started, queued, page,
                       published, options, old>>
    BY <1>1 DEF Save, streamVars, loopVars, poolVars
  <2>2. Wanted' \subseteq Wanted
    BY <2>1 DEF Newest, Wanted, Since, ServerOK
  <2>3. UNCHANGED <<Ahead, Covered>>
    BY <2>1 DEF Ahead, Covered, Announced
  <2> QED
    BY <2>1, <2>2, <2>3 DEF GapInv
<1>2. ASSUME NEW r \in Request, Publish(r) PROVE GapInv'
  <2>1. /\ published' = published \cup {r}
        /\ channel' = IF subscribed THEN Append(channel, <<"request", r>>) ELSE channel
        /\ UNCHANGED <<subscribed, phase, caughtUp, started, queued, page, rows,
                       options, old>>
    BY <1>2 DEF Publish, loopVars, poolVars
  <2>2. Wanted' \subseteq Wanted \cup {r}
    BY <2>1 DEF Wanted, Since
  <2>3. SUFFICES ASSUME subscribed PROVE GapInv'
    BY <2>1 DEF GapInv
  <2>4. /\ channel' = Append(channel, <<"request", r>>)
        /\ <<"request", r>> \in Event /\ channel \in Seq(Event)
    BY <2>1, <2>3, Events DEF StreamOK
  <2>5. ToSet(channel') = ToSet(channel) \cup {<<"request", r>>}
    BY <2>4, SetOfMore
  <2>6. Covered \cup {r} \subseteq Covered'
    BY <2>1, <2>5 DEF Covered, Announced
  <2>7. Ahead => Ahead'
    BY <2>4 DEF Ahead
  <2> QED
    BY <2>1, <2>2, <2>6, <2>7 DEF GapInv
<1>3. CASE Clear
  <2>1. rows' = {} /\ UNCHANGED <<subscribed, phase, caughtUp>>
    BY <1>3 DEF Clear, streamVars, loopVars
  <2>2. Wanted' = {}
    BY <2>1 DEF Wanted
  <2> QED
    BY <2>2 DEF GapInv
<1>4. CASE DeleteEndpoint
  BY <1>4 DEF DeleteEndpoint, GapInv
<1>5. CASE Break
  BY <1>5 DEF Break, GapInv
<1>6. ASSUME NEW r \in Request, Finish(r) PROVE GapInv'
  <2>1. UNCHANGED <<subscribed, phase, caughtUp, channel, started, queued, page, rows,
                    published, options, old>>
    BY <1>6 DEF Finish, serverVars, streamVars, loopVars
  <2> QED
    BY <2>1 DEF GapInv, Ahead, Covered, Announced, Wanted, Since
<1>7. CASE StartQueued
  <2>1. PoolMove({}) /\ UNCHANGED <<subscribed, phase, caughtUp, channel, page, rows,
                                    published, options, old>>
    BY <1>7, StartQueuedMoves DEF StartQueued, serverVars, streamVars, loopVars
  <2>2. UNCHANGED <<Ahead, Announced, Wanted>>
    BY <2>1 DEF Ahead, Announced, Wanted, Since
  <2>3. Covered \subseteq Covered'
    BY <2>1, <2>2 DEF PoolMove, Covered
  <2> QED
    BY <2>1, <2>2, <2>3 DEF GapInv
<1>8. CASE Connect
  <2>1. phase' = "listen" /\ channel' = <<<<"ready", clock + 1>>>>
    BY <1>8 DEF Connect
  <2>2. Ahead'
    BY <2>1 DEF Ahead
  <2> QED
    BY <2>1, <2>2 DEF GapInv
<1>9. CASE ReadReady
  <2>1. \/ phase' = "page" /\ page' = NoPage
        \/ phase' = "listen" /\ caughtUp' = FALSE
    BY <1>9 DEF ReadReady
  <2>2. UNCHANGED <<rows, published>>
    BY <1>9 DEF ReadReady, serverVars
  <2>3. \A r \in Wanted' : r < NoPage.cursor
    <3>1. \A r \in Request : r < LastRequest + 1
      BY Requests DEF Request
    <3> QED
      BY <2>2, <3>1 DEF Wanted, ServerOK, NoPage
  <2> QED
    BY <2>1, <2>3 DEF GapInv
<1>10. CASE ReadRequest
  <2> DEFINE q == channel[1][2]
  <2>1. /\ phase = "listen" /\ channel # <<>> /\ Head(channel)[1] = "request"
        /\ channel' = Tail(channel) /\ Run({Head(channel)[2]})
        /\ UNCHANGED <<subscribed, phase, caughtUp, rows, published, options, old>>
    BY <1>10 DEF ReadRequest, serverVars, loopVars
  <2>2. /\ q \in Request /\ Head(channel)[2] = q /\ ~Ahead
        /\ ToSet(channel) = {<<"request", q>>} \cup ToSet(channel')
    BY <2>1, HeadOfChannel, Events DEF Ahead
  <2> HIDE DEF q
  <2>3. PoolMove({q})
    BY <2>1, <2>2, RunMoves
  <2>4. Announced \subseteq Announced' \cup {q}
    BY <2>2, Events DEF Announced
  <2>5. Covered \subseteq Covered'
    BY <2>3, <2>4 DEF PoolMove, Covered
  <2>6. UNCHANGED Wanted
    BY <2>1 DEF Wanted, Since
  <2> QED
    BY <2>1, <2>2, <2>5, <2>6 DEF GapInv
<1>11. CASE FetchPage
  <2> DEFINE rest == {r \in rows : r < page.cursor}
             found == Newest(rest, PageSize)
             collected == page.collected \cup found
             missed == collected \ Skipped
  <2>1. phase = "page" /\ UNCHANGED <<subscribed, channel, rows, published, options,
                                      old>>
    BY <1>11 DEF FetchPage, serverVars, streamVars
  <2>2. \/ /\ rest # found /\ UNCHANGED <<phase, caughtUp, started, queued>>
           /\ page'.cursor = NextCursor(found) /\ page'.collected = collected
        \/ phase' = "listen" /\ caughtUp' = (rest = found) /\ Run(missed)
    BY <1>11 DEF FetchPage, poolVars
  <2>3. /\ rest \in SUBSET Request /\ found \subseteq rest /\ (rest # {} => found # {})
        /\ \A p \in found, r \in rest : p < r => r \in found
    <3>1. rest \in SUBSET Request
      BY DEF ServerOK
    <3> QED
      BY <3>1, NewestRows, CliAssumption
  <2>4. missed \in SUBSET Request /\ collected \subseteq missed \cup ToSet(delivered) \cup {r \in Request : r < cutoff}
    BY <2>3 DEF Skipped, LoopOK
  <2>5. UNCHANGED <<Ahead, Announced, Wanted>>
    BY <2>1 DEF Ahead, Announced, Wanted, Since
  <2>6. SUFFICES ASSUME subscribed PROVE GapInv'
    BY <2>1 DEF GapInv
  <2>7. ASSUME NEW r \in Wanted PROVE r \in Covered \cup page.collected \cup rest
    BY <2>1, <2>6 DEF GapInv, Wanted
  <2> HIDE DEF rest, found, missed
  <2>8. CASE /\ rest # found /\ UNCHANGED <<phase, caughtUp, started, queued>>
             /\ page'.cursor = NextCursor(found) /\ page'.collected = collected
    <3>1. UNCHANGED Covered
      BY <2>5, <2>8 DEF Covered
    <3>2. found # {} /\ found \subseteq Nat /\ rest \subseteq Nat
      BY <2>3, <2>8, Requests
    <3>3. NextCursor(found) \in found /\ \A n \in found : NextCursor(found) <= n
      BY <3>2, LeastOf DEF NextCursor
    <3>4. ASSUME NEW r \in rest PROVE r \in found \/ r < NextCursor(found)
      <4>1. r \in Nat /\ NextCursor(found) \in Nat
        BY <3>2, <3>3
      <4>2. NextCursor(found) < r => r \in found
        BY <2>3, <3>3
      <4> QED
        BY <3>3, <4>1, <4>2
    <3>5. \A r \in Wanted : r \in Covered \cup collected \/ r < NextCursor(found)
      BY <2>7, <3>4
    <3> HIDE DEF collected
    <3> QED
      BY <2>1, <2>5, <2>8, <3>1, <3>5 DEF GapInv
  <2>9. CASE phase' = "listen" /\ caughtUp' = (rest = found) /\ Run(missed)
    <3>1. PoolMove(missed)
      BY <2>4, <2>9, RunMoves
    <3>2. SUFFICES ASSUME rest = found, NEW r \in Wanted PROVE r \in Covered'
      BY <2>5, <2>9 DEF GapInv
    <3>3. /\ Covered \subseteq Covered' /\ missed \subseteq Covered'
          /\ ToSet(delivered) \subseteq Covered'
      BY <2>5, <3>1 DEF PoolMove, Covered, PoolInv
    <3>4. ~(r < cutoff)
      <4>1. cutoff = HistoryEnd /\ r > Since
        BY <2>1 DEF CutoffInv, Wanted
      <4>2. r \in Nat /\ old.received \in Nat
        BY Requests DEF Wanted, ServerOK, OldOK
      <4> QED
        BY <4>1, <4>2 DEF HistoryEnd, Since
    <3>5. r \in Covered \cup collected
      BY <2>7, <3>2
    <3> QED
      BY <2>4, <3>3, <3>4, <3>5
  <2> QED
    BY <2>2, <2>8, <2>9
<1>12. CASE CatchUpFails
  BY <1>12 DEF CatchUpFails, GapInv
<1>13. CASE EndOfStream
  BY <1>13 DEF EndOfStream, GapInv
<1>14. CASE Fatal
  BY <1>14 DEF Fatal, GapInv
<1>15. CASE Stop
  BY <1>15 DEF Stop, GapInv
<1>16. CASE Receive \/ Interrupt
  <2>1. UNCHANGED <<subscribed, phase, caughtUp, channel, started, queued, page, rows,
                    published, options, old>>
    BY <1>16 DEF Receive, Interrupt, serverVars, streamVars, loopVars, poolVars
  <2> QED
    BY <2>1 DEF GapInv, Ahead, Covered, Announced, Wanted, Since
<1>17. CASE UNCHANGED vars
  <2>1. UNCHANGED <<subscribed, phase, caughtUp, channel, started, queued, page, rows,
                    published, options, old>>
    BY <1>17 DEF vars, serverVars, streamVars, loopVars, poolVars
  <2> QED
    BY <2>1 DEF GapInv, Ahead, Covered, Announced, Wanted, Since
<1> QED
  BY <1>1, <1>2, <1>3, <1>4, <1>5, <1>6, <1>7, <1>8, <1>9, <1>10, <1>11, <1>12, <1>13,
     <1>14, <1>15, <1>16, <1>17 DEF Next, Loop


\* The invariant.
CliInv ==
  /\ SwitchesOK /\ ServerOK /\ OldOK /\ StreamOK /\ LoopOK /\ PoolOK
  /\ PoolInv /\ ServerInv /\ ChannelInv /\ NewcomerInv /\ CutoffInv /\ HistoryInv
  /\ GapInv

\* It holds at the start.
LEMMA InitHolds == Init => CliInv
<1> SUFFICES ASSUME Init PROVE CliInv
  OBVIOUS
<1>1. /\ <<>> \in Seq(Request) /\ <<>> \in Seq(Event) /\ Len(<<>>) = 0 /\ ToSet(<<>>) = {}
      /\ Cardinality({}) = 0 /\ {} \in SUBSET Request
  BY FS_EmptySet DEF ToSet
<1>2. 0 \in 0..LastRequest /\ 0 \in 0..(LastRequest + 1) /\ 0 <= History /\ 0 <= Concurrency
  BY CliAssumption
<1>3. SwitchesOK /\ ServerOK /\ OldOK /\ StreamOK
  BY <1>1, <1>2 DEF Init, SwitchesOK, ServerOK, OldOK, StreamOK
<1>4. LoopOK
  BY <1>2, NoPageIsPage DEF Init, LoopOK
<1>5. PoolOK /\ started = {}
  <2>1. [r \in Request |-> {}] \in [Request -> SUBSET Request]
    BY <1>1
  <2> QED
    BY <1>1, <1>2, <2>1 DEF Init, PoolOK
<1>6. PoolInv
  <2>1. delivered = <<>> /\ 1..Len(delivered) = {}
    BY <1>1 DEF Init
  <2> QED
    BY <1>1, <1>5, <2>1 DEF PoolInv, Distinct
<1>7. ServerInv /\ ChannelInv
  BY <1>1 DEF Init, ServerInv, ChannelInv
<1>8. NewcomerInv /\ CutoffInv /\ GapInv
  BY <1>5 DEF Init, NewcomerInv, CutoffInv, GapInv
<1>9. HistoryInv
  BY DEF Init, HistoryInv
<1> QED
  BY <1>3, <1>4, <1>5, <1>6, <1>7, <1>8, <1>9 DEF CliInv

\* Every step keeps it.
LEMMA StepKeeps == CliInv /\ [Next]_vars => CliInv'
<1> SUFFICES ASSUME CliInv, [Next]_vars PROVE CliInv'
  OBVIOUS
<1> USE DEF CliInv
<1>1. SwitchesOK'
  BY SwitchesKept
<1>2. ServerOK' /\ OldOK' /\ ServerInv'
  BY ServerKept
<1>3. StreamOK' /\ ChannelInv'
  BY StreamKept
<1>4. LoopOK'
  BY LoopKept
<1>5. PoolOK' /\ PoolInv'
  BY PoolKept
<1>6. NewcomerInv'
  BY NewcomerKept
<1>7. CutoffInv'
  BY CutoffKept
<1>8. HistoryInv'
  BY HistoryKept
<1>9. GapInv'
  BY GapKept
<1> QED
  BY <1>1, <1>2, <1>3, <1>4, <1>5, <1>6, <1>7, <1>8, <1>9

\* The inductive invariant of the forwarder and its server.
THEOREM ForwarderInvariant == Spec => []CliInv
BY InitHolds, StepKeeps, PTL DEF Spec

\* The variables keep their types: the slots are not exceeded, nor the capacity of
\* the id set.
THEOREM TypeCorrect == Spec => []TypeOK
<1>1. CliInv => TypeOK
  BY DEF CliInv, TypeOK, SwitchesOK, ServerOK, OldOK, StreamOK, LoopOK, PoolOK
<1> QED
  BY <1>1, ForwarderInvariant, PTL

\* A forwarder attached to an existing endpoint delivers nothing that was published
\* before it first listened, whatever its catch-ups read.
THEOREM HistoryStaysSkipped == Spec => []HistoryIsSkipped
<1>1. CliInv => HistoryIsSkipped
  BY DEF CliInv, HistoryInv, HistoryIsSkipped, OldOK, PoolOK
<1> QED
  BY <1>1, ForwarderInvariant, PTL

\* An idle forwarder whose last catch-up read the whole list has delivered every
\* listed and published request that is not history.
THEOREM NothingFallsThrough == Spec => []NothingIsMissed
<1>1. CliInv => NothingIsMissed
  <2> SUFFICES ASSUME CliInv, Idle, caughtUp, NEW r \in rows \cap published, r > Since
               PROVE  r \in started
    BY DEF NothingIsMissed
  <2>1. ToSet(<<>>) = {}
    BY DEF ToSet
  <2>2. ToSet(channel) = {} /\ ToSet(queued) = {} /\ ~Ahead /\ phase = "listen" /\ subscribed
    BY <2>1 DEF Idle, Ahead
  <2>3. r \in Covered
    BY <2>2 DEF CliInv, GapInv, Wanted
  <2> QED
    BY <2>2, <2>3 DEF Covered, Announced
<1> QED
  BY <1>1, ForwarderInvariant, PTL

\* Whatever the stream, the waiting tasks and each catch-up offer once more, a
\* request is delivered again only after as many others as the id set holds.
THEOREM RepeatsStayApart == Spec => RepeatsAreApart
<1>1. CliInv /\ [Next]_vars => [\A r \in started : Starts(r) => Cardinality(since[r]) >= History]_vars
  <2> SUFFICES ASSUME CliInv, [Next]_vars
               PROVE  \A r \in started : Starts(r) => Cardinality(since[r]) >= History
    OBVIOUS
  <2>1. Apart
    BY PoolKept DEF CliInv
  <2> QED
    BY <2>1 DEF Apart
<1> QED
  BY <1>1, ForwarderInvariant, PTL DEF Spec, RepeatsAreApart
=============================================================================
