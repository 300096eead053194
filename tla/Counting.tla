------------------------------ MODULE Counting ------------------------------
(***************************************************************************)
(* How often something occurs in a sequence: what Append and Tail do to    *)
(* the count.  The least and the greatest of a set of numbers, what a      *)
(* recursive function over 0..N is, and what a finite set in order looks   *)
(* like.                                                                   *)
(***************************************************************************)
EXTENDS Integers, Sequences, FiniteSetTheorems, WellFoundedInduction, TLAPS

Positions(q, x) == {i \in 1..Len(q) : q[i] = x}

Count(q, x) == Cardinality(Positions(q, x))

(* A count is a natural number, and zero when there is nothing to count.   *)
LEMMA CountType ==
  ASSUME NEW S, NEW q \in Seq(S), NEW x
  PROVE  /\ IsFiniteSet(Positions(q, x)) /\ Count(q, x) \in Nat
         /\ Count(q, x) = 0 <=> \A i \in 1..Len(q) : q[i] # x
<1>1. IsFiniteSet(1..Len(q))
  BY FS_Interval
<1>2. Positions(q, x) \in SUBSET (1..Len(q))
  BY DEF Positions
<1>3. IsFiniteSet(Positions(q, x)) /\ Count(q, x) \in Nat
  BY <1>1, <1>2, FS_Subset, FS_CardinalityType DEF Count
<1>4. Count(q, x) = 0 <=> Positions(q, x) = {}
  BY <1>3, FS_EmptySet DEF Count
<1> QED BY <1>3, <1>4 DEF Positions

(* What is appended counts.                                                *)
LEMMA CountAppend ==
  ASSUME NEW S, NEW q \in Seq(S), NEW x, NEW y \in S
  PROVE  /\ x = y => Count(Append(q, y), x) = Count(q, x) + 1
         /\ x # y => Count(Append(q, y), x) = Count(q, x)
<1>1. Positions(Append(q, y), x) = IF x = y THEN Positions(q, x) \cup {Len(q) + 1}
                                            ELSE Positions(q, x)
  BY DEF Positions
<1>2. Len(q) + 1 \notin Positions(q, x)
  BY DEF Positions
<1> QED BY <1>1, <1>2, CountType, FS_AddElement DEF Count

(* What is taken away counts no more.                                      *)
LEMMA CountTail ==
  ASSUME NEW S, NEW q \in Seq(S), q # <<>>, NEW x
  PROVE  /\ Head(q) = x => Count(Tail(q), x) = Count(q, x) - 1
         /\ Head(q) # x => Count(Tail(q), x) = Count(q, x)
<1> DEFINE P == Positions(q, x) \ {1}
           T == Positions(Tail(q), x)
           f == [i \in P |-> i - 1]
<1>1. /\ Len(q) \in Nat \ {0} /\ Len(Tail(q)) = Len(q) - 1 /\ Head(q) = q[1]
      /\ \A i \in 1..Len(Tail(q)) : Tail(q)[i] = q[i + 1]
  OBVIOUS
<1>2. f \in [P -> T]
  BY <1>1 DEF Positions
<1>3. \A i, j \in P : f[i] = f[j] => i = j
  BY DEF Positions
<1>4. ASSUME NEW k \in T PROVE \E i \in P : f[i] = k
  <2>1. k + 1 \in P /\ f[k + 1] = k
    BY <1>1 DEF Positions
  <2> QED BY <2>1
<1>5. ExistsBijection(P, T)
  BY <1>2, <1>3, <1>4 DEF ExistsBijection, Bijection, Injection, Surjection, IsInjective
<1>6. IsFiniteSet(P) /\ Cardinality(P) = IF 1 \in Positions(q, x) THEN Count(q, x) - 1 ELSE Count(q, x)
  BY CountType, FS_RemoveElement DEF Count
<1>7. Count(Tail(q), x) = Cardinality(P)
  BY <1>5, <1>6, FS_Bijection DEF Count
<1>8. 1 \in Positions(q, x) <=> Head(q) = x
  BY <1>1 DEF Positions
<1> QED BY <1>6, <1>7, <1>8, CountType

(* A set of numbers has a least one, the one CHOOSE picks.                 *)
LEMMA Least ==
  ASSUME NEW T \in SUBSET Nat, T # {}
  PROVE  \E n \in T : \A m \in T : n <= m
<1> DEFINE R == {ss \in Nat \X Nat : ss[1] < ss[2]}
<1>1. IsWellFoundedOn(R, Nat)
  BY NatLessThanWellFounded, Zenon DEF OpToRel
<1>2. \E x \in T : \A y \in T : ~(<<y, x>> \in R)
  <2> HIDE DEF R
  <2> QED BY <1>1, WFMin, Zenon
<1>3. \A x, y \in Nat : y < x => <<y, x>> \in R
  OBVIOUS
<1>4. PICK n \in T : \A m \in T : ~(<<m, n>> \in R)
  BY <1>2
<1> HIDE DEF R
<1>5. ASSUME NEW m \in T PROVE n <= m
  <2>1. m \in Nat /\ n \in Nat
    BY Zenon
  <2>2. ~(m < n)
    BY <2>1, <1>3, <1>4, Zenon
  <2> QED BY <2>1, <2>2
<1> QED BY <1>5, Zenon
(* A bounded set of numbers has a greatest one.                            *)
LEMMA Greatest ==
  ASSUME NEW N \in Nat, NEW T \in SUBSET (0..N), T # {}
  PROVE  \E n \in T : \A m \in T : m <= n
<1> DEFINE U == {i \in 0..N : N - i \in T}
<1>1. U \in SUBSET Nat /\ U # {}
  <2>1. PICK m \in T : TRUE
    OBVIOUS
  <2>2. m \in 0..N
    OBVIOUS
  <2>3. N - m \in 0..N /\ N - (N - m) = m
    BY <2>2
  <2>4. N - m \in U
    BY <2>3
  <2>5. U \in SUBSET Nat
    OBVIOUS
  <2> HIDE DEF U
  <2> QED BY <2>4, <2>5
<1>2. PICK i \in U : \A k \in U : i <= k
  <2> HIDE DEF U
  <2> QED BY <1>1, Least
<1>3. ASSUME NEW m \in T PROVE m <= N - i
  <2>1. N - m \in 0..N /\ N - (N - m) = m
    OBVIOUS
  <2>2. i <= N - m
    BY <1>2, <2>1
  <2> QED BY <2>1, <2>2
<1> QED BY <1>3

(* Induction up to N, over the set of the numbers something holds of.      *)
LEMMA UpTo ==
  ASSUME NEW N \in Nat, NEW P, 0 \in P, \A k \in 1..N : k - 1 \in P => k \in P
  PROVE  0..N \subseteq P
<1> DEFINE bad == (0..N) \ P
<1>1. SUFFICES ASSUME bad # {} PROVE FALSE
  OBVIOUS
<1>2. bad \in SUBSET Nat
  OBVIOUS
<1> HIDE DEF bad
<1>3. PICK n \in bad : \A m \in bad : n <= m
  BY <1>1, <1>2, Least
<1>4. n \in 1..N /\ n \notin P
  <2>1. n \in 0..N /\ n \notin P
    BY <1>3 DEF bad
  <2> QED BY <2>1
<1>5. n - 1 \in 0..N /\ ~(n <= n - 1)
  BY <1>4
<1>6. n - 1 \in P
  BY <1>3, <1>5 DEF bad
<1> QED BY <1>4, <1>6

(* There is a function over 0..N for a start and a way to go on.           *)
Unrolled(S, start, N, step) ==
  {f \in [0..N -> S] : f[0] = start /\ \A k \in 1..N : f[k] = step[k][f[k - 1]]}

LEMMA Recursive ==
  ASSUME NEW S, NEW start \in S, NEW N \in Nat, NEW step \in [1..N -> [S -> S]]
  PROVE  Unrolled(S, start, N, step) # {}
<1> SUFFICES \E f \in [0..N -> S] : f[0] = start /\ \A k \in 1..N : f[k] = step[k][f[k - 1]]
  BY DEF Unrolled
<1> DEFINE Goes(f, n) == f[0] = start /\ \A k \in 1..n : f[k] = step[k][f[k - 1]]
           bad == {n \in 0..N : ~(\E f \in [0..n -> S] : Goes(f, n))}
<1>1. SUFFICES ASSUME bad # {} PROVE FALSE
  <2>1. N \in 0..N
    OBVIOUS
  <2> QED BY <2>1
<1>2. bad \in SUBSET Nat
  OBVIOUS
<1> HIDE DEF bad
<1>3. PICK n \in bad : \A m \in bad : n <= m
  BY <1>1, <1>2, Least
<1>4. n \in 0..N /\ ~(\E f \in [0..n -> S] : Goes(f, n))
  BY <1>3 DEF bad
<1>5. CASE n = 0
  <2> DEFINE f == [k \in 0..0 |-> start]
  <2>1. f \in [0..n -> S] /\ f[0] = start
    BY <1>5
  <2>2. 1..n = {}
    BY <1>5
  <2>3. Goes(f, n)
    BY <2>1, <2>2
  <2> QED BY <1>4, <2>1, <2>3
<1>6. CASE n # 0
  <2>1. n \in 1..N /\ n - 1 \in 0..N /\ ~(n <= n - 1)
    BY <1>4, <1>6
  <2>2. n - 1 \notin bad
    BY <1>3, <2>1
  <2>3. PICK g \in [0..(n - 1) -> S] : Goes(g, n - 1)
    BY <2>1, <2>2 DEF bad
  <2> DEFINE f == [k \in 0..n |-> IF k = n THEN step[n][g[n - 1]] ELSE g[k]]
  <2>4. step[n][g[n - 1]] \in S
    <3>1. g[n - 1] \in S /\ step[n] \in [S -> S]
      BY <2>1, <2>3
    <3> QED BY <3>1
  <2>5. \A k \in 0..(n - 1) : k \in 0..n /\ f[k] = g[k] /\ g[k] \in S
    BY <2>1, <2>3
  <2>6. f[n] = step[n][g[n - 1]]
    BY <2>1
  <2>7. f \in [0..n -> S]
    <3>1. \A k \in 0..n : k = n \/ k \in 0..(n - 1)
      BY <1>4
    <3>2. \A k \in 0..n : (IF k = n THEN step[n][g[n - 1]] ELSE g[k]) \in S
      BY <2>4, <2>5, <3>1
    <3> QED BY <3>2
  <2> HIDE DEF f
  <2>8. f[0] = start
    <3>1. 0 \in 0..(n - 1)
      BY <2>1
    <3> QED BY <2>3, <2>5, <3>1
  <2>9. ASSUME NEW k \in 1..n PROVE f[k] = step[k][f[k - 1]]
    <3>1. CASE k = n
      <4>1. n - 1 \in 0..(n - 1)
        BY <2>1
      <4> QED BY <2>5, <2>6, <3>1, <4>1
    <3>2. CASE k # n
      <4>1. k \in 1..(n - 1) /\ k \in 0..(n - 1) /\ k - 1 \in 0..(n - 1)
        BY <2>1, <3>2
      <4>2. g[k] = step[k][g[k - 1]]
        BY <2>3, <4>1
      <4> QED BY <2>5, <4>1, <4>2
    <3> QED BY <3>1, <3>2
  <2> QED BY <1>4, <2>7, <2>8, <2>9
<1> QED BY <1>5, <1>6

(* Of a finite set in a strict total order, the k-th is the one with k - 1 *)
(* before it.                                                              *)
LEMMA Ranked ==
  ASSUME NEW S, IsFiniteSet(S), NEW R,
         \A x \in S : <<x, x>> \notin R,
         \A x, y, z \in S : <<x, y>> \in R /\ <<y, z>> \in R => <<x, z>> \in R,
         \A x, y \in S : x # y => <<x, y>> \in R \/ <<y, x>> \in R
  PROVE  LET ahead(c) == Cardinality({d \in S : <<d, c>> \in R})
             nth == [k \in 1..Cardinality(S) |-> CHOOSE c \in S : ahead(c) = k - 1]
         IN  /\ \A k \in 1..Cardinality(S) : nth[k] \in S
             /\ \A i, j \in 1..Cardinality(S) : i < j => <<nth[i], nth[j]>> \in R
<1> DEFINE A(c) == {d \in S : <<d, c>> \in R}
           ahead(c) == Cardinality(A(c))
           n == Cardinality(S)
           nth == [k \in 1..n |-> CHOOSE c \in S : ahead(c) = k - 1]
           f == [c \in S |-> ahead(c) + 1]
<1>0. n \in Nat
  BY FS_CardinalityType
<1>1. ASSUME NEW c \in S PROVE IsFiniteSet(A(c)) /\ ahead(c) \in 0..(n - 1)
  <2>1. A(c) \in SUBSET (S \ {c})
    OBVIOUS
  <2>2. IsFiniteSet(S \ {c}) /\ Cardinality(S \ {c}) = n - 1
    BY FS_RemoveElement
  <2>3. IsFiniteSet(A(c)) /\ ahead(c) <= n - 1
    <3> HIDE DEF A, n
    <3> QED BY <2>1, <2>2, FS_Subset
  <2>4. ahead(c) \in Nat
    <3> HIDE DEF A
    <3> QED BY <2>3, FS_CardinalityType
  <2> HIDE DEF A, ahead, n
  <2> QED BY <1>0, <2>3, <2>4
<1>2. ASSUME NEW c \in S, NEW d \in S, <<c, d>> \in R PROVE ahead(c) < ahead(d)
  <2>1. A(c) \cup {c} \in SUBSET A(d) /\ c \notin A(c)
    BY <1>2
  <2> HIDE DEF A
  <2>2. IsFiniteSet(A(c) \cup {c}) /\ Cardinality(A(c) \cup {c}) = ahead(c) + 1
    BY <1>1, <2>1, FS_AddElement
  <2>3. Cardinality(A(c) \cup {c}) <= ahead(d)
    BY <1>1, <2>1, FS_Subset
  <2>4. ahead(c) \in Int /\ ahead(d) \in Int
    BY <1>1
  <2> HIDE DEF ahead
  <2> QED BY <2>2, <2>3, <2>4
<1> HIDE DEF A, ahead, n
<1>3. f \in Injection(S, 1..n)
  <2>1. f \in [S -> 1..n]
    BY <1>0, <1>1
  <2>2. ASSUME NEW c \in S, NEW d \in S, f[c] = f[d], c # d PROVE FALSE
    <3>1. ahead(c) = ahead(d) /\ ahead(c) \in Int /\ ahead(d) \in Int
      BY <1>1, <2>2
    <3>2. ahead(c) < ahead(d) \/ ahead(d) < ahead(c)
      BY <1>2, <2>2
    <3> HIDE DEF ahead
    <3> QED BY <3>1, <3>2
  <2> QED BY <2>1, <2>2 DEF Injection, IsInjective
<1>4. f \in Surjection(S, 1..n)
  <2>1. IsFiniteSet(1..n) /\ Cardinality(1..n) = n
    BY <1>0, FS_Interval
  <2> HIDE DEF f
  <2> QED BY <1>3, <2>1, FS_Injection DEF n
<1>5. ASSUME NEW k \in 1..n PROVE nth[k] \in S /\ ahead(nth[k]) = k - 1
  <2>1. PICK c \in S : f[c] = k
    BY <1>4 DEF Surjection
  <2>2. ahead(c) = k - 1
    BY <1>0, <1>1, <2>1
  <2> QED BY <2>2
<1>6. ASSUME NEW i \in 1..n, NEW j \in 1..n, i < j PROVE <<nth[i], nth[j]>> \in R
  <2>1. /\ nth[i] \in S /\ nth[j] \in S
        /\ ahead(nth[i]) = i - 1 /\ ahead(nth[j]) = j - 1
    BY <1>5
  <2>2. nth[i] # nth[j]
    BY <1>0, <1>6, <2>1
  <2>3. <<nth[j], nth[i]>> \in R => ahead(nth[j]) < ahead(nth[i])
    BY <1>2, <2>1
  <2> HIDE DEF nth
  <2> QED BY <1>0, <1>6, <2>1, <2>2, <2>3
<1> QED BY <1>5, <1>6 DEF A, ahead, n
=============================================================================
