------------------------------- MODULE Numbers -------------------------------
(***************************************************************************)
(* Facts about natural numbers on which the other proofs rest: what is not *)
(* empty has a least number, what holds of 0 and of each successor holds   *)
(* of all up to a bound, and a recursive function on 0 .. N exists.  Sets  *)
(* and functions stand for the predicates and operators of the library's   *)
(* theorems, so that these facts can be cited with any of them.            *)
(***************************************************************************)
EXTENDS FiniteSetsExt, FiniteSetTheorems, TLAPS

(* What is not empty has a least number: otherwise the numbers below all of
   them would be finitely many, and as many as those of them that are not 0. *)
LEMMA LeastNumber ==
  ASSUME NEW S \in SUBSET Nat, S # {}
  PROVE  /\ Min(S) \in S
         /\ \A n \in S : Min(S) <= n
<1>1. \E m \in S : \A n \in S : m <= n
  <2> SUFFICES ASSUME \A m \in S : \E n \in S : n < m
               PROVE  FALSE
    OBVIOUS
  <2>1. PICK s \in S : TRUE
    OBVIOUS
  <2> DEFINE below == {n \in 0 .. s : \A m \in S : n < m}
             next  == [n \in below |-> n + 1]
  <2>2. IsFiniteSet(below)
    <3>1. IsFiniteSet(0 .. s)
      BY FS_Interval
    <3> QED BY <3>1, FS_Subset
  <2>3. 0 \in below
    OBVIOUS
  <2>4. ASSUME NEW n \in below
        PROVE  n + 1 \in below \ {0}
    <3>1. n \in Nat /\ n < s
      OBVIOUS
    <3>2. \A m \in S : n + 1 <= m
      OBVIOUS
    <3>3. \A m \in S : n + 1 # m
      BY <3>2
    <3>4. \A m \in S : n + 1 < m
      BY <3>1, <3>2, <3>3
    <3> QED BY <3>1, <3>4
  <2>5. next \in [below -> below \ {0}]
    BY <2>4
  <2>6. next \in Injection(below, below \ {0})
    BY <2>5 DEF Injection, IsInjective
  <2>7. /\ IsFiniteSet(below \ {0})
        /\ Cardinality(below \ {0}) = Cardinality(below) - 1
    BY <2>2, <2>3, FS_RemoveElement
  <2>8. Cardinality(below) <= Cardinality(below \ {0})
    BY <2>6, <2>7, FS_Injection
  <2> QED BY <2>2, <2>7, <2>8, FS_CardinalityType
<1> QED BY <1>1 DEF Min

(* Induction up to a bound. *)
LEMMA InductionUpTo ==
  ASSUME NEW N \in Nat, NEW T, 0 \in T,
         \A n \in 0 .. N - 1 : n \in T => n + 1 \in T
  PROVE  \A n \in 0 .. N : n \in T
<1> DEFINE out == {n \in 0 .. N : n \notin T}
<1> SUFFICES ASSUME out # {} PROVE FALSE
  OBVIOUS
<1>1. out \in SUBSET Nat
  OBVIOUS
<1>2. Min(out) \in out /\ \A n \in out : Min(out) <= n
  BY <1>1, LeastNumber
<1> DEFINE m == Min(out)
<1>3. m \in 1 .. N /\ m \notin T
  BY <1>2
<1> HIDE DEF m
<1>4. m - 1 \in 0 .. N - 1 /\ ~ (m <= m - 1) /\ (m - 1) + 1 = m
  BY <1>3
<1>5. m - 1 \in T
  BY <1>2, <1>4 DEF m
<1> QED BY <1>3, <1>4, <1>5

LEMMA InductionFromPrevious ==
  ASSUME NEW N \in Nat, NEW T, 0 \in T,
         \A n \in 1 .. N : n - 1 \in T => n \in T
  PROVE  /\ \A n \in 0 .. N : n \in T
         /\ N \in T
<1>1. \A n \in 0 .. N - 1 : n + 1 \in 1 .. N /\ n + 1 - 1 = n
  OBVIOUS
<1>2. \A n \in 0 .. N - 1 : n \in T => n + 1 \in T
  BY <1>1
<1> QED BY <1>2, InductionUpTo

(* A function that is defined by its value at 0 and by a step. *)
Steps(N, S) == [1 .. N -> [S -> S]]
Recursion(f, N, S, a, step) ==
  /\ f \in [0 .. N -> S]
  /\ \A n \in 0 .. N : f[n] = IF n = 0 THEN a ELSE step[n][f[n - 1]]

LEMMA RecursionUpTo ==
  ASSUME NEW N \in Nat, NEW S, NEW a \in S, NEW step \in Steps(N, S)
  PROVE  \E f : Recursion(f, N, S, a, step)
<1> USE DEF Steps
<1> DEFINE upTo(n) ==
             \E f \in [0 .. n -> S] :
               \A k \in 0 .. n : f[k] = IF k = 0 THEN a ELSE step[k][f[k - 1]]
           T == {n \in 0 .. N : upTo(n)}
<1>1. 0 \in T
  <2>1. [k \in 0 .. 0 |-> a] \in [0 .. 0 -> S]
    OBVIOUS
  <2>2. \A k \in 0 .. 0 : [j \in 0 .. 0 |-> a][k] = IF k = 0 THEN a ELSE step[k][[j \in 0 .. 0 |-> a][k - 1]]
    OBVIOUS
  <2>3. upTo(0)
    BY <2>1, <2>2
  <2> QED BY <2>3
<1>2. ASSUME NEW n \in 0 .. N - 1, n \in T
      PROVE  n + 1 \in T
  <2>1. PICK f \in [0 .. n -> S] :
          \A k \in 0 .. n : f[k] = IF k = 0 THEN a ELSE step[k][f[k - 1]]
    BY <1>2
  <2> DEFINE g == [k \in 0 .. n + 1 |-> IF k = n + 1 THEN step[n + 1][f[n]] ELSE f[k]]
  <2>2. step[n + 1][f[n]] \in S
    <3>1. n + 1 \in 1 .. N /\ n \in 0 .. n
      OBVIOUS
    <3> QED BY <3>1
  <2>3. g \in [0 .. n + 1 -> S]
    <3>1. \A k \in 0 .. n + 1 : k # n + 1 => k \in 0 .. n
      OBVIOUS
    <3> QED BY <2>2, <3>1
  <2>4. ASSUME NEW k \in 0 .. n + 1
        PROVE  g[k] = IF k = 0 THEN a ELSE step[k][g[k - 1]]
    <3>1. CASE k = n + 1
      <4>1. k # 0 /\ k - 1 = n /\ n \in 0 .. n + 1 /\ n # n + 1
        BY <3>1
      <4> QED BY <3>1, <4>1
    <3>2. CASE k # n + 1
      <4>1. k \in 0 .. n /\ (k # 0 => k - 1 \in 0 .. n + 1 /\ k - 1 # n + 1)
        BY <3>2
      <4> QED BY <2>1, <3>2, <4>1
    <3> QED BY <3>1, <3>2
  <2> HIDE DEF g
  <2>5. upTo(n + 1)
    BY <2>3, <2>4
  <2>6. n + 1 \in 0 .. N
    OBVIOUS
  <2> QED BY <2>5, <2>6
<1> HIDE DEF T
<1>3. \A n \in 0 .. N - 1 : n \in T => n + 1 \in T
  BY <1>2
<1>4. \A n \in 0 .. N : n \in T
  BY <1>1, <1>3, InductionUpTo
<1>5. N \in T
  BY <1>4
<1> QED BY <1>5 DEF T, Recursion

(* A function on V each value of which is made from those of lower rank: what
   a recursive definition over nested data needs to be one. *)
Makers(V, S) == [V -> [[V -> S] -> S]]
FromLower(V, S, rank, make) ==
  \A v \in V : \A f, g \in [V -> S] :
    (\A u \in V : rank[u] < rank[v] => f[u] = g[u]) => make[v][f] = make[v][g]
Ranked(f, V, S, make) == f \in [V -> S] /\ \A v \in V : f[v] = make[v][f]

LEMMA RecursionByRank ==
  ASSUME NEW V, NEW S, S # {}, NEW N \in Nat, NEW rank \in [V -> 0 .. N],
         NEW make \in Makers(V, S), FromLower(V, S, rank, make)
  PROVE  \E f : Ranked(f, V, S, make)
<1> DEFINE F    == [V -> S]
           next == [n \in 1 .. N + 1 |-> [f \in F |-> [v \in V |-> make[v][f]]]]
<1>1. PICK s \in S : TRUE
  OBVIOUS
<1>2. [v \in V |-> s] \in F
  OBVIOUS
<1>3. next \in Steps(N + 1, F)
  <2>1. \A f \in F : [v \in V |-> make[v][f]] \in F
    BY DEF Makers
  <2> QED BY <2>1 DEF Steps
<1>4. N + 1 \in Nat
  OBVIOUS
<1>5. PICK up : Recursion(up, N + 1, F, [v \in V |-> s], next)
  <2> HIDE DEF next, F
  <2> QED BY <1>2, <1>3, <1>4, RecursionUpTo
<1>6. /\ up \in [0 .. N + 1 -> F]
      /\ \A n \in 0 .. N : up[n + 1] = [v \in V |-> make[v][up[n]]]
  <2>1. up \in [0 .. N + 1 -> F]
    BY <1>5 DEF Recursion
  <2>2. ASSUME NEW n \in 0 .. N
        PROVE  up[n + 1] = [v \in V |-> make[v][up[n]]]
    <3>1. n + 1 \in 0 .. N + 1 /\ n + 1 \in 1 .. N + 1 /\ n + 1 # 0 /\ n + 1 - 1 = n
      OBVIOUS
    <3>2. n \in 0 .. N + 1
      OBVIOUS
    <3>3. up[n + 1] = next[n + 1][up[n]]
      <4> HIDE DEF next
      <4> QED BY <1>5, <3>1 DEF Recursion
    <3>4. up[n] \in F
      BY <2>1, <3>2
    <3> QED BY <3>1, <3>3, <3>4
  <2> QED BY <2>1, <2>2
<1> HIDE DEF next
<1> DEFINE same == {n \in 0 .. N : \A v \in V : rank[v] < n => up[n][v] = up[n + 1][v]}
<1>7. 0 \in same
  <2>1. \A v \in V : rank[v] \in 0 .. N /\ ~ (rank[v] < 0)
    OBVIOUS
  <2> QED BY <2>1
<1>8. ASSUME NEW n \in 0 .. N - 1, n \in same
      PROVE  n + 1 \in same
  <2>1. n \in 0 .. N /\ n + 1 \in 0 .. N /\ n \in 0 .. N + 1 /\ n + 1 \in 0 .. N + 1
    OBVIOUS
  <2>2. ASSUME NEW v \in V, rank[v] < n + 1
        PROVE  up[n + 1][v] = up[n + 1 + 1][v]
    <3>1. up[n] \in [V -> S] /\ up[n + 1] \in [V -> S]
      BY <1>6, <2>1
    <3>2. \A u \in V : rank[u] < rank[v] => up[n][u] = up[n + 1][u]
      <4>1. \A u \in V : rank[u] \in Int
        OBVIOUS
      <4>2. \A u \in V : rank[u] < rank[v] => rank[u] < n
        BY <2>2, <4>1
      <4> QED BY <1>8, <4>2
    <3>3. make[v][up[n]] = make[v][up[n + 1]]
      BY <3>1, <3>2 DEF FromLower
    <3> QED BY <1>6, <2>1, <3>3
  <2> QED BY <2>1, <2>2
<1>9. N \in same
  <2>1. \A n \in 0 .. N - 1 : n \in same => n + 1 \in same
    BY <1>8
  <2>2. \A n \in 0 .. N : n \in same
    <3> HIDE DEF same
    <3> QED BY <1>7, <2>1, InductionUpTo
  <2> QED BY <2>2
<1>10. Ranked(up[N + 1], V, S, make)
  <2>1. N \in 0 .. N /\ N + 1 \in 0 .. N + 1 /\ N \in 0 .. N + 1
    OBVIOUS
  <2>2. up[N] \in [V -> S] /\ up[N + 1] \in [V -> S]
    BY <1>6, <2>1
  <2>3. ASSUME NEW v \in V
        PROVE  up[N + 1][v] = make[v][up[N + 1]]
    <3>1. \A u \in V : rank[u] < rank[v] => up[N][u] = up[N + 1][u]
      <4>1. \A u \in V : rank[u] \in 0 .. N
        OBVIOUS
      <4>2. \A u \in V : rank[u] < rank[v] => rank[u] < N
        BY <4>1
      <4> QED BY <1>9, <4>2
    <3>2. make[v][up[N]] = make[v][up[N + 1]]
      BY <2>2, <3>1 DEF FromLower
    <3>3. up[N + 1][v] = make[v][up[N]]
      BY <1>6, <2>1
    <3> QED BY <3>2, <3>3
  <2> QED BY <2>2, <2>3 DEF Ranked
<1> QED BY <1>10

(* Induction over nested data: what holds of a value as soon as it holds of
   those of lower rank holds of all. *)
LEMMA InductionByRank ==
  ASSUME NEW V, NEW N \in Nat, NEW rank \in [V -> 0 .. N], NEW T,
         \A v \in V : (\A u \in V : rank[u] < rank[v] => u \in T) => v \in T
  PROVE  V \subseteq T
<1> DEFINE U == {n \in 0 .. N + 1 : \A v \in V : rank[v] < n => v \in T}
<1>1. \A v \in V : rank[v] \in 0 .. N
  OBVIOUS
<1>2. 0 \in U
  BY <1>1
<1>3. ASSUME NEW n \in 1 .. N + 1, n - 1 \in U
      PROVE  n \in U
  <2>1. ASSUME NEW v \in V, rank[v] < n
        PROVE  v \in T
    <3>1. \A u \in V : rank[u] < rank[v] => rank[u] < n - 1
      BY <1>1, <2>1
    <3> QED BY <1>3, <3>1
  <2> QED BY <2>1
<1>4. N + 1 \in Nat
  OBVIOUS
<1>5. N + 1 \in U
  <2> HIDE DEF U
  <2> QED BY <1>2, <1>3, <1>4, InductionFromPrevious
<1> QED BY <1>1, <1>5
=============================================================================
