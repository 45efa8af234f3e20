--------------------------- MODULE DevicesProofs ---------------------------
(***************************************************************************)
(* Proofs about Devices, for every memory and every set of answers.        *)
(***************************************************************************)
EXTENDS Devices, Numbers, SequenceTheorems

-----------------------------------------------------------------------------
(* Lists in a heap h, which stands for heap and for heap'. *)

Heaps == [Cells -> {Free} \cup DeviceCells \cup ItemCells]

Holds(h, c, kind) == h[c] # Free /\ h[c].kind = kind

(* The cells of s are a list of that kind, which begins at p. *)
List(h, p, s, kind) ==
  /\ s \in Seq(Cells) /\ IsInjective(s)
  /\ p = IF s = <<>> THEN NULL ELSE s[1]
  /\ \A i \in 1 .. Len(s) :
       /\ Holds(h, s[i], kind)
       /\ h[s[i]].next = IF i = Len(s) THEN NULL ELSE s[i + 1]

Chained(h, p, kind) == List(h, p, WalkIn(h, p), kind)

CellsFrom(h, p) == ToSet(WalkIn(h, p))
NamesFrom(h, p) == [i \in DOMAIN WalkIn(h, p) |-> h[WalkIn(h, p)[i]].name]

(* A device with both its lists, their cells, and what they say of it. *)
Whole(h, d) ==
  /\ Holds(h, d, "device")
  /\ Chained(h, h[d].commands, "command")
  /\ Chained(h, h[d].states, "state")

ItemsIn(h, d) == CellsFrom(h, h[d].commands) \cup CellsFrom(h, h[d].states)

ViewOf(h, d) == [label |-> h[d].label, url |-> h[d].url,
                 commands |-> NamesFrom(h, h[d].commands),
                 states |-> NamesFrom(h, h[d].states)]
View(h, p) == [i \in DOMAIN WalkIn(h, p) |-> ViewOf(h, WalkIn(h, p)[i])]

-----------------------------------------------------------------------------
(* Walks *)

(* A walk of at most n cells, from any pointer. *)
LEMMA WalkBySteps ==
  ASSUME NEW h \in Heaps
  PROVE  /\ Cardinality(Cells) \in Nat
         /\ \E from \in [0 .. Cardinality(Cells) -> [Pointers -> Seq(Cells)]] :
              /\ \A p : WalkIn(h, p) = from[Cardinality(Cells)][p]
              /\ \A n \in 0 .. Cardinality(Cells) : \A q \in Pointers :
                   from[n][q] = IF n = 0 \/ q \notin Cells THEN <<>>
                                ELSE IF h[q] = Free THEN <<q>>
                                ELSE <<q>> \o from[n - 1][h[q].next]
<1> DEFINE N == Cardinality(Cells)
           S == [Pointers -> Seq(Cells)]
           more(n, w) == [q \in Pointers |->
                            IF n = 0 \/ q \notin Cells THEN <<>>
                            ELSE IF h[q] = Free THEN <<q>>
                            ELSE <<q>> \o w[h[q].next]]
           step == [n \in 1 .. N |-> [w \in S |-> more(n, w)]]
           a == [q \in Pointers |-> <<>>]
           is(f) == f = [n \in 0 .. N |-> more(n, f[n - 1])]
           from == CHOOSE f : is(f)
<1>1. N \in Nat
  BY MemoryAssumption, FS_CardinalityType
<1>2. ASSUME NEW q \in Cells, h[q] # Free
      PROVE  h[q].next \in Pointers
  BY <1>2 DEF Heaps, DeviceCells, ItemCells
<1>3. ASSUME NEW n, NEW w \in S
      PROVE  more(n, w) \in S
  <2>1. ASSUME NEW q \in Pointers, n # 0, q \in Cells, h[q] # Free
        PROVE  <<q>> \o w[h[q].next] \in Seq(Cells)
    BY <1>2, <2>1
  <2> QED BY <2>1
<1>4. a \in S /\ step \in Steps(N, S)
  <2>1. a \in S
    OBVIOUS
  <2>2. step \in Steps(N, S)
    <3> HIDE DEF more, S
    <3> QED BY <1>3 DEF Steps
  <2> QED BY <2>1, <2>2
<1>5. \E f : is(f)
  <2> HIDE DEF more, S, a, N
  <2>1. PICK f : Recursion(f, N, S, a, step)
    <3> HIDE DEF step
    <3> QED BY <1>1, <1>4, RecursionUpTo
  <2>2. ASSUME NEW n \in 0 .. N
        PROVE  f[n] = more(n, f[n - 1])
    <3>1. CASE n = 0
      <4>1. a = more(n, f[n - 1])
        BY <3>1 DEF a, more
      <4> QED BY <2>1, <3>1, <4>1 DEF Recursion
    <3>2. CASE n # 0
      <4>1. n \in 1 .. N /\ n - 1 \in 0 .. N
        BY <1>1, <3>2
      <4> QED BY <2>1, <3>2, <4>1 DEF Recursion
    <3> QED BY <3>1, <3>2
  <2>3. f = [n \in 0 .. N |-> f[n]]
    BY <2>1 DEF Recursion
  <2> QED BY <2>2, <2>3
<1>6. is(from)
  BY <1>5
<1>7. \A p : WalkIn(h, p) = from[N][p]
  BY DEF WalkIn
<1> HIDE DEF from
<1>8. \A n \in 0 .. N : from[n] = more(n, from[n - 1])
  <2> HIDE DEF more
  <2> QED BY <1>6
<1>9. \A n \in 0 .. N : from[n] \in S
  <2> DEFINE T == {n \in 0 .. N : from[n] \in S}
  <2> HIDE DEF S, more, N
  <2>1. 0 \in T
    <3>1. more(0, from[0 - 1]) \in S
      BY DEF more, S
    <3> QED BY <1>1, <1>8, <3>1
  <2>2. ASSUME NEW n \in 0 .. N - 1, n \in T
        PROVE  n + 1 \in T
    <3>1. n + 1 \in 0 .. N /\ (n + 1) - 1 = n
      BY <1>1
    <3> QED BY <1>3, <1>8, <2>2, <3>1
  <2> HIDE DEF T
  <2>3. \A n \in 0 .. N - 1 : n \in T => n + 1 \in T
    BY <2>2
  <2>4. \A n \in 0 .. N : n \in T
    BY <1>1, <2>1, <2>3, InductionUpTo
  <2> QED BY <2>4 DEF T
<1>10. from \in [0 .. N -> S]
  BY <1>6, <1>9
<1>11. \A n \in 0 .. N : \A q \in Pointers : from[n][q] = more(n, from[n - 1])[q]
  <2> HIDE DEF more
  <2> QED BY <1>8
<1>12. \A n \in 0 .. N : \A q \in Pointers :
         from[n][q] = IF n = 0 \/ q \notin Cells THEN <<>>
                      ELSE IF h[q] = Free THEN <<q>>
                      ELSE <<q>> \o from[n - 1][h[q].next]
  BY <1>11
<1> HIDE DEF more
<1> QED BY <1>1, <1>7, <1>10, <1>12

(* A list has no more cells than there are. *)
LEMMA ListFits ==
  ASSUME NEW h, NEW p, NEW s, NEW kind, List(h, p, s, kind)
  PROVE  Len(s) \in Nat /\ Len(s) <= Cardinality(Cells)
<1>1. s \in Seq(Cells) /\ Len(s) \in Nat /\ DOMAIN s = 1 .. Len(s)
  BY DEF List
<1>2. s \in Injection(1 .. Len(s), Cells)
  <2>1. s \in [1 .. Len(s) -> Cells]
    BY <1>1
  <2>2. IsInjective(s)
    BY DEF List
  <2> QED BY <2>1, <2>2 DEF Injection
<1>3. IsFiniteSet(1 .. Len(s)) /\ Cardinality(1 .. Len(s)) = Len(s)
  BY <1>1, FS_Interval
<1> QED BY <1>1, <1>2, <1>3, MemoryAssumption, FS_Injection

(* The cells of a list are those that a walk of it meets. *)
LEMMA WalkOfList ==
  ASSUME NEW h \in Heaps, NEW p, NEW s, NEW kind, List(h, p, s, kind)
  PROVE  WalkIn(h, p) = s
<1> DEFINE N == Cardinality(Cells)
<1>1. PICK from \in [0 .. N -> [Pointers -> Seq(Cells)]] :
        /\ \A q : WalkIn(h, q) = from[N][q]
        /\ \A n \in 0 .. N : \A q \in Pointers :
             from[n][q] = IF n = 0 \/ q \notin Cells THEN <<>>
                          ELSE IF h[q] = Free THEN <<q>>
                          ELSE <<q>> \o from[n - 1][h[q].next]
  BY WalkBySteps
<1>2. N \in Nat /\ Len(s) \in Nat /\ Len(s) <= N /\ s \in Seq(Cells)
  <2>1. N \in Nat
    BY WalkBySteps
  <2>2. Len(s) \in Nat /\ Len(s) <= N
    BY ListFits
  <2>3. s \in Seq(Cells)
    BY DEF List
  <2> QED BY <2>1, <2>2, <2>3
<1> HIDE DEF N
(* The last n cells, and where they begin. *)
<1> DEFINE last(n) == SubSeq(s, Len(s) - n + 1, Len(s))
           head(n) == IF n = 0 THEN NULL ELSE s[Len(s) - n + 1]
           T == {n \in 0 .. Len(s) : \A m \in n .. N : from[m][head(n)] = last(n)}
<1>3. \A n \in 0 .. Len(s) : head(n) \in Pointers
  BY <1>2 DEF Pointers
<1>4. 0 \in T
  <2>1. last(0) = <<>> /\ head(0) \notin Cells /\ head(0) \in Pointers
    BY <1>2, MemoryAssumption DEF Pointers
  <2> HIDE DEF last, head
  <2>2. ASSUME NEW m \in 0 .. N
        PROVE  from[m][head(0)] = last(0)
    BY <1>1, <2>1
  <2> QED BY <1>2, <2>2
<1>5. ASSUME NEW n \in 0 .. Len(s) - 1, n \in T
      PROVE  n + 1 \in T
  <2> DEFINE i == Len(s) - n
  <2>1. i \in 1 .. Len(s) /\ n + 1 \in 0 .. Len(s) /\ Len(s) - (n + 1) + 1 = i /\ n + 1 # 0
    BY <1>2
  <2>2. head(n + 1) = s[i] /\ s[i] \in Cells /\ s[i] \in Pointers
    BY <1>2, <2>1 DEF Pointers
  <2>3. h[s[i]] # Free /\ h[s[i]].next = head(n)
    <3>1. h[s[i]] # Free /\ h[s[i]].next = IF i = Len(s) THEN NULL ELSE s[i + 1]
      BY <2>1 DEF List, Holds
    <3>2. i = Len(s) <=> n = 0
      <4>1. Len(s) \in Nat /\ n \in Int
        BY <1>2
      <4> QED BY <4>1
    <3>3. i + 1 = Len(s) - n + 1
      BY <1>2
    <3> QED BY <3>1, <3>2, <3>3
  <2>4. last(n + 1) = <<s[i]>> \o last(n)
    BY <1>2, <2>1
  <2> HIDE DEF last, head, i
  <2>5. ASSUME NEW m \in n + 1 .. N
        PROVE  from[m][head(n + 1)] = last(n + 1)
    <3>1. m \in 0 .. N /\ m # 0 /\ m - 1 \in n .. N
      BY <1>2
    <3>2. from[m - 1][head(n)] = last(n)
      BY <1>5, <3>1
    <3>3. from[m][s[i]] = <<s[i]>> \o from[m - 1][h[s[i]].next]
      BY <1>1, <2>2, <2>3, <3>1
    <3> QED BY <2>2, <2>3, <2>4, <3>2, <3>3
  <2> QED BY <2>1, <2>5
<1>6. Len(s) \in T
  <2> HIDE DEF T
  <2>1. \A n \in 0 .. Len(s) - 1 : n \in T => n + 1 \in T
    BY <1>5
  <2>2. \A n \in 0 .. Len(s) : n \in T
    BY <1>2, <1>4, <2>1, InductionUpTo
  <2> QED BY <1>2, <2>2
<1>7. from[N][head(Len(s))] = last(Len(s))
  <2> HIDE DEF last, head
  <2> QED BY <1>2, <1>6
<1>8. head(Len(s)) = p /\ last(Len(s)) = s
  <2>1. last(Len(s)) = s
    BY <1>2
  <2>2. p = IF s = <<>> THEN NULL ELSE s[1]
    BY DEF List
  <2>3. s = <<>> <=> Len(s) = 0
    BY <1>2
  <2>4. Len(s) - Len(s) + 1 = 1
    BY <1>2
  <2> QED BY <2>1, <2>2, <2>3, <2>4
<1> QED BY <1>1, <1>7, <1>8

-----------------------------------------------------------------------------
(* Lists that shrink, grow and stay *)

LEMMA ListCells ==
  ASSUME NEW h, NEW p, NEW kind, Chained(h, p, kind)
  PROVE  /\ WalkIn(h, p) \in Seq(Cells)
         /\ Len(WalkIn(h, p)) \in Nat /\ DOMAIN WalkIn(h, p) = 1 .. Len(WalkIn(h, p))
         /\ CellsFrom(h, p) \subseteq Cells
         /\ \A c \in CellsFrom(h, p) : Holds(h, c, kind)
         /\ p \in Cells \cup {NULL} /\ p \in Pointers
         /\ WalkIn(h, p) = <<>> <=> p = NULL
         /\ p # NULL => p \in CellsFrom(h, p) /\ p = WalkIn(h, p)[1]
<1> DEFINE s == WalkIn(h, p)
<1>1. s \in Seq(Cells) /\ Len(s) \in Nat /\ DOMAIN s = 1 .. Len(s)
  BY DEF Chained, List
<1>2. p = IF s = <<>> THEN NULL ELSE s[1]
  BY DEF Chained, List
<1>3. \A i \in 1 .. Len(s) : Holds(h, s[i], kind) /\ s[i] \in Cells
  <2>1. \A i \in 1 .. Len(s) : Holds(h, s[i], kind)
    BY DEF Chained, List
  <2> HIDE DEF s
  <2>2. \A i \in 1 .. Len(s) : s[i] \in Cells
    BY <1>1
  <2> QED BY <2>1, <2>2
<1> HIDE DEF s
<1>4. CellsFrom(h, p) = {s[i] : i \in 1 .. Len(s)}
  BY <1>1 DEF CellsFrom, ToSet, s
<1>5. s # <<>> => 1 \in 1 .. Len(s)
  BY <1>1
<1>6. NULL \notin Cells
  BY MemoryAssumption
<1> QED BY <1>1, <1>2, <1>3, <1>4, <1>5, <1>6 DEF s, Pointers

LEMMA EmptyList ==
  ASSUME NEW h \in Heaps, NEW kind
  PROVE  Chained(h, NULL, kind) /\ WalkIn(h, NULL) = <<>> /\ CellsFrom(h, NULL) = {}
<1>1. List(h, NULL, <<>>, kind)
  BY DEF List, IsInjective
<1>2. WalkIn(h, NULL) = <<>>
  BY <1>1, WalkOfList
<1> QED BY <1>1, <1>2 DEF Chained, CellsFrom, ToSet

LEMMA EmptyNames ==
  ASSUME NEW h \in Heaps
  PROVE  NamesFrom(h, NULL) = <<>>
<1> DEFINE s == WalkIn(h, NULL)
           a == [i \in DOMAIN s |-> h[s[i]].name]
<1>1. DOMAIN s = {}
  BY EmptyList
<1> HIDE DEF s
<1>2. a = <<>>
  BY <1>1
<1> QED BY <1>2 DEF NamesFrom, s

LEMMA RestOfList ==
  ASSUME NEW h \in Heaps, NEW p, NEW kind, Chained(h, p, kind), p # NULL
  PROVE  /\ Holds(h, p, kind) /\ Chained(h, h[p].next, kind)
         /\ WalkIn(h, p) = <<p>> \o WalkIn(h, h[p].next)
         /\ CellsFrom(h, p) = {p} \cup CellsFrom(h, h[p].next)
         /\ p \notin CellsFrom(h, h[p].next)
<1> DEFINE s == WalkIn(h, p)
           t == Tail(s)
<1>1. s \in Seq(Cells) /\ Len(s) \in Nat /\ s # <<>> /\ p = s[1]
  BY ListCells
<1>2. \A i, j \in 1 .. Len(s) : s[i] = s[j] => i = j
  BY <1>1 DEF Chained, List, IsInjective
<1>3. \A i \in 1 .. Len(s) : /\ Holds(h, s[i], kind)
                             /\ h[s[i]].next = IF i = Len(s) THEN NULL ELSE s[i + 1]
  BY DEF Chained, List
<1> HIDE DEF s
<1>4. /\ t \in Seq(Cells) /\ Len(t) \in Nat /\ Len(t) = Len(s) - 1
      /\ \A i \in 1 .. Len(t) : t[i] = s[i + 1]
      /\ s = <<p>> \o t
  BY <1>1
<1> HIDE DEF t
<1>5. IsInjective(t)
  <2>1. DOMAIN t = 1 .. Len(t)
    BY <1>4
  <2>2. \A i, j \in 1 .. Len(t) : t[i] = t[j] => i = j
    <3>1. \A i \in 1 .. Len(t) : i + 1 \in 1 .. Len(s)
      BY <1>4
    <3>2. ASSUME NEW i \in 1 .. Len(t), NEW j \in 1 .. Len(t), t[i] = t[j]
          PROVE  i = j
      <4>1. s[i + 1] = s[j + 1] /\ i + 1 \in 1 .. Len(s) /\ j + 1 \in 1 .. Len(s)
        BY <1>4, <3>1, <3>2
      <4>2. i + 1 = j + 1
        BY <1>2, <4>1
      <4> QED BY <1>4, <4>2
    <3> QED BY <3>2
  <2> QED BY <2>1, <2>2 DEF IsInjective
<1>6. h[p].next = IF t = <<>> THEN NULL ELSE t[1]
  <2>1. 1 \in 1 .. Len(s) /\ (1 = Len(s) <=> t = <<>>) /\ (t # <<>> => t[1] = s[1 + 1])
    BY <1>1, <1>4
  <2> QED BY <1>1, <1>3, <2>1
<1>7. ASSUME NEW i \in 1 .. Len(t)
      PROVE  Holds(h, t[i], kind) /\ h[t[i]].next = IF i = Len(t) THEN NULL ELSE t[i + 1]
  <2>1. i + 1 \in 1 .. Len(s) /\ (i = Len(t) <=> i + 1 = Len(s)) /\ t[i] = s[i + 1]
    BY <1>4
  <2>2. i # Len(t) => i + 1 \in 1 .. Len(t) /\ t[i + 1] = s[(i + 1) + 1]
    BY <1>4
  <2> QED BY <1>3, <2>1, <2>2
<1>8. List(h, h[p].next, t, kind)
  BY <1>4, <1>5, <1>6, <1>7 DEF List
<1>9. WalkIn(h, h[p].next) = t
  BY <1>8, WalkOfList
<1>10. p \notin ToSet(t)
  <2>1. \A i \in 1 .. Len(t) : 1 \in 1 .. Len(s) /\ i + 1 \in 1 .. Len(s) /\ i + 1 # 1
    BY <1>4
  <2>2. \A i \in 1 .. Len(t) : t[i] # p
    BY <1>1, <1>2, <1>4, <2>1
  <2> QED BY <1>4, <2>2 DEF ToSet
<1>11. ToSet(s) = {p} \cup ToSet(t)
  <2>1. \A i \in 1 .. Len(s) : i = 1 \/ (i - 1 \in 1 .. Len(t) /\ s[i] = t[i - 1])
    BY <1>4
  <2>2. \A i \in 1 .. Len(t) : i + 1 \in 1 .. Len(s)
    BY <1>4
  <2>3. 1 \in 1 .. Len(s) /\ DOMAIN s = 1 .. Len(s) /\ DOMAIN t = 1 .. Len(t)
    BY <1>1, <1>4
  <2>4. ToSet(s) \subseteq {p} \cup ToSet(t)
    BY <1>1, <2>1, <2>3 DEF ToSet
  <2>5. {p} \cup ToSet(t) \subseteq ToSet(s)
    <3>1. \A i \in 1 .. Len(t) : t[i] \in ToSet(s)
      BY <1>4, <2>2, <2>3 DEF ToSet
    <3>2. p \in ToSet(s)
      BY <1>1, <2>3 DEF ToSet
    <3> QED BY <2>3, <3>1, <3>2 DEF ToSet
  <2> QED BY <2>4, <2>5
<1>12. Holds(h, p, kind)
  BY <1>1, <1>3
<1> QED BY <1>4, <1>8, <1>9, <1>10, <1>11, <1>12 DEF s, Chained, CellsFrom

LEMMA LongerList ==
  ASSUME NEW h \in Heaps, NEW c \in Cells, NEW kind, Holds(h, c, kind),
         Chained(h, h[c].next, kind), c \notin CellsFrom(h, h[c].next)
  PROVE  /\ Chained(h, c, kind)
         /\ WalkIn(h, c) = <<c>> \o WalkIn(h, h[c].next)
         /\ CellsFrom(h, c) = {c} \cup CellsFrom(h, h[c].next)
<1> DEFINE t == WalkIn(h, h[c].next)
           s == <<c>> \o t
<1>1. t \in Seq(Cells) /\ Len(t) \in Nat /\ DOMAIN t = 1 .. Len(t)
  BY ListCells
<1>2. \A i, j \in 1 .. Len(t) : t[i] = t[j] => i = j
  BY <1>1 DEF Chained, List, IsInjective
<1>3. \A i \in 1 .. Len(t) : /\ Holds(h, t[i], kind)
                             /\ h[t[i]].next = IF i = Len(t) THEN NULL ELSE t[i + 1]
  BY DEF Chained, List
<1>4. h[c].next = IF t = <<>> THEN NULL ELSE t[1]
  BY DEF Chained, List
<1>5. \A i \in 1 .. Len(t) : t[i] # c
  BY <1>1 DEF CellsFrom, ToSet
<1> HIDE DEF t
<1>6. /\ s \in Seq(Cells) /\ Len(s) = Len(t) + 1 /\ s[1] = c /\ DOMAIN s = 1 .. Len(s)
      /\ \A i \in 1 .. Len(t) : s[i + 1] = t[i]
  BY <1>1
<1> HIDE DEF s
<1>7. \A i \in 1 .. Len(s) : i = 1 \/ (i - 1 \in 1 .. Len(t) /\ s[i] = t[i - 1])
  <2>1. \A i \in 1 .. Len(s) : i # 1 => i - 1 \in 1 .. Len(t) /\ (i - 1) + 1 = i
    BY <1>1, <1>6
  <2> QED BY <1>6, <2>1
<1>8. IsInjective(s)
  <2>1. ASSUME NEW i \in 1 .. Len(s), NEW j \in 1 .. Len(s), s[i] = s[j]
        PROVE  i = j
    <3>1. i # 1 /\ j # 1 => i - 1 = j - 1
      BY <1>2, <1>7, <2>1
    <3>2. i = 1 /\ j # 1 => FALSE
      BY <1>5, <1>6, <1>7, <2>1
    <3>3. i # 1 /\ j = 1 => FALSE
      BY <1>5, <1>6, <1>7, <2>1
    <3> QED BY <3>1, <3>2, <3>3
  <2> QED BY <1>6, <2>1 DEF IsInjective
<1>9. ASSUME NEW i \in 1 .. Len(s)
      PROVE  Holds(h, s[i], kind) /\ h[s[i]].next = IF i = Len(s) THEN NULL ELSE s[i + 1]
  <2>1. CASE i = 1
    <3>1. (1 = Len(s) <=> t = <<>>) /\ (t # <<>> => 1 \in 1 .. Len(t))
      BY <1>1, <1>6
    <3> QED BY <1>4, <1>6, <2>1, <3>1
  <2>2. CASE i # 1
    <3>1. i - 1 \in 1 .. Len(t) /\ (i = Len(s) <=> i - 1 = Len(t)) /\ (i - 1) + 1 = i
      BY <1>1, <1>6, <2>2
    <3>2. i # Len(s) => i \in 1 .. Len(t)
      BY <1>1, <1>6
    <3>3. s[i] = t[i - 1]
      BY <1>6, <3>1
    <3>4. /\ Holds(h, t[i - 1], kind)
          /\ h[t[i - 1]].next = IF i - 1 = Len(t) THEN NULL ELSE t[i]
      BY <1>3, <3>1
    <3>5. i # Len(s) => s[i + 1] = t[i]
      BY <1>6, <3>2
    <3> QED BY <3>1, <3>3, <3>4, <3>5
  <2> QED BY <2>1, <2>2
<1>10. c = IF s = <<>> THEN NULL ELSE s[1]
  <2>1. s # <<>>
    BY <1>1, <1>6
  <2> QED BY <1>6, <2>1
<1>11. List(h, c, s, kind)
  BY <1>6, <1>8, <1>9, <1>10 DEF List
<1>12. WalkIn(h, c) = s
  BY <1>11, WalkOfList
<1>13. ToSet(s) = {c} \cup ToSet(t)
  <2>1. 1 \in 1 .. Len(s) /\ \A i \in 1 .. Len(t) : i + 1 \in 1 .. Len(s)
    BY <1>1, <1>6
  <2>2. ToSet(s) \subseteq {c} \cup ToSet(t)
    BY <1>1, <1>6, <1>7 DEF ToSet
  <2>3. {c} \cup ToSet(t) \subseteq ToSet(s)
    BY <1>1, <1>6, <2>1 DEF ToSet
  <2> QED BY <2>2, <2>3
<1> QED BY <1>11, <1>12, <1>13 DEF Chained, CellsFrom, s, t

(* What a list looks like depends on its own cells only. *)
LEMMA SameList ==
  ASSUME NEW h \in Heaps, NEW g \in Heaps, NEW p, NEW kind, Chained(h, p, kind),
         \A c \in CellsFrom(h, p) :
           Holds(g, c, kind) /\ g[c].next = h[c].next
  PROVE  Chained(g, p, kind) /\ WalkIn(g, p) = WalkIn(h, p) /\ CellsFrom(g, p) = CellsFrom(h, p)
<1> DEFINE s == WalkIn(h, p)
<1>1. s \in Seq(Cells) /\ DOMAIN s = 1 .. Len(s) /\ CellsFrom(h, p) = ToSet(s)
  BY ListCells DEF CellsFrom
<1>2. \A i \in 1 .. Len(s) : Holds(g, s[i], kind) /\ g[s[i]].next = h[s[i]].next
  BY <1>1 DEF ToSet
<1>3. List(g, p, s, kind)
  BY <1>2 DEF Chained, List
<1>4. WalkIn(g, p) = s
  BY <1>3, WalkOfList
<1> QED BY <1>3, <1>4 DEF Chained, CellsFrom

(* The names of a list, and those of one with a cell more. *)
LEMMA NamesAreNames ==
  ASSUME NEW h \in Heaps, NEW p, NEW kind \in {"command", "state"}, Chained(h, p, kind)
  PROVE  NamesFrom(h, p) \in Seq(Names) /\ Len(NamesFrom(h, p)) = Len(WalkIn(h, p))
<1> DEFINE s == WalkIn(h, p)
<1>1. s \in Seq(Cells) /\ Len(s) \in Nat /\ DOMAIN s = 1 .. Len(s)
  BY ListCells
<1>2. \A i \in 1 .. Len(s) : s[i] \in Cells /\ Holds(h, s[i], kind)
  BY <1>1, ListCells DEF CellsFrom, ToSet
<1>3. ASSUME NEW c \in Cells, Holds(h, c, kind)
      PROVE  h[c].name \in Names
  BY <1>3 DEF Holds, Heaps, DeviceCells, ItemCells
<1>4. \A i \in 1 .. Len(s) : h[s[i]].name \in Names
  BY <1>2, <1>3
<1> HIDE DEF s
<1>5. [i \in 1 .. Len(s) |-> h[s[i]].name] \in Seq(Names)
  BY <1>1, <1>4
<1> QED BY <1>1, <1>5 DEF NamesFrom, s

LEMMA NamesOfLonger ==
  ASSUME NEW h, NEW c, NEW t \in Seq(Cells), WalkIn(h, h[c].next) = t,
         WalkIn(h, c) = <<c>> \o t
  PROVE  NamesFrom(h, c) = <<h[c].name>> \o NamesFrom(h, h[c].next)
<1> DEFINE s == <<c>> \o t
           a == [i \in DOMAIN s |-> h[s[i]].name]
           b == [i \in DOMAIN t |-> h[t[i]].name]
<1>1. /\ Len(t) \in Nat /\ DOMAIN t = 1 .. Len(t) /\ DOMAIN s = 1 .. Len(t) + 1
      /\ s[1] = c /\ \A i \in 2 .. Len(t) + 1 : i - 1 \in 1 .. Len(t) /\ s[i] = t[i - 1]
  OBVIOUS
<1> HIDE DEF s
<1>2. a = <<h[c].name>> \o b
  BY <1>1
<1> QED BY <1>2 DEF NamesFrom, s

LEMMA ViewOfLonger ==
  ASSUME NEW h, NEW c, NEW t \in Seq(Cells), WalkIn(h, h[c].next) = t,
         WalkIn(h, c) = <<c>> \o t
  PROVE  View(h, c) = <<ViewOf(h, c)>> \o View(h, h[c].next)
<1> DEFINE s == <<c>> \o t
           v(x) == ViewOf(h, x)
           V == {v(x) : x \in Cells \cup {c}}
           a == [i \in DOMAIN s |-> v(s[i])]
           b == [i \in DOMAIN t |-> v(t[i])]
<1>1. /\ Len(t) \in Nat /\ DOMAIN t = 1 .. Len(t) /\ DOMAIN s = 1 .. Len(t) + 1
      /\ s[1] = c /\ \A i \in 2 .. Len(t) + 1 : i - 1 \in 1 .. Len(t) /\ s[i] = t[i - 1]
  OBVIOUS
<1>2. \A i \in 1 .. Len(t) : t[i] \in Cells
  OBVIOUS
<1> HIDE DEF s, v
<1>3. v(c) \in V /\ \A i \in 1 .. Len(t) : v(t[i]) \in V
  BY <1>2
<1> HIDE DEF V
<1>4. b \in Seq(V) /\ Len(b) = Len(t) /\ \A i \in 1 .. Len(t) : b[i] = v(t[i])
  BY <1>1, <1>3
<1>5. /\ DOMAIN a = 1 .. Len(t) + 1 /\ a[1] = v(c)
      /\ \A i \in 2 .. Len(t) + 1 : a[i] = v(t[i - 1])
  BY <1>1
<1>6. a = [i \in 1 .. Len(t) + 1 |-> a[i]]
  BY <1>5
<1> HIDE DEF a, b
<1> DEFINE x == <<v(c)>> \o b
<1>7. /\ DOMAIN x = 1 .. Len(t) + 1 /\ x[1] = v(c) /\ x \in Seq(V)
      /\ \A i \in 2 .. Len(t) + 1 : x[i] = b[i - 1]
  BY <1>1, <1>3, <1>4
<1> HIDE DEF x
<1>8. ASSUME NEW i \in 1 .. Len(t) + 1
      PROVE  x[i] = a[i]
  <2>1. i = 1 \/ (i \in 2 .. Len(t) + 1 /\ i - 1 \in 1 .. Len(t))
    BY <1>1
  <2>2. CASE i = 1
    BY <1>5, <1>7, <2>2
  <2>3. CASE i \in 2 .. Len(t) + 1 /\ i - 1 \in 1 .. Len(t)
    <3>1. x[i] = b[i - 1] /\ b[i - 1] = v(t[i - 1]) /\ a[i] = v(t[i - 1])
      BY <1>4, <1>5, <1>7, <2>3
    <3> QED BY <3>1
  <2> QED BY <2>1, <2>2, <2>3
<1>9. x = a
  BY <1>6, <1>7, <1>8
<1> QED BY <1>9 DEF View, s, v, a, b, x

LEMMA SameNames ==
  ASSUME NEW h \in Heaps, NEW g \in Heaps, NEW p, NEW kind, Chained(h, p, kind),
         \A c \in CellsFrom(h, p) : g[c] = h[c]
  PROVE  /\ Chained(g, p, kind) /\ CellsFrom(g, p) = CellsFrom(h, p)
         /\ NamesFrom(g, p) = NamesFrom(h, p)
<1>1. \A c \in CellsFrom(h, p) : Holds(g, c, kind) /\ g[c].next = h[c].next
  BY ListCells DEF Holds
<1>2. Chained(g, p, kind) /\ WalkIn(g, p) = WalkIn(h, p) /\ CellsFrom(g, p) = CellsFrom(h, p)
  BY <1>1, SameList
<1>3. \A i \in DOMAIN WalkIn(h, p) : g[WalkIn(h, p)[i]] = h[WalkIn(h, p)[i]]
  BY DEF CellsFrom, ToSet
<1> QED BY <1>2, <1>3 DEF NamesFrom

-----------------------------------------------------------------------------
(* Devices *)

LEMMA NoWalkFromJunk ==
  ASSUME NEW h \in Heaps
  PROVE  CellsFrom(h, Junk) = {}
<1> DEFINE N == Cardinality(Cells)
<1>1. N \in 0 .. N /\ Junk \in Pointers /\ Junk \notin Cells
  BY WalkBySteps, MemoryAssumption DEF Pointers
<1>2. PICK from \in [0 .. N -> [Pointers -> Seq(Cells)]] :
        /\ \A q : WalkIn(h, q) = from[N][q]
        /\ \A n \in 0 .. N : \A q \in Pointers :
             from[n][q] = IF n = 0 \/ q \notin Cells THEN <<>>
                          ELSE IF h[q] = Free THEN <<q>>
                          ELSE <<q>> \o from[n - 1][h[q].next]
  BY WalkBySteps
<1>3. WalkIn(h, Junk) = <<>>
  BY <1>1, <1>2
<1> QED BY <1>3 DEF CellsFrom, ToSet

(* No item is a device, no cell of a list is free. *)
LEMMA ItemsAreItems ==
  ASSUME NEW h \in Heaps, NEW d, Chained(h, h[d].commands, "command"),
         \/ Chained(h, h[d].states, "state") \/ h[d].states = Junk
  PROVE  /\ ItemsIn(h, d) \subseteq Cells
         /\ \A c \in ItemsIn(h, d) : h[c] # Free /\ ~Holds(h, c, "device")
BY NoWalkFromJunk, ListCells DEF ItemsIn, Holds

LEMMA SameDevice ==
  ASSUME NEW h \in Heaps, NEW g \in Heaps, NEW d, Whole(h, d), Holds(g, d, "device"),
         g[d].label = h[d].label, g[d].url = h[d].url,
         g[d].commands = h[d].commands, g[d].states = h[d].states,
         \A c \in ItemsIn(h, d) : g[c] = h[c]
  PROVE  Whole(g, d) /\ ItemsIn(g, d) = ItemsIn(h, d) /\ ViewOf(g, d) = ViewOf(h, d)
<1>1. /\ Chained(g, h[d].commands, "command")
      /\ CellsFrom(g, h[d].commands) = CellsFrom(h, h[d].commands)
      /\ NamesFrom(g, h[d].commands) = NamesFrom(h, h[d].commands)
  BY SameNames DEF Whole, ItemsIn
<1>2. /\ Chained(g, h[d].states, "state")
      /\ CellsFrom(g, h[d].states) = CellsFrom(h, h[d].states)
      /\ NamesFrom(g, h[d].states) = NamesFrom(h, h[d].states)
  BY SameNames DEF Whole, ItemsIn
<1> QED BY <1>1, <1>2 DEF Whole, ItemsIn, ViewOf

(* What the listed devices are depends on their cells and their items only. *)
LEMMA SameDevices ==
  ASSUME NEW h \in Heaps, NEW g \in Heaps, NEW p, Chained(h, p, "device"),
         \A d \in CellsFrom(h, p) :
           /\ Whole(h, d) /\ g[d] = h[d]
           /\ \A c \in ItemsIn(h, d) : g[c] = h[c]
  PROVE  /\ Chained(g, p, "device") /\ WalkIn(g, p) = WalkIn(h, p)
         /\ CellsFrom(g, p) = CellsFrom(h, p)
         /\ \A d \in CellsFrom(h, p) : Whole(g, d) /\ ItemsIn(g, d) = ItemsIn(h, d)
         /\ View(g, p) = View(h, p)
<1>1. \A d \in CellsFrom(h, p) : Holds(g, d, "device") /\ g[d].next = h[d].next
  BY ListCells DEF Holds
<1>2. Chained(g, p, "device") /\ WalkIn(g, p) = WalkIn(h, p) /\ CellsFrom(g, p) = CellsFrom(h, p)
  BY <1>1, SameList
<1>3. ASSUME NEW d \in CellsFrom(h, p)
      PROVE  Whole(g, d) /\ ItemsIn(g, d) = ItemsIn(h, d) /\ ViewOf(g, d) = ViewOf(h, d)
  BY <1>1, SameDevice
<1>4. \A i \in DOMAIN WalkIn(h, p) : WalkIn(h, p)[i] \in CellsFrom(h, p)
  BY DEF CellsFrom, ToSet
<1>5. View(g, p) = View(h, p)
  BY <1>2, <1>3, <1>4 DEF View
<1> QED BY <1>2, <1>3, <1>5

-----------------------------------------------------------------------------
(* Reading a list of names backwards *)

LEMMA ReadOne ==
  ASSUME NEW S, NEW a \in Seq(S), NEW t \in Seq(S), t # <<>>
  PROVE  Reverse(<<Head(t)>> \o a) \o Tail(t) = Reverse(a) \o t
<1> DEFINE b == <<Head(t)>> \o a
           ra == Reverse(a)
           rb == Reverse(b)
           u == Tail(t)
           x == rb \o u
           y == ra \o t
<1>1. /\ Len(a) \in Nat /\ Len(t) \in Nat /\ Len(t) >= 1
      /\ b \in Seq(S) /\ Len(b) = Len(a) + 1
      /\ \A i \in 1 .. Len(b) : b[i] = IF i = 1 THEN Head(t) ELSE a[i - 1]
  OBVIOUS
<1> HIDE DEF b
<1>2. /\ rb \in Seq(S) /\ Len(rb) = Len(b)
      /\ \A i \in 1 .. Len(b) : rb[i] = b[(Len(b) - i) + 1]
  BY <1>1 DEF Reverse
<1>3. /\ ra \in Seq(S) /\ Len(ra) = Len(a)
      /\ \A i \in 1 .. Len(a) : ra[i] = a[(Len(a) - i) + 1]
  BY <1>1 DEF Reverse
<1>4. /\ u \in Seq(S) /\ Len(u) = Len(t) - 1
      /\ \A i \in 1 .. Len(t) - 1 : u[i] = t[i + 1]
      /\ Head(t) = t[1]
  BY <1>1
<1> HIDE DEF ra, rb, u
<1>5. /\ x \in Seq(S) /\ Len(x) = Len(a) + Len(t)
      /\ \A i \in 1 .. Len(x) : x[i] = IF i <= Len(b) THEN rb[i] ELSE u[i - Len(b)]
  <2>1. rb \in Seq(S) /\ u \in Seq(S) /\ Len(rb) = Len(b) /\ Len(b) + Len(u) = Len(a) + Len(t)
    BY <1>1, <1>2, <1>4
  <2>2. /\ x \in Seq(S) /\ Len(x) = Len(rb) + Len(u)
        /\ \A i \in 1 .. Len(rb) + Len(u) : x[i] = IF i <= Len(rb) THEN rb[i] ELSE u[i - Len(rb)]
    BY <2>1, ConcatProperties, ZenonT(30)
  <2> QED BY <2>1, <2>2
<1>6. /\ y \in Seq(S) /\ Len(y) = Len(a) + Len(t)
      /\ \A i \in 1 .. Len(y) : y[i] = IF i <= Len(a) THEN ra[i] ELSE t[i - Len(a)]
  <2>1. ra \in Seq(S) /\ t \in Seq(S) /\ Len(ra) = Len(a)
    BY <1>3
  <2>2. /\ y \in Seq(S) /\ Len(y) = Len(ra) + Len(t)
        /\ \A i \in 1 .. Len(ra) + Len(t) : y[i] = IF i <= Len(ra) THEN ra[i] ELSE t[i - Len(ra)]
    BY <2>1, ConcatProperties, Zenon
  <2> QED BY <2>1, <2>2
<1> HIDE DEF x, y
<1>7. ASSUME NEW i \in 1 .. Len(a) + Len(t)
      PROVE  x[i] = y[i]
  <2>1. CASE i <= Len(a)
    <3>1. i \in 1 .. Len(a) /\ i \in 1 .. Len(b) /\ i <= Len(b)
      BY <1>1, <2>1
    <3>3. x[i] = b[(Len(b) - i) + 1]
      BY <1>2, <1>5, <3>1
    <3>4. y[i] = a[(Len(a) - i) + 1]
      BY <1>3, <1>6, <2>1, <3>1
    <3>2. (Len(b) - i) + 1 \in 1 .. Len(b) /\ (Len(b) - i) + 1 # 1
          /\ ((Len(b) - i) + 1) - 1 = (Len(a) - i) + 1
      BY <1>1, <2>1
    <3> QED BY <1>1, <3>2, <3>3, <3>4
  <2>2. CASE i = Len(a) + 1
    <3>1. i \in 1 .. Len(b) /\ i <= Len(b) /\ (Len(b) - i) + 1 = 1 /\ 1 \in 1 .. Len(b)
      BY <1>1, <2>2
    <3>5. rb[i] = b[1]
      BY <1>2, <3>1
    <3>2. x[i] = b[1]
      BY <1>5, <3>1, <3>5
    <3>3. i - Len(a) = 1 /\ ~(i <= Len(a))
      BY <1>1, <2>2
    <3>4. y[i] = t[1]
      BY <1>6, <3>3
    <3> QED BY <1>1, <1>4, <3>1, <3>2, <3>4
  <2>3. CASE i > Len(a) + 1
    <3>1. x[i] = u[i - Len(b)] /\ y[i] = t[i - Len(a)]
      BY <1>1, <1>5, <1>6, <2>3
    <3>2. i - Len(b) \in 1 .. Len(t) - 1 /\ (i - Len(b)) + 1 = i - Len(a)
      BY <1>1, <2>3
    <3>3. u[i - Len(b)] = t[(i - Len(b)) + 1]
      BY <1>4, <3>2
    <3> QED BY <3>1, <3>2, <3>3
  <2>4. i \in Int /\ Len(a) \in Nat
    BY <1>1
  <2> QED BY <2>1, <2>2, <2>3, <2>4
<1>8. x = y
  BY <1>5, <1>6, <1>7
<1> QED BY <1>8 DEF x, y, rb, ra, b, u

LEMMA HeadIsRead ==
  ASSUME NEW S, NEW a \in Seq(S), NEW t \in Seq(S), t # <<>>
  PROVE  Head(t) \in ToSet(a \o t)
<1>1. /\ a \o t \in Seq(S) /\ Len(a) \in Nat /\ Len(a) + 1 \in 1 .. Len(a \o t)
      /\ (a \o t)[Len(a) + 1] = Head(t)
  OBVIOUS
<1> QED BY <1>1 DEF ToSet

LEMMA ReadAll ==
  ASSUME NEW S, NEW a \in Seq(S)
  PROVE  Reverse(a) \in Seq(S) /\ Reverse(Reverse(a)) = a /\ Reverse(a) \o <<>> = Reverse(a)
<1> DEFINE b == Reverse(a)
           c == Reverse(b)
<1>1. /\ b \in Seq(S) /\ Len(a) \in Nat /\ Len(b) = Len(a)
      /\ \A i \in 1 .. Len(a) : b[i] = a[(Len(a) - i) + 1]
  BY DEF Reverse
<1> HIDE DEF b
<1>2. /\ c \in Seq(S) /\ Len(c) = Len(b)
      /\ \A i \in 1 .. Len(b) : c[i] = b[(Len(b) - i) + 1]
  BY <1>1 DEF Reverse
<1> HIDE DEF c
<1>3. ASSUME NEW i \in 1 .. Len(a)
      PROVE  c[i] = a[i]
  <2>1. (Len(b) - i) + 1 \in 1 .. Len(a) /\ (Len(a) - ((Len(b) - i) + 1)) + 1 = i
    BY <1>1
  <2> QED BY <1>1, <1>2, <2>1
<1>4. c = a
  BY <1>1, <1>2, <1>3
<1>5. b \o <<>> = b
  BY <1>1
<1> QED BY <1>1, <1>4, <1>5 DEF c, b

-----------------------------------------------------------------------------
(* What the objects of an array make *)

LEMMA MadeBySteps ==
  ASSUME NEW array \in Seq(Objects \cup {NULL})
  PROVE  /\ Made(array)[0] = <<>>
         /\ \A n \in 1 .. Len(array) :
              Made(array)[n] = IF MakesDevice(array[n])
                               THEN <<DeviceOf(array[n])>> \o Made(array)[n - 1]
                               ELSE Made(array)[n - 1]
<1> DEFINE N == Len(array)
           V == {DeviceOf(array[n]) : n \in 1 .. N}
           S == Seq(V)
           more(n, w) == IF n = 0 THEN <<>>
                         ELSE IF MakesDevice(array[n]) THEN <<DeviceOf(array[n])>> \o w
                         ELSE w
           step == [n \in 1 .. N |-> [w \in S |-> more(n, w)]]
           is(f) == f = [n \in 0 .. N |-> more(n, f[n - 1])]
           made == CHOOSE f : is(f)
<1>1. N \in Nat
  OBVIOUS
<1>2. <<>> \in S /\ step \in Steps(N, S)
  <2>1. ASSUME NEW n \in 1 .. N, NEW w \in S
        PROVE  more(n, w) \in S
    <3> DEFINE x == DeviceOf(array[n])
    <3>1. x \in V
      OBVIOUS
    <3> HIDE DEF x, V
    <3>2. <<x>> \o w \in S
      BY <3>1
    <3> QED BY <3>2 DEF x
  <2>2. step \in Steps(N, S)
    <3> HIDE DEF more, S, N
    <3> QED BY <2>1 DEF Steps
  <2> QED BY <2>2
<1>3. \E f : is(f)
  <2> HIDE DEF more, S, N
  <2>1. PICK f : Recursion(f, N, S, <<>>, step)
    <3> HIDE DEF step
    <3> QED BY <1>1, <1>2, RecursionUpTo
  <2>2. ASSUME NEW n \in 0 .. N
        PROVE  f[n] = more(n, f[n - 1])
    <3>1. CASE n = 0
      <4>1. <<>> = more(n, f[n - 1])
        BY <3>1 DEF more
      <4> QED BY <2>1, <3>1, <4>1 DEF Recursion
    <3>2. CASE n # 0
      <4>1. n \in 1 .. N /\ n - 1 \in 0 .. N
        BY <1>1, <3>2
      <4> QED BY <2>1, <3>2, <4>1 DEF Recursion
    <3> QED BY <3>1, <3>2
  <2>3. f = [n \in 0 .. N |-> f[n]]
    BY <2>1 DEF Recursion
  <2> QED BY <2>2, <2>3
<1>4. is(made)
  BY <1>3
<1>5. Made(array) = made
  BY DEF Made
<1> HIDE DEF made
<1>6. \A n \in 0 .. N : made[n] = more(n, made[n - 1])
  <2> HIDE DEF more
  <2> QED BY <1>4
<1>7. 0 \in 0 .. N /\ \A n \in 1 .. N : n \in 0 .. N /\ n # 0
  BY <1>1
<1> QED BY <1>5, <1>6, <1>7

-----------------------------------------------------------------------------
(* Changes of the memory *)

LEMMA ReleasedHeap ==
  ASSUME NEW h \in Heaps, NEW W
  PROVE  /\ Release(h, W) \in Heaps
         /\ \A c \in Cells : Release(h, W)[c] = IF c \in W THEN Free ELSE h[c]
BY DEF Release, Heaps

LEMMA DeviceFields ==
  ASSUME NEW h \in Heaps, NEW d \in Cells, Holds(h, d, "device")
  PROVE  h[d] \in DeviceCells
BY DEF Heaps, Holds, ItemCells

WithItem(h, c, x, d, field) == [h EXCEPT ![c] = x, ![d][field] = c]

LEMMA HeapWithItem ==
  ASSUME NEW h \in Heaps, NEW c \in Cells, NEW d \in Cells, c # d, Holds(h, d, "device"),
         NEW x \in ItemCells, NEW field \in {"commands", "states"},
         NEW g, g = WithItem(h, c, x, d, field)
  PROVE  /\ g \in Heaps /\ g[c] = x /\ \A y \in Cells \ {c, d} : g[y] = h[y]
         /\ Holds(g, d, "device")
         /\ g[d].next = h[d].next /\ g[d].label = h[d].label /\ g[d].url = h[d].url
         /\ g[d].commands = (IF field = "commands" THEN c ELSE h[d].commands)
         /\ g[d].states = (IF field = "states" THEN c ELSE h[d].states)
<1> DEFINE y == [h[d] EXCEPT ![field] = c]
<1>1. h[d] \in DeviceCells
  BY DeviceFields
<1>2. /\ y \in DeviceCells /\ y.kind = "device"
      /\ y.next = h[d].next /\ y.label = h[d].label /\ y.url = h[d].url
      /\ y.commands = (IF field = "commands" THEN c ELSE h[d].commands)
      /\ y.states = (IF field = "states" THEN c ELSE h[d].states)
  BY <1>1 DEF DeviceCells, Pointers
<1> HIDE DEF y
<1>3. g = [z \in Cells |-> IF z = d THEN y ELSE IF z = c THEN x ELSE h[z]]
  BY DEF Heaps, WithItem, y
<1>4. g[c] = x /\ g[d] = y /\ \A z \in Cells \ {c, d} : g[z] = h[z]
  BY <1>3
<1>5. g \in Heaps
  BY <1>2, <1>3 DEF Heaps
<1> QED BY <1>2, <1>4, <1>5, MemoryAssumption DEF Holds

WithNext(h, d, p)   == [h EXCEPT ![d].next = p]
WithStates(h, d, p) == [h EXCEPT ![d].states = p]

LEMMA HeapWithNext ==
  ASSUME NEW h \in Heaps, NEW d \in Cells, Holds(h, d, "device"), NEW p \in Pointers,
         NEW g, g = WithNext(h, d, p)
  PROVE  /\ g \in Heaps /\ \A y \in Cells \ {d} : g[y] = h[y]
         /\ Holds(g, d, "device") /\ g[d].next = p
         /\ g[d].label = h[d].label /\ g[d].url = h[d].url
         /\ g[d].commands = h[d].commands /\ g[d].states = h[d].states
<1> DEFINE x == [h[d] EXCEPT !.next = p]
<1>1. h[d] \in DeviceCells
  BY DeviceFields
<1>2. /\ x \in DeviceCells /\ x.kind = "device" /\ x.next = p
      /\ x.label = h[d].label /\ x.url = h[d].url
      /\ x.commands = h[d].commands /\ x.states = h[d].states
  BY <1>1 DEF DeviceCells
<1> HIDE DEF x
<1>3. g = [z \in Cells |-> IF z = d THEN x ELSE h[z]]
  BY DEF Heaps, WithNext, x
<1>4. g[d] = x /\ g \in Heaps /\ \A z \in Cells \ {d} : g[z] = h[z]
  BY <1>2, <1>3 DEF Heaps
<1> QED BY <1>2, <1>4, MemoryAssumption DEF Holds

LEMMA HeapWithStates ==
  ASSUME NEW h \in Heaps, NEW d \in Cells, Holds(h, d, "device"), NEW p \in Pointers,
         NEW g, g = WithStates(h, d, p)
  PROVE  /\ g \in Heaps /\ \A y \in Cells \ {d} : g[y] = h[y]
         /\ Holds(g, d, "device") /\ g[d].states = p
         /\ g[d].label = h[d].label /\ g[d].url = h[d].url
         /\ g[d].commands = h[d].commands /\ g[d].next = h[d].next
<1> DEFINE x == [h[d] EXCEPT !.states = p]
<1>1. h[d] \in DeviceCells
  BY DeviceFields
<1>2. /\ x \in DeviceCells /\ x.kind = "device" /\ x.states = p
      /\ x.label = h[d].label /\ x.url = h[d].url
      /\ x.commands = h[d].commands /\ x.next = h[d].next
  BY <1>1 DEF DeviceCells
<1> HIDE DEF x
<1>3. g = [z \in Cells |-> IF z = d THEN x ELSE h[z]]
  BY DEF Heaps, WithStates, x
<1>4. g[d] = x /\ g \in Heaps /\ \A z \in Cells \ {d} : g[z] = h[z]
  BY <1>2, <1>3 DEF Heaps
<1> QED BY <1>2, <1>4, MemoryAssumption DEF Holds

(* An item in front of a list, in a cell that was free. *)
LEMMA ItemInFront ==
  ASSUME NEW h \in Heaps, NEW g \in Heaps, NEW kind \in {"command", "state"},
         NEW c \in Cells, h[c] = Free, NEW d \in Cells, Holds(h, d, "device"),
         NEW p, Chained(h, p, kind), NEW name \in Names, g[c] = ItemCell(kind, name, p),
         \A x \in Cells \ {c, d} : g[x] = h[x]
  PROVE  /\ Chained(g, c, kind)
         /\ CellsFrom(g, c) = {c} \cup CellsFrom(h, p)
         /\ NamesFrom(g, c) = <<name>> \o NamesFrom(h, p)
<1>1. g[c] # Free /\ g[c].kind = kind /\ g[c].next = p /\ g[c].name = name
  <2>1. ItemCell(kind, name, p).kind = kind /\ ItemCell(kind, name, p).next = p
        /\ ItemCell(kind, name, p).name = name
    BY DEF ItemCell
  <2>2. p \in Pointers
    BY ListCells
  <2>3. ItemCell(kind, name, p) \in ItemCells
    BY <2>2 DEF ItemCell, ItemCells
  <2> QED BY <2>1, <2>3, MemoryAssumption
<1>2. \A x \in CellsFrom(h, p) : x \in Cells /\ x # c /\ x # d
  BY ListCells DEF Holds
<1>3. /\ Chained(g, p, kind) /\ CellsFrom(g, p) = CellsFrom(h, p)
      /\ NamesFrom(g, p) = NamesFrom(h, p)
  BY <1>2, SameNames
<1>4. /\ Chained(g, c, kind) /\ CellsFrom(g, c) = {c} \cup CellsFrom(g, p)
      /\ WalkIn(g, c) = <<c>> \o WalkIn(g, p)
  BY <1>1, <1>2, <1>3, LongerList DEF Holds
<1>5. NamesFrom(g, c) = <<name>> \o NamesFrom(g, p)
  <2>1. WalkIn(g, p) \in Seq(Cells)
    BY <1>3, ListCells
  <2>2. NamesFrom(g, c) = <<g[c].name>> \o NamesFrom(g, g[c].next)
    BY <1>1, <1>4, <2>1, NamesOfLonger
  <2> QED BY <1>1, <2>2
<1> QED BY <1>3, <1>4, <1>5

-----------------------------------------------------------------------------
(* The inductive invariant *)

First == IF pc = "freeing" THEN cursor ELSE devices_list

Typed ==
  /\ TypeOK
  /\ answer \in Seq(Objects \cup {NULL})
  /\ offered \in Seq({Underscored(l) : l \in Labels} \cup DevURLs \cup Names)

(* The listed devices are a chain of whole devices. *)
ListWhole ==
  /\ Chained(heap, First, "device")
  /\ \A d \in CellsFrom(heap, First) : Whole(heap, d)

(* The device under construction, which no list holds yet. *)
NewWhole ==
  /\ pc \in {"commands", "states"} => new # NULL
  /\ new # NULL =>
       /\ pc \in {"commands", "states", "aborted"}
       /\ new \notin CellsFrom(heap, First)
       /\ Holds(heap, new, "device")
       /\ Chained(heap, heap[new].commands, "command")
       /\ \/ pc # "states" /\ heap[new].states = Junk
          \/ pc # "commands" /\ Chained(heap, heap[new].states, "state")

NothingShared ==
  \A d, e \in CellsFrom(heap, First) \cup ({new} \ {NULL}) :
    d # e => ItemsIn(heap, d) \cap ItemsIn(heap, e) = {}

(* What was read of the object and what is left of it make it up. *)
ReadSoFar ==
  pc \in {"commands", "states"} =>
    /\ done < Len(answer) /\ Object # NULL
    /\ Object.commands \notin {NULL, NotArray}
    /\ heap[new].label = Underscored(Object.label) /\ heap[new].url = Object.url
    /\ pc = "commands" =>
         Reverse(NamesFrom(heap, heap[new].commands)) \o todo = Object.commands
    /\ pc = "states" =>
         /\ NamesFrom(heap, heap[new].commands) = Reverse(Object.commands)
         /\ Object.states \notin {NULL, NotArray}
         /\ Reverse(NamesFrom(heap, heap[new].states)) \o todo = Object.states

(* The list is the answer as far as it was read. *)
ListIsAnswer ==
  /\ pc = "freeing" => done = 0
  /\ pc \notin {"freeing", "aborted"} => View(heap, First) = Made(answer)[done]

KindOf(field) == CASE field = "commands" -> "command"
                   [] field = "states" -> "state"
                   [] OTHER -> "device"

(* What was offered and what the cursor still has to meet make up the list
   that was asked for. *)
OffersSoFar ==
  /\ pc # "offering" => offered = <<>>
  /\ pc = "offering" =>
       /\ asked.field \in {"commands", "states"} => dev \in CellsFrom(heap, devices_list)
       /\ Chained(heap, cursor, KindOf(asked.field))
       /\ offered \o NamesOf(Walk(cursor)) = NamesOf(Candidates)

DevInv ==
  /\ Typed
  /\ ListWhole
  /\ NewWhole
  /\ NothingShared
  /\ NoDeviceLost
  /\ ReadSoFar
  /\ ListIsAnswer
  /\ OffersSoFar

-----------------------------------------------------------------------------
(* What the invariant says of the cells *)

Others == CellsFrom(heap, First)

LEMMA HeapTyped ==
  ASSUME Typed
  PROVE  heap \in Heaps /\ new \in Cells \cup {NULL}
         /\ devices_list \in Cells \cup {NULL} /\ cursor \in Cells \cup {NULL}
BY DEF Typed, TypeOK, Heaps

(* The items of each owned device are items. *)
LEMMA OwnedItems ==
  ASSUME DevInv
  PROVE  /\ Others \subseteq Cells /\ NULL \notin Others
         /\ \A d \in Others : Holds(heap, d, "device") /\ Whole(heap, d)
         /\ \A d \in Others \cup ({new} \ {NULL}) :
              /\ ItemsIn(heap, d) \subseteq Cells
              /\ \A c \in ItemsIn(heap, d) : heap[c] # Free /\ ~Holds(heap, c, "device")
<1>1. heap \in Heaps /\ Others \subseteq Cells
  BY HeapTyped, ListCells DEF DevInv, ListWhole, Others
<1>2. \A d \in Others : Holds(heap, d, "device") /\ Whole(heap, d)
  BY DEF DevInv, ListWhole, Others, Whole
<1>3. ASSUME NEW d \in Others
      PROVE  /\ ItemsIn(heap, d) \subseteq Cells
             /\ \A c \in ItemsIn(heap, d) : heap[c] # Free /\ ~Holds(heap, c, "device")
  BY <1>1, <1>2, ItemsAreItems DEF Whole
<1>4. ASSUME new # NULL
      PROVE  /\ ItemsIn(heap, new) \subseteq Cells
             /\ \A c \in ItemsIn(heap, new) : heap[c] # Free /\ ~Holds(heap, c, "device")
  BY <1>1, <1>4, ItemsAreItems DEF DevInv, NewWhole
<1> QED BY <1>1, <1>2, <1>3, <1>4, MemoryAssumption

(* The listed devices stay when only cells of others change. *)
LEMMA OthersStay ==
  ASSUME DevInv, NEW g \in Heaps,
         \A c \in Cells : g[c] # heap[c] =>
           c \notin Others /\ \A d \in Others : c \notin ItemsIn(heap, d)
  PROVE  /\ Chained(g, First, "device") /\ CellsFrom(g, First) = Others
         /\ \A d \in Others : Whole(g, d) /\ ItemsIn(g, d) = ItemsIn(heap, d)
         /\ View(g, First) = View(heap, First)
<1>1. heap \in Heaps /\ Chained(heap, First, "device")
  BY HeapTyped DEF DevInv, ListWhole
<1>2. ASSUME NEW d \in CellsFrom(heap, First)
      PROVE  /\ Whole(heap, d) /\ g[d] = heap[d]
             /\ \A c \in ItemsIn(heap, d) : g[c] = heap[c]
  BY OwnedItems DEF Others
<1> QED BY <1>1, <1>2, SameDevices DEF Others

-----------------------------------------------------------------------------
(* The steps *)

LEMMA InitDev == Init => DevInv
<1> SUFFICES ASSUME Init PROVE DevInv
  OBVIOUS
<1>1. Typed
  BY DEF Init, Typed, TypeOK, NotAsked, Row, Commands
<1>2. heap \in Heaps
  BY <1>1, HeapTyped
<1>3. /\ Chained(heap, NULL, "device") /\ WalkIn(heap, NULL) = <<>>
      /\ CellsFrom(heap, NULL) = {}
  BY <1>2, EmptyList
<1>4. First = NULL /\ new = NULL /\ pc = "prompt" /\ done = 0 /\ answer = <<>> /\ offered = <<>>
  BY DEF Init, First
<1>5. ListWhole /\ NewWhole /\ NothingShared /\ ReadSoFar /\ OffersSoFar
  BY <1>3, <1>4 DEF ListWhole, NewWhole, NothingShared, ReadSoFar, OffersSoFar
<1>6. NoDeviceLost
  <2>1. \A c \in Cells : heap[c] = Free
    BY DEF Init
  <2>2. ToSet(Listed) = {}
    BY <1>3, <1>4 DEF Listed, Walk, First, ToSet
  <2> QED BY <1>4, <2>1, <2>2 DEF NoDeviceLost, Owned, IsA
<1>7. ListIsAnswer
  <2>1. answer \in Seq(Objects \cup {NULL})
    BY <1>4
  <2>2. Made(answer)[done] = <<>>
    BY <1>4, <2>1, MadeBySteps
  <2>3. View(heap, First) = <<>>
    BY <1>3, <1>4 DEF View
  <2> QED BY <1>4, <2>2, <2>3 DEF ListIsAnswer
<1> QED BY <1>1, <1>5, <1>6, <1>7 DEF DevInv

(* Steps that change neither the memory nor the devices in it. *)
LEMMA SameMemory ==
  ASSUME DevInv, heap' = heap, First' = First, new' = new
  PROVE  ListWhole' /\ NothingShared' /\ NoDeviceLost'
<1>1. ListWhole'
  BY DEF DevInv, ListWhole
<1>2. NothingShared'
  BY DEF DevInv, NothingShared
<1>3. Owned = CellsFrom(heap, First) \cup ({new} \ {NULL})
  BY DEF Owned, Listed, Walk, CellsFrom, First
<1>4. Owned' = CellsFrom(heap', First') \cup ({new'} \ {NULL})
  BY DEF Owned, Listed, Walk, CellsFrom, First
<1>5. NoDeviceLost'
  BY <1>3, <1>4 DEF DevInv, NoDeviceLost, IsA
<1> QED BY <1>1, <1>2, <1>5

LEMMA ScandevsStep ==
  ASSUME DevInv, NEW a \in Answers, func_scandevs(a)
  PROVE  DevInv'
<1> USE DEF func_scandevs
<1>1. Typed'
  <2>1. a \in Seq(Objects \cup {NULL})
    BY AnswersAssumption
  <2>2. 0 \in 0 .. Len(a)
    BY <2>1
  <2> QED BY <2>1, <2>2 DEF DevInv, Typed, TypeOK
<1>2. First' = First
  BY DEF First
<1>3. ListWhole' /\ NothingShared' /\ NoDeviceLost'
  BY <1>2, SameMemory
<1>4. new' = NULL
  BY DEF DevInv, NewWhole
<1>5. NewWhole' /\ ReadSoFar' /\ ListIsAnswer' /\ OffersSoFar'
  BY <1>4 DEF DevInv, NewWhole, ReadSoFar, ListIsAnswer, OffersSoFar
<1> QED BY <1>1, <1>3, <1>5 DEF DevInv

LEMMA FreeStep ==
  ASSUME DevInv, freeDeviceList
  PROVE  DevInv'
<1> USE DEF freeDeviceList
<1>1. heap \in Heaps /\ pc = "freeing" /\ new = NULL /\ new' = NULL /\ First = cursor
      /\ pc' \in {"freeing", "object"} /\ done = 0 /\ offered = <<>>
  BY HeapTyped DEF DevInv, NewWhole, First, ListIsAnswer, OffersSoFar
<1>2. NewWhole' /\ ReadSoFar' /\ OffersSoFar'
  BY <1>1 DEF NewWhole, ReadSoFar, OffersSoFar
<1>3. Owned = Others
  BY <1>1 DEF Owned, Listed, Walk, CellsFrom, First, Others
<1>4. Owned' = CellsFrom(heap', First')
  BY <1>1 DEF Owned, Listed, Walk, CellsFrom, First
<1>5. CASE cursor # NULL
  <2> DEFINE p == heap[cursor].next
  <2>1. /\ heap' = Release(heap, {cursor}) /\ cursor' = p /\ pc' = "freeing"
        /\ First' = p
    BY <1>1, <1>5 DEF First
  <2>2. heap' \in Heaps /\ \A c \in Cells : heap'[c] = IF c = cursor THEN Free ELSE heap[c]
    BY <1>1, <2>1, ReleasedHeap
  <2>3. /\ Chained(heap, p, "device") /\ cursor \notin CellsFrom(heap, p)
        /\ Others = {cursor} \cup CellsFrom(heap, p) /\ Holds(heap, cursor, "device")
    BY <1>1, <1>5, RestOfList DEF DevInv, ListWhole, Others
  <2>4. p \in Cells \cup {NULL}
    BY <2>3, ListCells
  <2> HIDE DEF p
  <2>5. ASSUME NEW d \in CellsFrom(heap, p)
        PROVE  /\ Whole(heap, d) /\ heap'[d] = heap[d]
               /\ \A c \in ItemsIn(heap, d) : heap'[c] = heap[c]
    <3>1. d \in Others /\ d \in Cells /\ d # cursor
      BY <2>3, OwnedItems
    <3>2. \A c \in ItemsIn(heap, d) : c \in Cells /\ c # cursor
      BY <2>3, <3>1, OwnedItems
    <3> QED BY <2>2, <3>1, <3>2, OwnedItems
  <2>6. /\ Chained(heap', p, "device") /\ CellsFrom(heap', p) = CellsFrom(heap, p)
        /\ \A d \in CellsFrom(heap, p) : Whole(heap', d) /\ ItemsIn(heap', d) = ItemsIn(heap, d)
    BY <1>1, <2>2, <2>3, <2>5, SameDevices
  <2>7. ListWhole'
    BY <2>1, <2>6 DEF ListWhole
  <2>8. NothingShared'
    <3>1. ASSUME NEW d \in CellsFrom(heap, p), NEW e \in CellsFrom(heap, p), d # e
          PROVE  ItemsIn(heap', d) \cap ItemsIn(heap', e) = {}
      <4>1. d \in CellsFrom(heap, First) /\ e \in CellsFrom(heap, First)
        BY <2>3 DEF Others
      <4>2. ItemsIn(heap, d) \cap ItemsIn(heap, e) = {}
        BY <3>1, <4>1 DEF DevInv, NothingShared
      <4> QED BY <2>6, <4>2
    <3>2. CellsFrom(heap', First') \cup ({new'} \ {NULL}) = CellsFrom(heap, p)
      BY <1>1, <2>1, <2>6
    <3> QED BY <3>1, <3>2 DEF NothingShared
  <2>9. NoDeviceLost'
    <3>1. \A c \in Cells : Holds(heap', c, "device") <=> (c # cursor /\ Holds(heap, c, "device"))
      BY <2>2 DEF Holds
    <3>2. {c \in Cells : Holds(heap, c, "device")} = Others
      BY <1>3 DEF DevInv, NoDeviceLost, IsA, Holds
    <3>3. {c \in Cells : Holds(heap', c, "device")} = CellsFrom(heap, p)
      BY <2>3, <3>1, <3>2
    <3> QED BY <1>4, <2>1, <2>6, <3>3 DEF NoDeviceLost, IsA, Holds
  <2>10. Typed'
    <3>1. heap' \in [Cells -> {Free} \cup DeviceCells \cup ItemCells]
      BY <2>2 DEF Heaps
    <3>2. cursor' \in Cells \cup {NULL}
      BY <2>1, <2>4
    <3> QED BY <2>1, <3>1, <3>2 DEF DevInv, Typed, TypeOK
  <2>11. ListIsAnswer'
    BY <1>1, <2>1 DEF ListIsAnswer
  <2> QED BY <1>2, <2>7, <2>8, <2>9, <2>10, <2>11 DEF DevInv
<1>6. CASE cursor = NULL
  <2>1. /\ heap' = heap /\ devices_list' = NULL /\ pc' = "object"
        /\ First' = First
    BY <1>1, <1>6 DEF First
  <2>2. ListWhole' /\ NothingShared' /\ NoDeviceLost'
    BY <1>1, <2>1, SameMemory
  <2>3. ListIsAnswer'
    <3>1. WalkIn(heap, NULL) = <<>>
      BY <1>1, EmptyList
    <3>2. View(heap, NULL) = <<>>
      BY <3>1 DEF View
    <3>3. Made(answer)[0] = <<>>
      BY MadeBySteps DEF DevInv, Typed
    <3> QED BY <1>1, <1>6, <2>1, <3>2, <3>3 DEF ListIsAnswer
  <2>4. Typed'
    BY <1>1, <1>6, <2>1 DEF DevInv, Typed, TypeOK
  <2> QED BY <1>2, <2>2, <2>3, <2>4 DEF DevInv
<1> QED BY <1>5, <1>6

(* What is not a cell of the device under construction is no cell of the
   others, nor of their items. *)
LEMMA NewApart ==
  ASSUME DevInv, new # NULL
  PROVE  \A c \in {new} \cup ItemsIn(heap, new) :
           c \notin Others /\ \A d \in Others : c \notin ItemsIn(heap, d)
<1>1. new \in {new} \ {NULL} /\ new \notin Others
  BY DEF DevInv, NewWhole, Others
<1>2. Holds(heap, new, "device") /\ \A c \in ItemsIn(heap, new) : ~Holds(heap, c, "device")
  BY <1>1, OwnedItems DEF DevInv, NewWhole
<1>3. \A d \in Others : d # new /\ ItemsIn(heap, d) \cap ItemsIn(heap, new) = {}
  <2>1. \A d, e \in Others \cup ({new} \ {NULL}) :
          d # e => ItemsIn(heap, d) \cap ItemsIn(heap, e) = {}
    BY DEF DevInv, NothingShared, Others
  <2> QED BY <1>1, <2>1
<1>4. \A d \in Others : Holds(heap, d, "device") /\ \A c \in ItemsIn(heap, d) : ~Holds(heap, c, "device")
  BY OwnedItems
<1> QED BY <1>1, <1>2, <1>3, <1>4

(* addDevice() gives its object up, and the device if there was one. *)
LEMMA SkipStep ==
  ASSUME DevInv, pc \in {"object", "commands", "states"},
         done < Len(answer), ~MakesDevice(Object),
         NEW STATE W, W \subseteq (IF new = NULL THEN {} ELSE {new} \cup ItemsIn(heap, new)),
         new # NULL => new \in W,
         Skip(W), Scanning
  PROVE  DevInv'
<1> USE DEF Skip, Scanning
<1>1. heap \in Heaps /\ First = devices_list /\ First' = First /\ new' = NULL
      /\ pc' = "object" /\ offered = <<>> /\ offered' = <<>>
  BY HeapTyped DEF DevInv, First, OffersSoFar
<1>2. heap' \in Heaps /\ \A c \in Cells : heap'[c] = IF c \in W THEN Free ELSE heap[c]
  BY <1>1, ReleasedHeap
<1>3. \A c \in W : c \notin Others /\ \A d \in Others : c \notin ItemsIn(heap, d)
  BY NewApart
<1>4. /\ Chained(heap', First, "device") /\ CellsFrom(heap', First) = Others
      /\ \A d \in Others : Whole(heap', d) /\ ItemsIn(heap', d) = ItemsIn(heap, d)
      /\ View(heap', First) = View(heap, First)
  BY <1>2, <1>3, OthersStay
<1>5. Typed'
  <2>1. heap' \in [Cells -> {Free} \cup DeviceCells \cup ItemCells]
    BY <1>2 DEF Heaps
  <2>2. done' \in 0 .. Len(answer')
    BY DEF DevInv, Typed, TypeOK
  <2>3. todo' \in Seq(Items)
    OBVIOUS
  <2> QED BY <2>1, <2>2, <2>3 DEF DevInv, Typed, TypeOK
<1>6. ListWhole' /\ NewWhole' /\ ReadSoFar' /\ OffersSoFar'
  BY <1>1, <1>4 DEF ListWhole, NewWhole, ReadSoFar, OffersSoFar
<1>7. NothingShared'
  <2>1. ASSUME NEW d \in Others, NEW e \in Others, d # e
        PROVE  ItemsIn(heap', d) \cap ItemsIn(heap', e) = {}
    BY <1>4, <2>1 DEF DevInv, NothingShared, Others
  <2>2. CellsFrom(heap', First') \cup ({new'} \ {NULL}) = Others
    BY <1>1, <1>4
  <2> QED BY <2>1, <2>2 DEF NothingShared
<1>8. NoDeviceLost'
  <2>1. \A c \in Cells : Holds(heap', c, "device") <=> (c \notin W /\ Holds(heap, c, "device"))
    BY <1>2 DEF Holds
  <2>2. {c \in Cells : Holds(heap, c, "device")} = Others \cup ({new} \ {NULL})
    BY DEF DevInv, NoDeviceLost, IsA, Holds, Owned, Listed, Walk, Others, CellsFrom, First
  <2>3. {c \in Cells : Holds(heap', c, "device")} = Others
    BY <1>3, <2>1, <2>2
  <2>4. Owned' = CellsFrom(heap', First') \cup ({new'} \ {NULL})
    BY DEF Owned, Listed, Walk, CellsFrom, First
  <2> QED BY <1>1, <1>4, <2>3, <2>4 DEF NoDeviceLost, IsA, Holds
<1>9. ListIsAnswer'
  <2>1. done \in Nat /\ done + 1 \in 1 .. Len(answer) /\ (done + 1) - 1 = done
    BY DEF DevInv, Typed, TypeOK
  <2>2. Made(answer)[done + 1] = Made(answer)[(done + 1) - 1]
    BY <2>1, MadeBySteps DEF DevInv, Typed, Object
  <2>3. View(heap, First) = Made(answer)[done]
    BY DEF DevInv, ListIsAnswer
  <2> QED BY <1>1, <1>4, <2>1, <2>2, <2>3 DEF ListIsAnswer
<1> QED BY <1>5, <1>6, <1>7, <1>8, <1>9 DEF DevInv

LEMMA AbortStep ==
  ASSUME DevInv, pc \in {"object", "commands", "states"}, Abort, Scanning
  PROVE  DevInv'
<1> USE DEF Abort, Scanning
<1>1. First' = First
  BY DEF First
<1>2. ListWhole' /\ NothingShared' /\ NoDeviceLost'
  BY <1>1, SameMemory
<1>3. Typed' /\ ReadSoFar' /\ ListIsAnswer' /\ OffersSoFar'
  BY DEF DevInv, Typed, TypeOK, ReadSoFar, ListIsAnswer, OffersSoFar
<1>4. NewWhole'
  BY <1>1 DEF DevInv, NewWhole
<1> QED BY <1>2, <1>3, <1>4 DEF DevInv

LEMMA ObjectTyped ==
  ASSUME Typed, done < Len(answer), Object # NULL
  PROVE  /\ Object \in Objects
         /\ Object.label # NULL => Object.label \in Labels
         /\ Object.url # NULL => Object.url \in DevURLs
         /\ Object.commands \notin {NULL, NotArray} => Object.commands \in Seq(Items)
         /\ Object.states \notin {NULL, NotArray} => Object.states \in Seq(Items)
<1>1. done + 1 \in 1 .. Len(answer) /\ answer \in Seq(Objects \cup {NULL})
  BY DEF Typed, TypeOK
<1>2. Object \in Objects
  BY <1>1 DEF Object
<1> QED BY <1>2 DEF Objects, ItemLists

(* Steps that change only the device under construction and cells that were
   free leave the others whole. *)
LEMMA NewChanged ==
  ASSUME DevInv, heap' \in Heaps, First' = First, new' \in Cells,
         new # NULL => new' = new,
         new = NULL => heap[new'] = Free,
         \A c \in Cells : heap'[c] # heap[c] => heap[c] = Free \/ c = new,
         \A c \in Cells : Holds(heap', c, "device") <=> Holds(heap, c, "device") \/ c = new',
         \A c \in ItemsIn(heap', new') :
           heap[c] = Free \/ (new # NULL /\ c \in ItemsIn(heap, new))
  PROVE  /\ ListWhole' /\ NothingShared' /\ NoDeviceLost'
         /\ new' \notin CellsFrom(heap', First')
         /\ View(heap', First') = View(heap, First)
<1>1. ASSUME NEW c \in Cells, heap[c] = Free
      PROVE  c \notin Others /\ \A d \in Others : c \notin ItemsIn(heap, d)
  BY <1>1, OwnedItems DEF Holds
<1>2. \A c \in Cells : heap'[c] # heap[c] =>
        c \notin Others /\ \A d \in Others : c \notin ItemsIn(heap, d)
  BY <1>1, NewApart, MemoryAssumption
<1>3. /\ Chained(heap', First, "device") /\ CellsFrom(heap', First) = Others
      /\ \A d \in Others : Whole(heap', d) /\ ItemsIn(heap', d) = ItemsIn(heap, d)
      /\ View(heap', First) = View(heap, First)
  BY <1>2, OthersStay
<1>4. ListWhole'
  BY <1>3 DEF ListWhole
<1>5. new' \notin Others
  BY <1>1, NewApart
<1>6. \A d \in Others : ItemsIn(heap', d) \cap ItemsIn(heap', new') = {}
  <2>1. ASSUME NEW d \in Others, NEW c \in ItemsIn(heap, d), c \in ItemsIn(heap', new')
        PROVE  FALSE
    <3>1. heap[c] # Free
      BY OwnedItems
    <3> QED BY <2>1, <3>1, NewApart
  <2> QED BY <1>3, <2>1
<1>7. \A d, e \in Others : d # e => ItemsIn(heap', d) \cap ItemsIn(heap', e) = {}
  BY <1>3 DEF DevInv, NothingShared, Others
<1>8. CellsFrom(heap', First') \cup ({new'} \ {NULL}) = Others \cup {new'}
  BY <1>3, MemoryAssumption
<1>9. NothingShared'
  <2>1. \A d, e \in Others \cup {new'} : d # e => ItemsIn(heap', d) \cap ItemsIn(heap', e) = {}
    BY <1>6, <1>7
  <2> QED BY <1>8, <2>1 DEF NothingShared
<1>10. NoDeviceLost'
  <2>1. {c \in Cells : Holds(heap, c, "device")} = Others \cup ({new} \ {NULL})
    BY DEF DevInv, NoDeviceLost, IsA, Holds, Owned, Listed, Walk, Others, CellsFrom, First
  <2>2. {c \in Cells : Holds(heap', c, "device")} = Others \cup {new'}
    <3>1. \A c \in Cells : Holds(heap', c, "device") <=> c \in Others \/ c = new'
      BY <2>1, MemoryAssumption
    <3>2. Others \subseteq Cells
      BY OwnedItems
    <3> QED BY <3>1, <3>2
  <2>3. Owned' = CellsFrom(heap', First') \cup ({new'} \ {NULL})
    BY DEF Owned, Listed, Walk, CellsFrom, First
  <2> QED BY <1>8, <2>2, <2>3 DEF NoDeviceLost, IsA, Holds
<1> QED BY <1>3, <1>4, <1>5, <1>9, <1>10

(* addDevice() allocates the device. *)
LEMMA NewDeviceStep ==
  ASSUME DevInv, pc = "object", done < Len(answer), Object # NULL, Identified(Object),
         Object.commands \notin {NULL, NotArray},
         NEW c \in Available,
         heap' = [heap EXCEPT ![c] = DeviceCell(Underscored(Object.label), Object.url)],
         new' = c, pc' = "commands", todo' = Object.commands,
         UNCHANGED <<devices_list, done>>, Scanning
  PROVE  DevInv'
<1> DEFINE x == DeviceCell(Underscored(Object.label), Object.url)
<1>1. /\ heap \in Heaps /\ First = devices_list /\ First' = First /\ new = NULL
      /\ offered = <<>> /\ offered' = <<>> /\ Object' = Object
  BY HeapTyped DEF DevInv, First, OffersSoFar, NewWhole, Scanning, Object
<1>2. c \in Cells /\ heap[c] = Free
  BY DEF Available
<1>3. /\ x \in DeviceCells /\ x.kind = "device" /\ x.commands = NULL /\ x.states = Junk
      /\ x.label = Underscored(Object.label) /\ x.url = Object.url
  BY ObjectTyped DEF DeviceCell, DeviceCells, DevInv, Identified, Pointers
<1> HIDE DEF x
<1>4. /\ heap' \in Heaps /\ heap'[c] = x /\ x # Free
      /\ \A y \in Cells : y # c => heap'[y] = heap[y]
  BY <1>1, <1>2, <1>3, MemoryAssumption DEF Heaps, x
<1>5. Holds(heap', c, "device") /\ ItemsIn(heap', c) = {}
  BY <1>3, <1>4, EmptyList, NoWalkFromJunk DEF Holds, ItemsIn
<1>6. /\ ListWhole' /\ NothingShared' /\ NoDeviceLost'
      /\ new' \notin CellsFrom(heap', First')
      /\ View(heap', First') = View(heap, First)
  <2>1. \A y \in Cells : heap'[y] # heap[y] => heap[y] = Free \/ y = new
    BY <1>2, <1>4
  <2>2. \A y \in Cells : Holds(heap', y, "device") <=> Holds(heap, y, "device") \/ y = new'
    BY <1>2, <1>4, <1>5 DEF Holds
  <2> QED BY <1>1, <1>2, <1>4, <1>5, <2>1, <2>2, NewChanged
<1>7. Chained(heap', NULL, "command") /\ NamesFrom(heap', NULL) = <<>>
  BY <1>4, EmptyList, EmptyNames
<1>8. NewWhole'
  <2>1. Holds(heap', new', "device") /\ new' # NULL
    BY <1>2, <1>5, MemoryAssumption
  <2>2. Chained(heap', heap'[new'].commands, "command") /\ heap'[new'].states = Junk
    BY <1>3, <1>4, <1>7
  <2> QED BY <1>6, <2>1, <2>2 DEF NewWhole
<1>9. Typed'
  <2>1. heap' \in [Cells -> {Free} \cup DeviceCells \cup ItemCells]
    BY <1>4 DEF Heaps
  <2>2. todo' \in Seq(Items)
    BY ObjectTyped DEF DevInv
  <2> QED BY <1>2, <2>1, <2>2 DEF DevInv, Typed, TypeOK, Scanning
<1>10. ReadSoFar'
  <2>1. Reverse(<<>>) \o todo' = Object.commands
    <3>1. todo' \in Seq(Items)
      BY ObjectTyped DEF DevInv
    <3>2. Reverse(<<>>) = <<>>
      BY DEF Reverse
    <3> QED BY <3>1, <3>2
  <2> QED BY <1>1, <1>3, <1>4, <1>7, <2>1 DEF ReadSoFar, Scanning
<1>11. ListIsAnswer' /\ OffersSoFar'
  BY <1>1, <1>6 DEF DevInv, ListIsAnswer, OffersSoFar, Scanning
<1> QED BY <1>6, <1>8, <1>9, <1>10, <1>11 DEF DevInv

LEMMA StartDeviceStep ==
  ASSUME DevInv, StartDevice
  PROVE  DevInv'
<1>1. pc = "object" /\ done < Len(answer) /\ new = NULL /\ Scanning
  BY DEF StartDevice, DevInv, NewWhole
<1>2. CASE Object = NULL /\ Skip({})
  BY <1>1, <1>2, SkipStep DEF MakesDevice
<1>3. CASE Abort
  BY <1>1, <1>3, AbortStep
<1>4. CASE Object.commands \in {NULL, NotArray} /\ Skip({})
  BY <1>1, <1>4, SkipStep DEF MakesDevice
<1>5. CASE /\ Object # NULL /\ Identified(Object)
           /\ Object.commands \notin {NULL, NotArray}
           /\ \E c \in Available :
                /\ heap' = [heap EXCEPT ![c] = DeviceCell(Underscored(Object.label), Object.url)]
                /\ new' = c
           /\ pc' = "commands" /\ todo' = Object.commands
           /\ UNCHANGED <<devices_list, done>>
  BY <1>1, <1>5, NewDeviceStep
<1> QED BY <1>2, <1>3, <1>4, <1>5 DEF StartDevice

(* What is known of the device under construction while it is read. *)
LEMMA Reading ==
  ASSUME DevInv, pc \in {"commands", "states"}
  PROVE  /\ heap \in Heaps /\ new \in Cells /\ new # NULL /\ Holds(heap, new, "device")
         /\ heap[new] \in DeviceCells
         /\ First = devices_list /\ done < Len(answer) /\ Object \in Objects /\ Object # NULL
         /\ Object.commands \in Seq(Items)
         /\ todo \in Seq(Items) /\ offered = <<>>
         /\ Chained(heap, heap[new].commands, "command")
         /\ NamesFrom(heap, heap[new].commands) \in Seq(Names)
         /\ NamesFrom(heap, heap[new].commands) \in Seq(Items)
         /\ pc = "commands" => heap[new].states = Junk
         /\ pc = "states" => /\ Object.states \in Seq(Items)
                             /\ Chained(heap, heap[new].states, "state")
                             /\ NamesFrom(heap, heap[new].states) \in Seq(Names)
                             /\ NamesFrom(heap, heap[new].states) \in Seq(Items)
<1>1. heap \in Heaps /\ new \in Cells /\ new # NULL /\ Holds(heap, new, "device")
  BY HeapTyped DEF DevInv, NewWhole
<1>2. /\ Chained(heap, heap[new].commands, "command")
      /\ pc = "commands" => heap[new].states = Junk
      /\ pc = "states" => Chained(heap, heap[new].states, "state")
  BY DEF DevInv, NewWhole
<1>3. \A s \in Seq(Names) : s \in Seq(Items)
  BY DEF Items
<1>4. done < Len(answer) /\ Object # NULL /\ Object \in Objects
  BY ObjectTyped DEF DevInv, ReadSoFar
<1>5. /\ Object.commands \in Seq(Items)
      /\ pc = "states" => Object.states \in Seq(Items)
  BY <1>4, ObjectTyped DEF DevInv, ReadSoFar
<1>6. First = devices_list /\ offered = <<>> /\ todo \in Seq(Items)
  BY DEF First, DevInv, OffersSoFar, Typed, TypeOK
<1> QED BY <1>1, <1>2, <1>3, <1>4, <1>5, <1>6, DeviceFields, NamesAreNames

LEMMA ChainCommandStep ==
  ASSUME DevInv, pc = "commands", todo # <<>>, Head(todo) \in Names,
         Chain("commands", "command"), Scanning
  PROVE  DevInv'
<1> DEFINE p == heap[new].commands
<1>1. PICK c \in Available :
        heap' = [heap EXCEPT ![c] = ItemCell("command", Head(todo), p), ![new]["commands"] = c]
  BY DEF Chain
<1>2. /\ pc' = pc /\ devices_list' = devices_list /\ done' = done /\ new' = new
      /\ todo' = Tail(todo) /\ answer' = answer /\ offered' = offered
      /\ First' = First /\ Object' = Object
  BY DEF Chain, Scanning, First, Object
<1>3. c \in Cells /\ heap[c] = Free /\ c # new
  BY Reading DEF Available, Holds
<1>4. Chained(heap, p, "command") /\ p \in Pointers
  BY Reading, ListCells
<1>5. ItemCell("command", Head(todo), p) \in ItemCells
  BY <1>4 DEF ItemCell, ItemCells
<1> HIDE DEF p
<1>6. /\ heap' \in Heaps /\ heap'[c] = ItemCell("command", Head(todo), p)
      /\ \A y \in Cells \ {c, new} : heap'[y] = heap[y]
      /\ Holds(heap', new, "device")
      /\ heap'[new].label = heap[new].label /\ heap'[new].url = heap[new].url
      /\ heap'[new].commands = c /\ heap'[new].states = Junk
  <2> DEFINE x == ItemCell("command", Head(todo), p)
             field == "commands"
  <2>1. heap' = WithItem(heap, c, x, new, field)
    BY <1>1 DEF WithItem
  <2>2. /\ heap \in Heaps /\ new \in Cells /\ Holds(heap, new, "device")
        /\ heap[new].states = Junk /\ field \in {"commands", "states"} /\ x \in ItemCells
    BY <1>5, Reading
  <2>3. field = "commands" /\ field # "states"
    OBVIOUS
  <2> HIDE DEF x, field
  <2>4. /\ heap' \in Heaps /\ heap'[c] = x /\ \A y \in Cells \ {c, new} : heap'[y] = heap[y]
        /\ Holds(heap', new, "device")
        /\ heap'[new].label = heap[new].label /\ heap'[new].url = heap[new].url
        /\ heap'[new].commands = (IF field = "commands" THEN c ELSE heap[new].commands)
        /\ heap'[new].states = (IF field = "states" THEN c ELSE heap[new].states)
    BY <1>3, <2>1, <2>2, HeapWithItem
  <2> QED BY <2>2, <2>3, <2>4 DEF x
<1>7. /\ Chained(heap', c, "command") /\ CellsFrom(heap', c) = {c} \cup CellsFrom(heap, p)
      /\ NamesFrom(heap', c) = <<Head(todo)>> \o NamesFrom(heap, p)
  BY <1>3, <1>4, <1>6, Reading, ItemInFront
<1>8. ItemsIn(heap', new) = {c} \cup CellsFrom(heap, p)
  BY <1>6, <1>7, NoWalkFromJunk DEF ItemsIn
<1>9. /\ ListWhole' /\ NothingShared' /\ NoDeviceLost'
      /\ new' \notin CellsFrom(heap', First')
      /\ View(heap', First') = View(heap, First)
  <2>1. \A y \in Cells : heap'[y] # heap[y] => heap[y] = Free \/ y = new
    BY <1>3, <1>6
  <2>2. \A y \in Cells : Holds(heap', y, "device") <=> Holds(heap, y, "device") \/ y = new'
    <3>1. ~Holds(heap', c, "device")
      BY <1>6 DEF Holds, ItemCell
    <3>2. ~Holds(heap, c, "device")
      BY <1>3 DEF Holds
    <3> QED BY <1>2, <1>3, <1>6, <3>1, <3>2, Reading DEF Holds
  <2>3. \A y \in ItemsIn(heap', new') : heap[y] = Free \/ (new # NULL /\ y \in ItemsIn(heap, new))
    BY <1>2, <1>3, <1>8, Reading DEF ItemsIn, p
  <2> QED BY <1>2, <1>6, <2>1, <2>2, <2>3, Reading, NewChanged
<1>10. NewWhole'
  BY <1>2, <1>6, <1>7, <1>9, Reading DEF NewWhole
<1>11. Typed'
  <2>1. heap' \in [Cells -> {Free} \cup DeviceCells \cup ItemCells]
    BY <1>6 DEF Heaps
  <2>2. todo' \in Seq(Items)
    BY <1>2, Reading
  <2> QED BY <1>2, <2>1, <2>2 DEF DevInv, Typed, TypeOK, Scanning
<1>12. ReadSoFar'
  <2>1. Reverse(NamesFrom(heap, p)) \o todo = Object.commands
    BY DEF DevInv, ReadSoFar, p
  <2>2. Reverse(NamesFrom(heap', c)) \o todo' = Object.commands
    BY <1>2, <1>7, <2>1, Reading, ReadOne DEF p
  <2> QED BY <1>2, <1>6, <2>2 DEF DevInv, ReadSoFar
<1>13. ListIsAnswer' /\ OffersSoFar'
  BY <1>2, <1>9, Reading DEF DevInv, ListIsAnswer, OffersSoFar
<1> QED BY <1>9, <1>10, <1>11, <1>12, <1>13 DEF DevInv

LEMMA ReadCommandStep ==
  ASSUME DevInv, ReadCommand
  PROVE  DevInv'
<1>1. pc = "commands" /\ todo # <<>> /\ Scanning
  BY DEF ReadCommand
<1>2. CASE Head(todo) = NULL /\ Skip({new})
  <2>1. ~MakesDevice(Object)
    <3>1. Reverse(NamesFrom(heap, heap[new].commands)) \in Seq(Items)
      BY <1>1, Reading, ReadAll
    <3>2. Head(todo) \in ToSet(Object.commands)
      BY <1>1, <3>1, Reading, HeadIsRead DEF DevInv, ReadSoFar
    <3> QED BY <1>2, <3>2 DEF MakesDevice
  <2> QED BY <1>1, <1>2, <2>1, Reading, SkipStep
<1>3. CASE Abort
  BY <1>1, <1>3, AbortStep
<1>4. CASE Head(todo) \in Names /\ Chain("commands", "command")
  BY <1>1, <1>4, ChainCommandStep
<1> QED BY <1>2, <1>3, <1>4 DEF ReadCommand

LEMMA ChainStateStep ==
  ASSUME DevInv, pc = "states", todo # <<>>, Head(todo) \in Names,
         Chain("states", "state"), Scanning
  PROVE  DevInv'
<1> DEFINE p == heap[new].states
           q == heap[new].commands
<1>1. PICK c \in Available :
        heap' = [heap EXCEPT ![c] = ItemCell("state", Head(todo), p), ![new]["states"] = c]
  BY DEF Chain
<1>2. /\ pc' = pc /\ devices_list' = devices_list /\ done' = done /\ new' = new
      /\ todo' = Tail(todo) /\ answer' = answer /\ offered' = offered
      /\ First' = First /\ Object' = Object
  BY DEF Chain, Scanning, First, Object
<1>3. c \in Cells /\ heap[c] = Free /\ c # new
  BY Reading DEF Available, Holds
<1>4. Chained(heap, p, "state") /\ p \in Pointers /\ Chained(heap, q, "command")
  BY Reading, ListCells
<1>5. ItemCell("state", Head(todo), p) \in ItemCells
  BY <1>4 DEF ItemCell, ItemCells
<1> HIDE DEF p, q
<1>6. /\ heap' \in Heaps /\ heap'[c] = ItemCell("state", Head(todo), p)
      /\ \A y \in Cells \ {c, new} : heap'[y] = heap[y]
      /\ Holds(heap', new, "device")
      /\ heap'[new].label = heap[new].label /\ heap'[new].url = heap[new].url
      /\ heap'[new].states = c /\ heap'[new].commands = q
  <2> DEFINE x == ItemCell("state", Head(todo), p)
             field == "states"
  <2>1. heap' = WithItem(heap, c, x, new, field)
    BY <1>1 DEF WithItem
  <2>2. /\ heap \in Heaps /\ new \in Cells /\ Holds(heap, new, "device")
        /\ field \in {"commands", "states"} /\ x \in ItemCells
    BY <1>5, Reading
  <2>3. field = "states" /\ field # "commands"
    OBVIOUS
  <2> HIDE DEF x, field
  <2>4. /\ heap' \in Heaps /\ heap'[c] = x /\ \A y \in Cells \ {c, new} : heap'[y] = heap[y]
        /\ Holds(heap', new, "device")
        /\ heap'[new].label = heap[new].label /\ heap'[new].url = heap[new].url
        /\ heap'[new].commands = (IF field = "commands" THEN c ELSE heap[new].commands)
        /\ heap'[new].states = (IF field = "states" THEN c ELSE heap[new].states)
    BY <1>3, <2>1, <2>2, HeapWithItem
  <2> QED BY <2>2, <2>3, <2>4 DEF x, q
<1>7. /\ Chained(heap', c, "state") /\ CellsFrom(heap', c) = {c} \cup CellsFrom(heap, p)
      /\ NamesFrom(heap', c) = <<Head(todo)>> \o NamesFrom(heap, p)
  BY <1>3, <1>4, <1>6, Reading, ItemInFront
<1>8. /\ Chained(heap', q, "command") /\ CellsFrom(heap', q) = CellsFrom(heap, q)
      /\ NamesFrom(heap', q) = NamesFrom(heap, q)
  <2>1. \A y \in CellsFrom(heap, q) : y \in Cells /\ y # c /\ y # new
    BY <1>3, <1>4, Reading, ListCells DEF Holds
  <2> QED BY <1>4, <1>6, <2>1, Reading, SameNames
<1>9. ItemsIn(heap', new) = {c} \cup CellsFrom(heap, p) \cup CellsFrom(heap, q)
  BY <1>6, <1>7, <1>8 DEF ItemsIn
<1>10. /\ ListWhole' /\ NothingShared' /\ NoDeviceLost'
       /\ new' \notin CellsFrom(heap', First')
       /\ View(heap', First') = View(heap, First)
  <2>1. \A y \in Cells : heap'[y] # heap[y] => heap[y] = Free \/ y = new
    BY <1>3, <1>6
  <2>2. \A y \in Cells : Holds(heap', y, "device") <=> Holds(heap, y, "device") \/ y = new'
    <3>1. ~Holds(heap', c, "device")
      BY <1>6 DEF Holds, ItemCell
    <3>2. ~Holds(heap, c, "device")
      BY <1>3 DEF Holds
    <3> QED BY <1>2, <1>3, <1>6, <3>1, <3>2, Reading DEF Holds
  <2>3. \A y \in ItemsIn(heap', new') : heap[y] = Free \/ (new # NULL /\ y \in ItemsIn(heap, new))
    BY <1>2, <1>3, <1>9, Reading DEF ItemsIn, p, q
  <2> QED BY <1>2, <1>6, <2>1, <2>2, <2>3, Reading, NewChanged
<1>11. NewWhole'
  BY <1>2, <1>6, <1>7, <1>8, <1>10, Reading DEF NewWhole
<1>12. Typed'
  <2>1. heap' \in [Cells -> {Free} \cup DeviceCells \cup ItemCells]
    BY <1>6 DEF Heaps
  <2>2. todo' \in Seq(Items)
    BY <1>2, Reading
  <2> QED BY <1>2, <2>1, <2>2 DEF DevInv, Typed, TypeOK, Scanning
<1>13. ReadSoFar'
  <2>1. Reverse(NamesFrom(heap, p)) \o todo = Object.states
    BY DEF DevInv, ReadSoFar, p
  <2>2. Reverse(NamesFrom(heap', c)) \o todo' = Object.states
    BY <1>2, <1>7, <2>1, Reading, ReadOne DEF p
  <2>3. NamesFrom(heap', q) = Reverse(Object.commands)
    BY <1>8 DEF DevInv, ReadSoFar, q
  <2> QED BY <1>2, <1>6, <2>2, <2>3 DEF DevInv, ReadSoFar
<1>14. ListIsAnswer' /\ OffersSoFar'
  BY <1>2, <1>10, Reading DEF DevInv, ListIsAnswer, OffersSoFar
<1> QED BY <1>10, <1>11, <1>12, <1>13, <1>14 DEF DevInv

LEMMA ReadStateStep ==
  ASSUME DevInv, ReadState
  PROVE  DevInv'
<1>1. pc = "states" /\ todo # <<>> /\ Scanning
  BY DEF ReadState
<1>2. CASE Head(todo) = NULL /\ Skip(NewAndCommands)
  <2>1. ~MakesDevice(Object)
    <3>1. Reverse(NamesFrom(heap, heap[new].states)) \in Seq(Items)
      BY <1>1, Reading, ReadAll
    <3>2. Head(todo) \in ToSet(Object.states)
      BY <1>1, <3>1, Reading, HeadIsRead DEF DevInv, ReadSoFar
    <3> QED BY <1>2, <3>2 DEF MakesDevice
  <2>2. NewAndCommands \subseteq {new} \cup ItemsIn(heap, new) /\ new \in NewAndCommands
    BY DEF NewAndCommands, ItemsIn, CellsFrom, Walk
  <2> QED BY <1>1, <1>2, <2>1, <2>2, Reading, SkipStep
<1>3. CASE Abort
  BY <1>1, <1>3, AbortStep
<1>4. CASE Head(todo) \in Names /\ Chain("states", "state")
  BY <1>1, <1>4, ChainStateStep
<1> QED BY <1>2, <1>3, <1>4 DEF ReadState

LEMMA StatesBegin ==
  ASSUME DevInv, pc = "commands", todo = <<>>,
         Object.states \notin {NULL, NotArray},
         heap' = WithStates(heap, new, NULL),
         pc' = "states", todo' = Object.states,
         UNCHANGED <<devices_list, done, new>>, Scanning
  PROVE  DevInv'
<1> DEFINE q == heap[new].commands
<1>1. /\ First' = First /\ Object' = Object /\ offered' = offered
      /\ answer' = answer /\ done' = done /\ new' = new
  BY Reading DEF First, Scanning, Object
<1>2. /\ heap' \in Heaps /\ \A y \in Cells \ {new} : heap'[y] = heap[y]
      /\ Holds(heap', new, "device") /\ heap'[new].states = NULL
      /\ heap'[new].label = heap[new].label /\ heap'[new].url = heap[new].url
      /\ heap'[new].commands = q
  <2>1. NULL \in Pointers /\ heap \in Heaps /\ new \in Cells /\ Holds(heap, new, "device")
    BY Reading DEF Pointers
  <2> QED BY <2>1, HeapWithStates
<1>3. Chained(heap, q, "command") /\ NamesFrom(heap, q) \in Seq(Items)
  BY Reading
<1>4. Reverse(NamesFrom(heap, q)) \o <<>> = Object.commands
  BY DEF DevInv, ReadSoFar
<1> HIDE DEF q
<1>5. /\ Chained(heap', q, "command") /\ CellsFrom(heap', q) = CellsFrom(heap, q)
      /\ NamesFrom(heap', q) = NamesFrom(heap, q)
  <2>1. heap \in Heaps /\ \A y \in CellsFrom(heap, q) : y \in Cells /\ y # new
    BY <1>3, Reading, ListCells DEF Holds
  <2>2. \A y \in CellsFrom(heap, q) : heap'[y] = heap[y]
    BY <1>2, <2>1
  <2> QED BY <1>2, <1>3, <2>1, <2>2, SameNames
<1>6. /\ Chained(heap', NULL, "state") /\ CellsFrom(heap', NULL) = {}
      /\ NamesFrom(heap', NULL) = <<>>
  BY <1>2, EmptyList, EmptyNames
<1>7. /\ ListWhole' /\ NothingShared' /\ NoDeviceLost'
      /\ new' \notin CellsFrom(heap', First')
      /\ View(heap', First') = View(heap, First)
  <2>1. \A y \in Cells : heap'[y] # heap[y] => heap[y] = Free \/ y = new
    BY <1>2
  <2>2. \A y \in Cells : Holds(heap', y, "device") <=> Holds(heap, y, "device") \/ y = new'
    BY <1>1, <1>2, Reading DEF Holds
  <2>3. \A y \in ItemsIn(heap', new') : heap[y] = Free \/ (new # NULL /\ y \in ItemsIn(heap, new))
    BY <1>1, <1>2, <1>5, <1>6, Reading DEF ItemsIn, q
  <2> QED BY <1>1, <1>2, <2>1, <2>2, <2>3, Reading, NewChanged
<1>8. NewWhole'
  BY <1>1, <1>2, <1>5, <1>6, <1>7, Reading DEF NewWhole
<1>9. Object.states \in Seq(Items)
  BY Reading, ObjectTyped DEF DevInv
<1>10. Typed'
  <2>1. heap' \in [Cells -> {Free} \cup DeviceCells \cup ItemCells]
    BY <1>2 DEF Heaps
  <2> QED BY <1>1, <1>9, <2>1 DEF DevInv, Typed, TypeOK, Scanning
<1>11. ReadSoFar'
  <2>1. NamesFrom(heap', q) = Reverse(Object.commands)
    BY <1>3, <1>4, <1>5, ReadAll
  <2>2. Reverse(<<>>) \o todo' = Object.states
    <3>1. Reverse(<<>>) = <<>>
      BY DEF Reverse
    <3> QED BY <1>9, <3>1
  <2> QED BY <1>1, <1>2, <1>6, <2>1, <2>2 DEF DevInv, ReadSoFar
<1>12. ListIsAnswer' /\ OffersSoFar'
  BY <1>1, <1>7, Reading DEF DevInv, ListIsAnswer, OffersSoFar
<1> QED BY <1>7, <1>8, <1>10, <1>11, <1>12 DEF DevInv

LEMMA StartStatesStep ==
  ASSUME DevInv, StartStates
  PROVE  DevInv'
<1>1. pc = "commands" /\ todo = <<>> /\ Scanning
  BY DEF StartStates
<1>2. CASE Object.states \in {NULL, NotArray} /\ Skip(NewAndCommands)
  <2>1. ~MakesDevice(Object)
    BY <1>2 DEF MakesDevice
  <2>2. NewAndCommands \subseteq {new} \cup ItemsIn(heap, new) /\ new \in NewAndCommands
    BY DEF NewAndCommands, ItemsIn, CellsFrom, Walk
  <2> QED BY <1>1, <1>2, <2>1, <2>2, Reading, SkipStep
<1>3. CASE /\ Object.states \notin {NULL, NotArray}
           /\ heap' = [heap EXCEPT ![new].states = NULL]
           /\ pc' = "states" /\ todo' = Object.states
           /\ UNCHANGED <<devices_list, done, new>>
  BY <1>1, <1>3, StatesBegin DEF WithStates
<1> QED BY <1>2, <1>3 DEF StartStates

LEMMA LinkDeviceStep ==
  ASSUME DevInv, LinkDevice
  PROVE  DevInv'
<1> DEFINE p == devices_list
<1>1. /\ pc = "states" /\ todo = <<>> /\ Scanning
      /\ heap' = [heap EXCEPT ![new].next = p]
      /\ devices_list' = new /\ pc' = "object" /\ done' = done + 1 /\ new' = NULL
      /\ todo' = todo /\ answer' = answer /\ offered' = offered
  BY DEF LinkDevice, Scanning
<1>2. First = p /\ First' = new
  BY <1>1 DEF First
<1>3. /\ heap' \in Heaps /\ \A y \in Cells \ {new} : heap'[y] = heap[y]
      /\ Holds(heap', new, "device") /\ heap'[new].next = p
      /\ heap'[new].label = heap[new].label /\ heap'[new].url = heap[new].url
      /\ heap'[new].commands = heap[new].commands /\ heap'[new].states = heap[new].states
  <2>1. p \in Pointers /\ heap \in Heaps /\ new \in Cells /\ Holds(heap, new, "device")
    BY <1>1, Reading, HeapTyped DEF Pointers, DevInv
  <2>2. heap' = WithNext(heap, new, p)
    BY <1>1 DEF WithNext
  <2> HIDE DEF p
  <2> QED BY <2>1, <2>2, HeapWithNext
<1>4. new \notin Others /\ \A c \in {new} \cup ItemsIn(heap, new) :
        c \notin Others /\ \A d \in Others : c \notin ItemsIn(heap, d)
  BY <1>1, Reading, NewApart
<1>5. /\ Chained(heap', p, "device") /\ CellsFrom(heap', p) = Others
      /\ \A d \in Others : Whole(heap', d) /\ ItemsIn(heap', d) = ItemsIn(heap, d)
      /\ View(heap', p) = View(heap, First)
  BY <1>2, <1>3, <1>4, OthersStay
<1> HIDE DEF p
<1>6. Whole(heap, new)
  BY <1>1, Reading DEF Whole
<1>7. Whole(heap', new) /\ ItemsIn(heap', new) = ItemsIn(heap, new) /\ ViewOf(heap', new) = ViewOf(heap, new)
  <2>1. heap \in Heaps /\ \A c \in ItemsIn(heap, new) : c \in Cells /\ c # new
    BY <1>1, <1>6, Reading, ItemsAreItems DEF Whole
  <2>2. \A c \in ItemsIn(heap, new) : heap'[c] = heap[c]
    BY <1>3, <2>1
  <2> QED BY <1>3, <1>6, <2>1, <2>2, SameDevice
<1>8. /\ Chained(heap', new, "device")
      /\ WalkIn(heap', new) = <<new>> \o WalkIn(heap', p)
      /\ CellsFrom(heap', new) = {new} \cup Others
  <2>1. new \in Cells
    BY <1>1, Reading
  <2> QED BY <1>3, <1>4, <1>5, <2>1, LongerList
<1>9. ListWhole'
  BY <1>2, <1>5, <1>7, <1>8 DEF ListWhole
<1>10. NewWhole' /\ ReadSoFar' /\ OffersSoFar'
  BY <1>1, Reading DEF NewWhole, ReadSoFar, OffersSoFar
<1>11. NothingShared'
  <2>1. \A d, e \in Others \cup ({new} \ {NULL}) :
          d # e => ItemsIn(heap, d) \cap ItemsIn(heap, e) = {}
    BY DEF DevInv, NothingShared, Others
  <2>2. CellsFrom(heap', First') \cup ({new'} \ {NULL}) = Others \cup ({new} \ {NULL})
    BY <1>1, <1>2, <1>8, Reading
  <2>3. \A d \in Others \cup ({new} \ {NULL}) : ItemsIn(heap', d) = ItemsIn(heap, d)
    BY <1>5, <1>7
  <2> QED BY <2>1, <2>2, <2>3 DEF NothingShared
<1>12. NoDeviceLost'
  <2>1. {c \in Cells : Holds(heap, c, "device")} = Others \cup ({new} \ {NULL})
    BY DEF DevInv, NoDeviceLost, IsA, Holds, Owned, Listed, Walk, Others, CellsFrom, First
  <2>2. \A c \in Cells : Holds(heap', c, "device") <=> Holds(heap, c, "device")
    BY <1>1, <1>3, Reading DEF Holds
  <2>3. Owned' = CellsFrom(heap', First') \cup ({new'} \ {NULL})
    BY DEF Owned, Listed, Walk, CellsFrom, First
  <2>4. {c \in Cells : Holds(heap', c, "device")} = CellsFrom(heap', First') \cup ({new'} \ {NULL})
    BY <1>1, <1>2, <1>8, <2>1, <2>2, Reading
  <2> QED BY <2>3, <2>4 DEF NoDeviceLost, IsA, Holds
<1>13. ViewOf(heap, new) = DeviceOf(Object) /\ MakesDevice(Object)
  <2> DEFINE a == NamesFrom(heap, heap[new].commands)
             b == NamesFrom(heap, heap[new].states)
  <2>1. a \in Seq(Names) /\ b \in Seq(Names)
    BY <1>1, Reading
  <2>2. /\ Object # NULL /\ Object.commands \notin {NULL, NotArray} /\ Object.states \notin {NULL, NotArray}
        /\ heap[new].label = Underscored(Object.label) /\ heap[new].url = Object.url
        /\ a = Reverse(Object.commands) /\ Reverse(b) \o <<>> = Object.states
    BY <1>1 DEF DevInv, ReadSoFar
  <2>3. Object.commands \in Seq(Items)
    BY <1>1, Reading
  <2> HIDE DEF a, b
  <2>4. Object.commands = Reverse(a) /\ b = Reverse(Object.states) /\ Object.states = Reverse(b)
    BY <2>1, <2>2, <2>3, ReadAll
  <2>5. Object.commands \in Seq(Names) /\ Object.states \in Seq(Names)
    BY <2>1, <2>4, ReadAll
  <2>6. NULL \notin ToSet(Object.commands) \cup ToSet(Object.states)
    BY <2>5, AnswersAssumption DEF ToSet
  <2> QED BY <2>2, <2>4, <2>6 DEF ViewOf, DeviceOf, MakesDevice, a, b
<1>14. done \in Nat /\ done + 1 \in 1 .. Len(answer) /\ (done + 1) - 1 = done
  <2>1. done \in 0 .. Len(answer) /\ Len(answer) \in Nat /\ done < Len(answer)
    BY <1>1, Reading DEF DevInv, Typed, TypeOK
  <2> QED BY <2>1
<1>15. ListIsAnswer'
  <2>1. Made(answer)[done + 1] = <<DeviceOf(Object)>> \o Made(answer)[(done + 1) - 1]
    BY <1>13, <1>14, MadeBySteps DEF DevInv, Typed, Object
  <2>2. View(heap, First) = Made(answer)[done]
    BY <1>1 DEF DevInv, ListIsAnswer
  <2>3. View(heap', new) = <<ViewOf(heap', new)>> \o View(heap', heap'[new].next)
    <3>1. WalkIn(heap', p) \in Seq(Cells)
      BY <1>5, ListCells
    <3> QED BY <1>3, <1>8, <3>1, ViewOfLonger
  <2>4. View(heap', new) = Made(answer)[done + 1]
    BY <1>3, <1>5, <1>7, <1>13, <1>14, <2>1, <2>2, <2>3
  <2> QED BY <1>1, <1>2, <2>4 DEF ListIsAnswer
<1>16. Typed'
  <2>1. heap' \in [Cells -> {Free} \cup DeviceCells \cup ItemCells]
    BY <1>3 DEF Heaps
  <2>2. done' \in 0 .. Len(answer')
    BY <1>1, <1>14
  <2> QED BY <1>1, <2>1, <2>2, Reading DEF DevInv, Typed, TypeOK, Scanning
<1> QED BY <1>9, <1>10, <1>11, <1>12, <1>15, <1>16 DEF DevInv

LEMMA ScanReturnsStep ==
  ASSUME DevInv, ScanReturns
  PROVE  DevInv'
<1> USE DEF ScanReturns, Scanning
<1>1. First' = First /\ new = NULL /\ pc' = "prompt"
  BY DEF First, DevInv, NewWhole
<1>2. ListWhole' /\ NothingShared' /\ NoDeviceLost'
  BY <1>1, SameMemory
<1>3. Typed' /\ NewWhole' /\ ReadSoFar' /\ OffersSoFar'
  BY <1>1 DEF DevInv, Typed, TypeOK, NewWhole, ReadSoFar, OffersSoFar
<1>4. ListIsAnswer'
  BY <1>1 DEF DevInv, ListIsAnswer
<1> QED BY <1>2, <1>3, <1>4 DEF DevInv

-----------------------------------------------------------------------------
(* Lookups and completion *)

Values == {Underscored(l) : l \in Labels} \cup DevURLs \cup Names
Fields == {"label", "url", "commands", "states"}

(* What NamesOf gives, in a heap h. *)
Offered(h, list, field) == [i \in DOMAIN list |-> NameIn(h[list[i]], field)]

(* The device that a lookup finds is listed. *)
LEMMA FoundIsListed ==
  ASSUME DevInv, NEW field, NEW key, Find(field, key) # NULL, pc # "freeing"
  PROVE  Find(field, key) \in CellsFrom(heap, devices_list)
<1> DEFINE s == Walk(devices_list)
           I == {i \in 1 .. Len(s) : heap[s[i]][field] = key}
           n == SelectInSeq(s, LAMBDA d : heap[d][field] = key)
<1>1. Len(s) \in Nat /\ DOMAIN s = 1 .. Len(s) /\ CellsFrom(heap, devices_list) = ToSet(s)
  BY ListCells DEF DevInv, ListWhole, First, Walk, CellsFrom
<1>2. n = IF I # {} THEN Min(I) ELSE 0
  BY DEF SelectInSeq
<1>3. Find(field, key) = IF n = 0 THEN NULL ELSE s[n]
  BY DEF Find
<1> HIDE DEF n, s
<1>4. n # 0 => n \in I
  <2>1. I \in SUBSET Nat
    BY <1>1
  <2> HIDE DEF I
  <2> QED BY <1>2, <2>1, LeastNumber
<1>5. n # 0 => n \in DOMAIN s
  BY <1>1, <1>4
<1> QED BY <1>1, <1>3, <1>5 DEF ToSet

LEMMA OfferedTyped ==
  ASSUME NEW h \in Heaps, NEW p, NEW field \in Fields, Chained(h, p, KindOf(field))
  PROVE  Offered(h, WalkIn(h, p), field) \in Seq(Values)
<1> DEFINE s == WalkIn(h, p)
<1>1. s \in Seq(Cells) /\ Len(s) \in Nat /\ DOMAIN s = 1 .. Len(s)
  BY ListCells
<1>2. \A i \in 1 .. Len(s) : s[i] \in Cells /\ Holds(h, s[i], KindOf(field))
  BY <1>1, ListCells DEF CellsFrom, ToSet
<1>3. ASSUME NEW c \in Cells, Holds(h, c, KindOf(field))
      PROVE  NameIn(h[c], field) \in Values
  BY <1>3 DEF Holds, Heaps, DeviceCells, ItemCells, KindOf, Fields, NameIn, Values
<1>4. \A i \in 1 .. Len(s) : NameIn(h[s[i]], field) \in Values
  BY <1>2, <1>3
<1> HIDE DEF s
<1>5. [i \in 1 .. Len(s) |-> NameIn(h[s[i]], field)] \in Seq(Values)
  BY <1>1, <1>4
<1> QED BY <1>1, <1>5 DEF Offered, s

LEMMA OfferedOne ==
  ASSUME NEW h \in Heaps, NEW p, NEW field \in Fields, Chained(h, p, KindOf(field)), p # NULL
  PROVE  /\ NameIn(h[p], field) \in Values
         /\ Chained(h, h[p].next, KindOf(field))
         /\ Offered(h, WalkIn(h, p), field) =
              <<NameIn(h[p], field)>> \o Offered(h, WalkIn(h, h[p].next), field)
<1> DEFINE v(c) == NameIn(h[c], field)
           s == WalkIn(h, p)
           t == WalkIn(h, h[p].next)
           a == Offered(h, s, field)
           b == Offered(h, t, field)
<1>1. /\ s = <<p>> \o t /\ Chained(h, h[p].next, KindOf(field)) /\ t \in Seq(Cells)
      /\ Len(t) \in Nat /\ DOMAIN t = 1 .. Len(t)
  BY RestOfList, ListCells
<1>2. a \in Seq(Values) /\ b \in Seq(Values)
  BY <1>1, OfferedTyped
<1> HIDE DEF s, t
<1>3. /\ DOMAIN s = 1 .. Len(t) + 1 /\ s[1] = p
      /\ \A i \in 2 .. Len(t) + 1 : s[i] = t[i - 1]
  BY <1>1
<1>4. /\ DOMAIN a = 1 .. Len(t) + 1 /\ a[1] = v(p) /\ DOMAIN b = 1 .. Len(t)
      /\ \A i \in 2 .. Len(t) + 1 : a[i] = v(t[i - 1])
      /\ \A i \in 1 .. Len(t) : b[i] = v(t[i])
  BY <1>1, <1>3 DEF Offered
<1> HIDE DEF a, b, v
<1>5. Len(b) = Len(t) /\ Len(a) = Len(t) + 1
  BY <1>1, <1>2, <1>4
<1>6. v(p) \in Values
  BY <1>2, <1>1, <1>4, <1>5
<1> DEFINE x == <<v(p)>> \o b
<1>7. /\ x \in Seq(Values) /\ Len(x) = Len(t) + 1 /\ x[1] = v(p)
      /\ \A i \in 2 .. Len(t) + 1 : x[i] = b[i - 1]
  BY <1>1, <1>2, <1>5, <1>6
<1> HIDE DEF x
<1>8. ASSUME NEW i \in 1 .. Len(t) + 1
      PROVE  x[i] = a[i]
  <2>1. i = 1 \/ (i \in 2 .. Len(t) + 1 /\ i - 1 \in 1 .. Len(t))
    BY <1>1
  <2>2. CASE i = 1
    BY <1>4, <1>7, <2>2
  <2>3. CASE i \in 2 .. Len(t) + 1 /\ i - 1 \in 1 .. Len(t)
    <3>1. x[i] = b[i - 1] /\ b[i - 1] = v(t[i - 1]) /\ a[i] = v(t[i - 1])
      BY <1>4, <1>7, <2>3
    <3> QED BY <3>1
  <2> QED BY <2>1, <2>2, <2>3
<1>9. x = a
  BY <1>2, <1>5, <1>7, <1>8
<1> QED BY <1>1, <1>6, <1>9 DEF a, b, s, t, x, v

LEMMA CommandRows ==
  ASSUME NEW row \in Commands
  PROVE  /\ row.devarg \in {"url", "label"}
         /\ row.autofunc # "none" => row.autofunc \in {"commands", "states"}
BY DEF Commands, Row

LEMMA InternalDevsStep ==
  ASSUME DevInv, NEW field, NEW key, internal_Devs(field, key)
  PROVE  DevInv'
<1> USE DEF internal_Devs
<1>1. First' = First /\ new = NULL
  BY DEF First, DevInv, NewWhole
<1>2. ListWhole' /\ NothingShared' /\ NoDeviceLost'
  BY <1>1, SameMemory
<1>3. dev' \in Cells \cup {NULL}
  <2>1. CellsFrom(heap, devices_list) \subseteq Cells
    BY ListCells DEF DevInv, ListWhole, First
  <2> QED BY <2>1, FoundIsListed
<1>4. Typed'
  BY <1>3 DEF DevInv, Typed, TypeOK
<1>5. NewWhole' /\ ReadSoFar' /\ ListIsAnswer' /\ OffersSoFar'
  BY <1>1 DEF DevInv, NewWhole, ReadSoFar, ListIsAnswer, OffersSoFar
<1> QED BY <1>2, <1>4, <1>5 DEF DevInv

(* A completion begins with a list from the first cell on. *)
LEMMA OffersBegin ==
  ASSUME DevInv, pc = "prompt", pc' = "offering", NEW row \in Commands, NEW field \in Fields,
         asked' = [row |-> row, field |-> field], dev' \in Cells \cup {NULL},
         UNCHANGED <<heap, devices_list, answer, done, new, todo, offered>>,
         Chained(heap, cursor', KindOf(field)),
         field \in {"commands", "states"} => dev' \in CellsFrom(heap, devices_list),
         cursor' = IF field \in {"label", "url"} THEN devices_list ELSE heap[dev'][field]
  PROVE  DevInv'
<1>1. First' = First /\ new = NULL /\ First = devices_list /\ offered = <<>> /\ heap \in Heaps
  BY HeapTyped DEF First, DevInv, NewWhole, OffersSoFar
<1>2. ListWhole' /\ NothingShared' /\ NoDeviceLost'
  BY <1>1, SameMemory
<1>3. cursor' \in Cells \cup {NULL}
  BY ListCells
<1>4. Typed'
  BY <1>3 DEF DevInv, Typed, TypeOK, Fields
<1>5. NewWhole' /\ ReadSoFar'
  BY <1>1 DEF NewWhole, ReadSoFar
<1>6. ListIsAnswer'
  BY <1>1 DEF DevInv, ListIsAnswer
<1>7. OffersSoFar'
  <2>1. Candidates' = WalkIn(heap, cursor') /\ Walk(cursor)' = WalkIn(heap, cursor')
    BY DEF Candidates, Walk
  <2>2. NamesOf(Walk(cursor))' = Offered(heap, WalkIn(heap, cursor'), field)
    BY DEF NamesOf, Walk, Offered
  <2>3. NamesOf(Candidates)' = Offered(heap, WalkIn(heap, cursor'), field)
    BY <2>1 DEF NamesOf, Offered
  <2>4. Offered(heap, WalkIn(heap, cursor'), field) \in Seq(Values)
    BY <1>1, OfferedTyped
  <2>5. (offered \o NamesOf(Walk(cursor)))' = NamesOf(Candidates)'
    BY <1>1, <2>2, <2>3, <2>4
  <2> QED BY <2>5 DEF OffersSoFar
<1> QED BY <1>2, <1>4, <1>5, <1>6, <1>7 DEF DevInv

LEMMA CompleteDeviceStep ==
  ASSUME DevInv, NEW row \in Commands, CompleteDevice(row)
  PROVE  DevInv'
<1>1. row.devarg \in {"label", "url"} /\ row.devarg \in Fields
  BY CommandRows DEF Fields
<1>2. KindOf(row.devarg) = "device"
  BY <1>1 DEF KindOf
<1>3. Chained(heap, devices_list, "device")
  BY DEF CompleteDevice, DevInv, ListWhole, First
<1>4. dev' \in Cells \cup {NULL}
  BY DEF CompleteDevice, DevInv, Typed, TypeOK
<1> QED BY <1>1, <1>2, <1>3, <1>4, OffersBegin DEF CompleteDevice

LEMMA CompleteItemStep ==
  ASSUME DevInv, NEW row \in Commands, NEW key, CompleteItem(row, key)
  PROVE  DevInv'
<1> DEFINE d == Find(row.devarg, key)
<1>1. /\ pc = "prompt" /\ row.autofunc \in {"commands", "states"} /\ dev' = d
      /\ UNCHANGED <<heap, devices_list, answer, done, new, todo, offered>>
  BY CommandRows DEF CompleteItem
<1>2. d # NULL => d \in CellsFrom(heap, devices_list)
  BY <1>1, FoundIsListed
<1>3. CASE d # NULL
  <2>1. d \in CellsFrom(heap, devices_list) /\ d \in Cells /\ Whole(heap, d)
    BY <1>1, <1>2, <1>3, ListCells DEF DevInv, ListWhole, First
  <2>2. /\ pc' = "offering" /\ cursor' = heap[d][row.autofunc]
        /\ asked' = [row |-> row, field |-> row.autofunc]
    BY <1>3 DEF CompleteItem
  <2> HIDE DEF d
  <2>3. Chained(heap, heap[d][row.autofunc], KindOf(row.autofunc))
    <3>1. CASE row.autofunc = "commands"
      BY <2>1, <3>1 DEF Whole, KindOf
    <3>2. CASE row.autofunc = "states"
      BY <2>1, <3>2 DEF Whole, KindOf
    <3> QED BY <1>1, <3>1, <3>2
  <2>4. row.autofunc \in Fields /\ row.autofunc \notin {"label", "url"}
    BY <1>1 DEF Fields
  <2> QED BY <1>1, <2>1, <2>2, <2>3, <2>4, OffersBegin
<1>4. CASE d = NULL
  <2>1. UNCHANGED <<pc, cursor, asked>> /\ dev' = NULL
    BY <1>4 DEF CompleteItem
  <2> HIDE DEF d
  <2>2. First' = First /\ new = NULL
    BY <1>1, <2>1 DEF First, DevInv, NewWhole
  <2>3. ListWhole' /\ NothingShared' /\ NoDeviceLost'
    BY <1>1, <2>2, SameMemory
  <2>4. Typed'
    BY <1>1, <2>1 DEF DevInv, Typed, TypeOK
  <2>5. NewWhole' /\ ReadSoFar' /\ ListIsAnswer' /\ OffersSoFar'
    BY <1>1, <2>1, <2>2 DEF DevInv, NewWhole, ReadSoFar, ListIsAnswer, OffersSoFar
  <2> QED BY <2>3, <2>4, <2>5 DEF DevInv
<1> QED BY <1>3, <1>4

LEMMA GeneratorStep ==
  ASSUME DevInv, Generator
  PROVE  DevInv'
<1> DEFINE f == asked.field
<1>1. /\ pc = "offering" /\ new = NULL /\ First = devices_list /\ f \in Fields /\ heap \in Heaps
      /\ UNCHANGED <<heap, devices_list, answer, done, new, todo, dev>>
  BY HeapTyped DEF Generator, DevInv, NewWhole, First, Typed, TypeOK, Fields
<1>2. pc' \in {"offering", "prompt"} /\ First' = First
  BY <1>1 DEF Generator, First
<1>3. ListWhole' /\ NothingShared' /\ NoDeviceLost'
  BY <1>1, <1>2, SameMemory
<1>4. NewWhole' /\ ReadSoFar' /\ ListIsAnswer'
  BY <1>1, <1>2 DEF DevInv, NewWhole, ReadSoFar, ListIsAnswer
<1>5. CASE cursor # NULL
  <2> DEFINE v == NameIn(heap[cursor], f)
             n == heap[cursor].next
  <2>1. offered' = Append(offered, v) /\ cursor' = n /\ pc' = pc /\ asked' = asked
    BY <1>5 DEF Generator
  <2>2. Chained(heap, cursor, KindOf(f))
    BY <1>1 DEF DevInv, OffersSoFar
  <2>3. offered \in Seq(Values)
    BY DEF DevInv, Typed, Values
  <2>4. /\ v \in Values /\ Chained(heap, n, KindOf(f))
        /\ Offered(heap, WalkIn(heap, cursor), f) = <<v>> \o Offered(heap, WalkIn(heap, n), f)
    BY <1>1, <1>5, <2>2, OfferedOne
  <2>5. Offered(heap, WalkIn(heap, n), f) \in Seq(Values) /\ n \in Cells \cup {NULL}
    BY <1>1, <2>4, OfferedTyped, ListCells
  <2> HIDE DEF v, n, f
  <2>6. Typed'
    <3>1. offered' \in Seq(Values)
      BY <2>1, <2>3, <2>4
    <3>2. offered' \in Seq({Underscored(l) : l \in Labels} \cup DevURLs \cup Names)
      BY <3>1 DEF Values
    <3>3. \A i \in DOMAIN offered' : offered'[i] \in Values
      BY <3>1
    <3>4. \A i \in DOMAIN offered' : offered'[i] \in {Underscored(l) : l \in Labels} \cup DevURLs \cup Names
      BY <3>3 DEF Values
    <3> QED BY <1>1, <2>1, <2>5, <3>2, <3>4 DEF DevInv, Typed, TypeOK
  <2>7. NamesOf(Walk(cursor))' = Offered(heap, WalkIn(heap, n), f)
    BY <1>1, <2>1 DEF NamesOf, Walk, Offered, f
  <2>8. NamesOf(Candidates)' = NamesOf(Candidates)
    BY <1>1, <2>1 DEF NamesOf, Candidates, Walk
  <2>9. offered \o Offered(heap, WalkIn(heap, cursor), f) = NamesOf(Candidates)
    BY <1>1 DEF DevInv, OffersSoFar, NamesOf, Offered, Walk, f
  <2>10. offered' \o Offered(heap, WalkIn(heap, n), f) = offered \o (<<v>> \o Offered(heap, WalkIn(heap, n), f))
    <3> DEFINE r == Offered(heap, WalkIn(heap, n), f)
    <3>1. r \in Seq(Values)
      BY <2>5
    <3> HIDE DEF r
    <3>2. Append(offered, v) \o r = offered \o (<<v>> \o r)
      BY <2>3, <2>4, <3>1
    <3> QED BY <2>1, <3>2 DEF r
  <2>11. (offered \o NamesOf(Walk(cursor)))' = NamesOf(Candidates)'
    BY <2>4, <2>7, <2>8, <2>9, <2>10
  <2>12. OffersSoFar'
    BY <1>1, <2>1, <2>4, <2>11 DEF DevInv, OffersSoFar, f
  <2> QED BY <1>3, <1>4, <2>6, <2>12 DEF DevInv
<1>6. CASE cursor = NULL
  <2>1. offered' = <<>> /\ asked' = NotAsked /\ pc' = "prompt" /\ cursor' = cursor
    BY <1>6 DEF Generator
  <2>2. NotAsked \in [row : Commands, field : {"label", "url", "commands", "states"}]
    BY DEF NotAsked, Commands
  <2>3. Typed'
    BY <1>1, <2>1, <2>2 DEF DevInv, Typed, TypeOK
  <2>4. OffersSoFar'
    BY <2>1 DEF OffersSoFar
  <2> QED BY <1>3, <1>4, <2>3, <2>4 DEF DevInv
<1> QED BY <1>5, <1>6

LEMMA StepDev == DevInv /\ [Next]_devVars => DevInv'
<1> SUFFICES ASSUME DevInv, [Next]_devVars PROVE DevInv'
  OBVIOUS
<1>1. ASSUME NEW a \in Answers, func_scandevs(a) PROVE DevInv'
  BY <1>1, ScandevsStep
<1>2. CASE freeDeviceList
  BY <1>2, FreeStep
<1>3. CASE StartDevice
  BY <1>3, StartDeviceStep
<1>4. CASE ReadCommand
  BY <1>4, ReadCommandStep
<1>5. CASE StartStates
  BY <1>5, StartStatesStep
<1>6. CASE ReadState
  BY <1>6, ReadStateStep
<1>7. CASE LinkDevice
  BY <1>7, LinkDeviceStep
<1>8. CASE ScanReturns
  BY <1>8, ScanReturnsStep
<1>9. ASSUME NEW field \in {"label", "url"}, NEW key \in Keys(field), internal_Devs(field, key)
      PROVE  DevInv'
  BY <1>9, InternalDevsStep
<1>10. ASSUME NEW row \in Commands, CompleteDevice(row) PROVE DevInv'
  BY <1>10, CompleteDeviceStep
<1>11. ASSUME NEW row \in Commands, NEW key \in Keys(row.devarg), CompleteItem(row, key)
       PROVE  DevInv'
  BY <1>11, CompleteItemStep
<1>12. CASE Generator
  BY <1>12, GeneratorStep
<1>13. CASE UNCHANGED devVars
  <2> USE DEF devVars
  <2>1. First' = First
    BY <1>13 DEF First
  <2>2. ListWhole' /\ NothingShared' /\ NoDeviceLost'
    BY <1>13, <2>1, SameMemory
  <2>3. Typed' /\ NewWhole' /\ ListIsAnswer'
    BY <1>13, <2>1 DEF DevInv, Typed, TypeOK, NewWhole, ListIsAnswer
  <2>4. ReadSoFar'
    BY <1>13 DEF DevInv, ReadSoFar, Object
  <2>5. OffersSoFar'
    BY <1>13 DEF DevInv, OffersSoFar, NamesOf, Candidates, Walk
  <2> QED BY <2>2, <2>3, <2>4, <2>5 DEF DevInv
<1> QED BY <1>1, <1>2, <1>3, <1>4, <1>5, <1>6, <1>7, <1>8, <1>9, <1>10, <1>11, <1>12, <1>13 DEF Next

-----------------------------------------------------------------------------
(* What follows from the invariant *)

LEMMA ChainedIsChain ==
  ASSUME NEW p, NEW kind, Chained(heap, p, kind)
  PROVE  IsChain(p, kind)
<1> DEFINE s == WalkIn(heap, p)
<1>1. s \in Seq(Cells) /\ Len(s) \in Nat /\ p # Junk /\ \A c \in CellsFrom(heap, p) : Holds(heap, c, kind)
  BY ListCells, MemoryAssumption
<1>2. IsInjective(s)
  BY DEF Chained, List
<1>3. \A i \in 1 .. Len(s) : heap[s[i]].next = IF i = Len(s) THEN NULL ELSE s[i + 1]
  BY DEF Chained, List
<1> HIDE DEF s
<1>4. s # <<>> => Len(s) \in 1 .. Len(s)
  BY <1>1
<1>5. s # <<>> => heap[Last(s)].next = NULL
  BY <1>3, <1>4 DEF Last
<1> QED BY <1>1, <1>2, <1>5 DEF IsChain, Walk, CellsFrom, IsA, Holds, s

LEMMA SoundHeap == DevInv => HeapSound
<1> SUFFICES ASSUME DevInv PROVE HeapSound
  OBVIOUS
<1>1. Owned = Others \cup ({new} \ {NULL})
  BY DEF Owned, Listed, Walk, Others, CellsFrom, First
<1>2. IsChain(First, "device")
  BY ChainedIsChain DEF DevInv, ListWhole
<1>3. ASSUME NEW d \in Owned
      PROVE  /\ IsA("device", d) /\ IsChain(heap[d].commands, "command")
             /\ (d = new /\ pc # "states" /\ heap[d].states = Junk) \/ IsChain(heap[d].states, "state")
  <2>1. CASE d \in Others
    BY <2>1, OwnedItems, ChainedIsChain DEF Whole, IsA, Holds
  <2>2. CASE d = new /\ new # NULL
    BY <2>2, ChainedIsChain DEF DevInv, NewWhole, IsA, Holds
  <2> QED BY <1>1, <2>1, <2>2
<1>4. \A d : ItemsOf(d) = ItemsIn(heap, d)
  BY HeapTyped, NoWalkFromJunk DEF DevInv, ItemsOf, ItemsIn, CellsFrom, Walk
<1>5. \A d, e \in Owned : d # e => ItemsOf(d) \cap ItemsOf(e) = {}
  BY <1>1, <1>4 DEF DevInv, NothingShared, Others
<1> QED BY <1>2, <1>3, <1>5 DEF HeapSound, First

LEMMA ListedIsMade == DevInv => InventoryIsAnswer
<1> SUFFICES ASSUME DevInv PROVE InventoryIsAnswer
  OBVIOUS
<1>1. Listed = WalkIn(heap, First)
  BY DEF Listed, Walk, First
<1>2. \A p : ItemNames(p) = NamesFrom(heap, p)
  BY DEF ItemNames, NamesFrom, Walk
<1>3. Inventory = View(heap, First)
  BY <1>1, <1>2 DEF Inventory, View, ViewOf
<1> QED BY <1>3, SoundHeap DEF DevInv, ListIsAnswer, InventoryIsAnswer

LEMMA OffersExact == DevInv => CompletionIsExact
BY SoundHeap DEF DevInv, OffersSoFar, CompletionIsExact, Listed, Walk, CellsFrom

-----------------------------------------------------------------------------
(* The theorems *)

(* The inductive invariant, from which the other theorems follow: what the
   scans, the lookups and the completions rely on at each turn of a loop. *)
THEOREM DevInvariant == Spec => []DevInv
BY InitDev, StepDev, PTL DEF Spec

(* TypeOK: pointers lead to cells or are NULL, and a cell holds nothing, a
   device or an item. *)
THEOREM DevTypeCorrect == Spec => []TypeOK
<1>1. DevInv => TypeOK
  BY DEF DevInv, Typed
<1> QED BY <1>1, DevInvariant, PTL

(* HeapSound: what the commands and the completion walk is always allocated
   memory, a chain of devices with chains of their own, whatever was freed and
   handed out again by the scans before. *)
THEOREM HeapAlwaysSound == Spec => []HeapSound
BY SoundHeap, DevInvariant, PTL

(* NoDeviceLost: however addDevice() leaves an object, the device it allocated
   is listed or freed. *)
THEOREM NoDeviceIsLost == Spec => []NoDeviceLost
<1>1. DevInv => NoDeviceLost
  BY DEF DevInv
<1> QED BY <1>1, DevInvariant, PTL

(* InventoryIsAnswer: the list is what the objects processed so far of the last
   answer make, the last one first, and nothing of the answers before. *)
THEOREM InventoryAlwaysAnswer == Spec => []InventoryIsAnswer
BY ListedIsMade, DevInvariant, PTL

(* CompletionIsExact: each completion offers each name of the list it was asked
   for, of a device that is still listed, once and in order. *)
THEOREM CompletionAlwaysExact == Spec => []CompletionIsExact
BY OffersExact, DevInvariant, PTL
=============================================================================
