---------------------------- MODULE PromptProofs ----------------------------
(***************************************************************************)
(* Proofs about Prompt, and about Words and Answers on which it is built:  *)
(* for lines of any length, any number of devices, any answer of any       *)
(* depth and any number of completions.                                    *)
(*                                                                         *)
(* The first parts are about what does not change: the words of a line,    *)
(* the displays of an answer, the effect of each command, the candidates   *)
(* of completion.  They meet in PromptInv, the inductive invariant: what   *)
(* was executed still has the effect that its command has on the devices   *)
(* as they are, and what was last offered is meant for the device that the *)
(* command of the present line finds.                                      *)
(***************************************************************************)
EXTENDS Prompt, Numbers, SequenceTheorems

-----------------------------------------------------------------------------
(* Words: what extractTokenSub() returns is a word, and the pointer it leaves
   is past it. *)

(* First finds the first of the characters, or the end. *)
LEMMA FirstFinds ==
  ASSUME NEW l \in Seq(Chars), NEW i \in 1 .. Len(l) + 1, NEW S
  PROVE  /\ First(l, i, S) \in i .. Len(l) + 1
         /\ \A j \in i .. First(l, i, S) - 1 : l[j] \notin S
         /\ First(l, i, S) <= Len(l) => l[First(l, i, S)] \in S
<1> DEFINE found == {j \in i .. Len(l) : l[j] \in S} \cup {Len(l) + 1}
<1>1. Len(l) \in Nat
  OBVIOUS
<1>2. found \in SUBSET Nat /\ found # {}
  BY <1>1
<1>3. /\ Min(found) \in found
      /\ \A n \in found : Min(found) <= n
  BY <1>2, LeastNumber
<1>4. First(l, i, S) = Min(found)
  BY DEF First
<1>5. First(l, i, S) \in i .. Len(l) + 1
  BY <1>1, <1>3, <1>4
<1>6. ASSUME NEW j \in i .. First(l, i, S) - 1
      PROVE  l[j] \notin S
  <2>1. j \in i .. Len(l) /\ ~ (First(l, i, S) <= j)
    BY <1>1, <1>5
  <2>2. j \notin found
    BY <1>3, <1>4, <2>1
  <2> QED BY <2>1, <2>2
<1>7. First(l, i, S) <= Len(l) => l[First(l, i, S)] \in S
  BY <1>1, <1>3, <1>4, <1>5
<1> QED BY <1>5, <1>6, <1>7

-----------------------------------------------------------------------------
(* Where the blank behind a token is, and what the pointer then is. *)
LEMMA TokenEnds ==
  ASSUME NEW l \in Seq(Chars), NEW i \in 1 .. Len(l) + 1
  PROVE  LET blank == First(l, i, Blanks)
             token == extractTokenSub(l, i)
         IN  /\ blank \in i .. Len(l) + 1
             /\ token.s = i /\ token.s + token.len = blank
             /\ blank > Len(l) => token.arg = 0
             /\ blank <= Len(l) => /\ blank + 1 \in 1 .. Len(l) + 1
                                  /\ token.arg = First(l, blank + 1, Graphs)
                                  /\ token.arg \in blank + 1 .. Len(l) + 1
<1> DEFINE blank == First(l, i, Blanks)
<1>1. Len(l) \in Nat
  OBVIOUS
<1>2. blank \in i .. Len(l) + 1
  BY FirstFinds
<1>3. blank <= Len(l) => blank + 1 \in 1 .. Len(l) + 1
  BY <1>1, <1>2
<1>4. blank <= Len(l) => First(l, blank + 1, Graphs) \in blank + 1 .. Len(l) + 1
  BY <1>3, FirstFinds
<1> HIDE DEF blank
<1>5. extractTokenSub(l, i)
      = [s |-> i, len |-> blank - i,
         arg |-> IF blank > Len(l) THEN 0 ELSE First(l, blank + 1, Graphs)]
  BY DEF extractTokenSub, blank
<1>6. i + (blank - i) = blank
  BY <1>1, <1>2
<1> QED BY <1>1, <1>2, <1>3, <1>4, <1>5, <1>6 DEF blank

(* extractTokenSub() leaves a pointer past the token, or a null one: whatever
   the characters of a line are, a loop that takes its tokens ends. *)
THEOREM PointerAdvances ==
  ASSUME NEW l \in Seq(Chars), NEW i \in 1 .. Len(l) + 1
  PROVE  LET next == extractTokenSub(l, i).arg
         IN  next = 0 \/ next \in i + 1 .. Len(l) + 1
<1>1. Len(l) \in Nat
  OBVIOUS
<1> QED BY <1>1, TokenEnds

(* At the beginning of a word extractTokenSub() finds that word, whole. *)
THEOREM TokenIsWord ==
  ASSUME NEW l \in Seq(Chars), NEW i \in 1 .. Len(l), WordAt(l, i)
  PROVE  LET token == extractTokenSub(l, i)
             end   == token.s + token.len
         IN  /\ token.s = i /\ token.len > 0
             /\ \A j \in i .. end - 1 : l[j] \notin Blanks
             /\ end <= Len(l) => l[end] \in Blanks
<1> DEFINE blank == First(l, i, Blanks)
<1>1. Len(l) \in Nat /\ i \in 1 .. Len(l) + 1
  OBVIOUS
<1>2. /\ blank \in i .. Len(l) + 1
      /\ \A j \in i .. blank - 1 : l[j] \notin Blanks
      /\ blank <= Len(l) => l[blank] \in Blanks
  BY <1>1, FirstFinds
<1>3. blank # i
  BY <1>2 DEF WordAt
<1>4. /\ extractTokenSub(l, i).s = i
      /\ extractTokenSub(l, i).s + extractTokenSub(l, i).len = blank
  BY <1>1, TokenEnds
<1>5. extractTokenSub(l, i).len = blank - i
  BY DEF extractTokenSub
<1> HIDE DEF blank
<1> QED BY <1>1, <1>2, <1>3, <1>4, <1>5

(* On a line of words and blanks the pointer behind a word stands on the next
   word, and on none when there is none: commands that go from one to the
   other take each word of the line, once and in order. *)
THEOREM NextIsNextWord ==
  ASSUME NEW l \in Seq(Chars), Plain(l), NEW i \in 1 .. Len(l), WordAt(l, i)
  PROVE  LET next == extractTokenSub(l, i).arg
         IN  IF More(l, next)
             THEN WordAt(l, next) /\ \A j \in i + 1 .. next - 1 : ~WordAt(l, j)
             ELSE \A j \in i + 1 .. Len(l) : ~WordAt(l, j)
<1> DEFINE blank == First(l, i, Blanks)
           next  == extractTokenSub(l, i).arg
<1>1. Len(l) \in Nat /\ i \in 1 .. Len(l) + 1
  OBVIOUS
<1>2. /\ blank \in i .. Len(l) + 1
      /\ \A j \in i .. blank - 1 : l[j] \notin Blanks
      /\ blank <= Len(l) => l[blank] \in Blanks
  BY <1>1, FirstFinds
<1>3. \A j \in i + 1 .. blank - 1 : ~WordAt(l, j)
  BY <1>1, <1>2 DEF WordAt
<1>4. \A j \in 1 .. Len(l) : l[j] \in Blanks \/ l[j] \in Graphs
  BY DEF Plain, Chars
<1>5. CASE blank > Len(l)
  <2>1. next = 0
    BY <1>1, <1>5, TokenEnds
  <2> HIDE DEF blank, next
  <2>2. \A j \in i + 1 .. Len(l) : ~WordAt(l, j)
    BY <1>1, <1>2, <1>3, <1>5
  <2>3. ~More(l, next)
    BY <2>1 DEF More
  <2> QED BY <2>2, <2>3 DEF next
<1>6. CASE blank <= Len(l)
  <2>1. /\ blank + 1 \in 1 .. Len(l) + 1
        /\ next = First(l, blank + 1, Graphs)
        /\ next \in blank + 1 .. Len(l) + 1
    BY <1>1, <1>6, TokenEnds
  <2>2. /\ \A j \in blank + 1 .. next - 1 : l[j] \notin Graphs
        /\ next <= Len(l) => l[next] \in Graphs
    BY <2>1, FirstFinds
  <2> HIDE DEF blank, next
  <2>3. \A j \in blank .. next - 1 : l[j] \in Blanks
    BY <1>1, <1>2, <1>4, <1>6, <2>1, <2>2
  <2>4. \A j \in i + 1 .. next - 1 : ~WordAt(l, j)
    BY <1>1, <1>2, <1>3, <2>1, <2>3 DEF WordAt
  <2>5. CASE next <= Len(l)
    <3>1. next - 1 \in blank .. next - 1
      BY <1>1, <1>2, <2>1
    <3>2. l[next - 1] \in Blanks /\ l[next] \notin Blanks
      BY <2>2, <2>3, <2>5, <3>1, CharsAssumption
    <3>3. WordAt(l, next)
      BY <1>1, <1>2, <2>1, <2>5, <3>2 DEF WordAt
    <3> QED BY <2>4, <2>5, <3>3, <1>1, <1>2, <2>1 DEF More, next
  <2>6. CASE next = Len(l) + 1
    <3>1. ~More(l, next)
      BY <2>6 DEF More
    <3>2. \A j \in i + 1 .. Len(l) : ~WordAt(l, j)
      BY <1>1, <2>4, <2>6
    <3> QED BY <3>1, <3>2 DEF next
  <2> QED BY <1>1, <1>2, <2>1, <2>5, <2>6
<1> QED BY <1>1, <1>2, <1>5, <1>6

(* A line that was typed is stripped of what cannot begin a command: it then
   begins with a word, or is empty. *)
THEOREM StrippedBegins ==
  ASSUME NEW l \in Seq(Chars), Stripped(l) # <<>>
  PROVE  Stripped(l) \in Seq(Chars) /\ WordAt(Stripped(l), 1)
<1> DEFINE from == First(l, 1, Graphs)
<1>1. Len(l) \in Nat /\ 1 \in 1 .. Len(l) + 1
  OBVIOUS
<1>2. /\ from \in 1 .. Len(l) + 1
      /\ from <= Len(l) => l[from] \in Graphs
  BY <1>1, FirstFinds
<1> HIDE DEF from
<1>3. Stripped(l) = SubSeq(l, from, Len(l))
  BY DEF Stripped, from
<1>4. from <= Len(l)
  BY <1>1, <1>2, <1>3
<1>5. Stripped(l) \in Seq(Chars) /\ Len(Stripped(l)) = Len(l) - from + 1
  BY <1>1, <1>2, <1>3, <1>4
<1>6. Stripped(l)[1] = l[from]
  BY <1>1, <1>2, <1>3, <1>4
<1>7. Stripped(l)[1] \notin Blanks
  BY <1>2, <1>4, <1>6, CharsAssumption
<1> QED BY <1>1, <1>2, <1>4, <1>5, <1>7 DEF WordAt

(* Where completion has counted an argument, the first word is followed by
   something: the pointer it then follows is not null. *)
THEOREM CountedWordIsThere ==
  ASSUME NEW l \in Seq(Chars), NEW start \in 1 .. Len(l), ArgumentNumber(l, start) # 0
  PROVE  extractTokenSub(l, 1).arg # 0
<1> DEFINE ends  == {j \in FirstWord(l) .. start : l[j] \in Blanks /\ l[j - 1] \notin Blanks}
           blank == First(l, 1, Blanks)
<1>1. Len(l) \in Nat /\ 1 \in 1 .. Len(l) + 1
  OBVIOUS
<1>2. ends # {}
  BY FS_EmptySet DEF ArgumentNumber
<1>3. FirstWord(l) \in 1 .. Len(l) + 1
  BY <1>1, FirstFinds DEF FirstWord
<1>4. \E j \in 1 .. Len(l) : l[j] \in Blanks
  BY <1>1, <1>2, <1>3
<1>5. /\ blank \in 1 .. Len(l) + 1
      /\ \A j \in 1 .. blank - 1 : l[j] \notin Blanks
  BY <1>1, FirstFinds
<1>6. blank <= Len(l)
  <2> HIDE DEF blank
  <2> QED BY <1>1, <1>4, <1>5
<1>7. extractTokenSub(l, 1).arg \in blank + 1 .. Len(l) + 1
  BY <1>1, <1>6, TokenEnds
<1> QED
  <2> HIDE DEF blank
  <2> QED BY <1>1, <1>5, <1>7

-----------------------------------------------------------------------------
(* The number of a word: how many begin up to where it does. *)
Begins(l) == {i \in 1 .. Len(l) : WordAt(l, i)}
UpTo(l, i) == {j \in Begins(l) : j <= i}
Number(l, i) == Cardinality(UpTo(l, i))

(* There are finitely many words. *)
LEMMA FinitelyMany ==
  ASSUME NEW l \in Seq(Chars), NEW i
  PROVE  /\ IsFiniteSet(Begins(l)) /\ IsFiniteSet(UpTo(l, i))
         /\ Cardinality(Begins(l)) \in Nat /\ Number(l, i) \in Nat
         /\ Number(l, i) <= Cardinality(Begins(l))
<1>1. IsFiniteSet(1 .. Len(l))
  BY FS_Interval
<1>2. Begins(l) \subseteq 1 .. Len(l) /\ UpTo(l, i) \subseteq Begins(l)
  BY DEF Begins, UpTo
<1> QED BY <1>1, <1>2, FS_Subset, FS_CardinalityType DEF Number

(* Each word has a number of its own. *)
LEMMA NumbersDiffer ==
  ASSUME NEW l \in Seq(Chars), NEW i \in Begins(l), NEW k \in Begins(l)
  PROVE  /\ Number(l, i) \in 1 .. Cardinality(Begins(l))
         /\ Number(l, i) = Number(l, k) => i = k
<1>1. i \in Nat /\ k \in Nat /\ i \in UpTo(l, i) /\ k \in UpTo(l, k)
  BY DEF Begins, UpTo
<1>2. Number(l, i) # 0
  BY <1>1, FinitelyMany, FS_EmptySet DEF Number
<1>3. ASSUME NEW a \in Begins(l), NEW b \in Begins(l), a < b
      PROVE  Number(l, a) # Number(l, b)
  <2>1. a \in Nat /\ b \in Nat
    BY DEF Begins
  <2>2. UpTo(l, a) \subseteq UpTo(l, b) /\ b \in UpTo(l, b) \ UpTo(l, a)
    BY <1>3, <2>1 DEF UpTo, Begins
  <2> QED BY <2>2, FinitelyMany, FS_Subset DEF Number
<1> QED BY <1>1, <1>2, <1>3, FinitelyMany

(* A word is where its number says in the list of words. *)
LEMMA WordOfNumber ==
  ASSUME NEW l \in Seq(Chars), NEW i \in Begins(l)
  PROVE  /\ Number(l, i) \in DOMAIN WordsOf(l)
         /\ WordsOf(l)[Number(l, i)] = SubSeq(l, i, First(l, i, Blanks) - 1)
<1> DEFINE nth(n) == CHOOSE k \in Begins(l) : Number(l, k) = n
<1>1. WordsOf(l) = [n \in 1 .. Cardinality(Begins(l)) |->
                      SubSeq(l, nth(n), First(l, nth(n), Blanks) - 1)]
  BY DEF WordsOf, Begins, Number, UpTo
<1>2. nth(Number(l, i)) = i
  BY NumbersDiffer
<1>3. Number(l, i) \in 1 .. Cardinality(Begins(l))
  BY NumbersDiffer
<1> HIDE DEF nth
<1> QED BY <1>1, <1>2, <1>3

(* The first word has number 1, each other that of the word before it and one
   more, and the last one the number of words. *)
LEMMA NumbersFollow ==
  ASSUME NEW l \in Seq(Chars), NEW i \in Begins(l)
  PROVE  /\ (\A j \in 1 .. i - 1 : ~WordAt(l, j)) => Number(l, i) = 1
         /\ (\A j \in i + 1 .. Len(l) : ~WordAt(l, j)) => Number(l, i) = Cardinality(Begins(l))
         /\ \A k \in Begins(l) :
              i < k /\ (\A j \in i + 1 .. k - 1 : ~WordAt(l, j)) => Number(l, k) = Number(l, i) + 1
<1>1. Len(l) \in Nat /\ \A j \in Begins(l) : j \in 1 .. Len(l) /\ WordAt(l, j)
  BY DEF Begins
<1>2. ASSUME \A j \in 1 .. i - 1 : ~WordAt(l, j)
      PROVE  Number(l, i) = 1
  <2>1. UpTo(l, i) = {i}
    BY <1>1, <1>2 DEF UpTo
  <2> QED BY <2>1, FS_Singleton DEF Number
<1>3. ASSUME \A j \in i + 1 .. Len(l) : ~WordAt(l, j)
      PROVE  Number(l, i) = Cardinality(Begins(l))
  <2>1. UpTo(l, i) = Begins(l)
    BY <1>1, <1>3 DEF UpTo
  <2> QED BY <2>1 DEF Number
<1>4. ASSUME NEW k \in Begins(l), i < k, \A j \in i + 1 .. k - 1 : ~WordAt(l, j)
      PROVE  Number(l, k) = Number(l, i) + 1
  <2>1. UpTo(l, k) = UpTo(l, i) \cup {k} /\ k \notin UpTo(l, i)
    BY <1>1, <1>4 DEF UpTo
  <2> QED BY <2>1, FinitelyMany, FS_AddElement DEF Number
<1> QED BY <1>2, <1>3, <1>4

(* A token is characters of the line. *)
LEMMA TokenText ==
  ASSUME NEW l \in Seq(Chars), NEW i \in 1 .. Len(l) + 1
  PROVE  /\ Text(l, extractTokenSub(l, i)) \in Seq(Chars)
         /\ Text(l, extractTokenSub(l, i)) = SubSeq(l, i, First(l, i, Blanks) - 1)
<1> DEFINE blank == First(l, i, Blanks)
<1>1. Len(l) \in Nat /\ blank \in i .. Len(l) + 1
  BY FirstFinds
<1> HIDE DEF blank
<1>2. /\ extractTokenSub(l, i).s = i
      /\ extractTokenSub(l, i).len = blank - i
  BY DEF extractTokenSub, blank
<1>3. Text(l, extractTokenSub(l, i)) = SubSeq(l, i, i + (blank - i) - 1)
  BY <1>2 DEF Text
<1>4. i + (blank - i) - 1 = blank - 1
  BY <1>1
<1>5. \A j \in i .. blank - 1 : j \in 1 .. Len(l)
  BY <1>1
<1>6. SubSeq(l, i, blank - 1) \in Seq(Chars)
  BY <1>1, <1>5
<1> QED BY <1>3, <1>4, <1>6 DEF blank

(* The words that are left at a pointer: the token there, and those left behind it. *)
LEMMA RemainingBySteps ==
  ASSUME NEW l \in Seq(Chars)
  PROVE  /\ Remaining(l, 0) = <<>>
         /\ \A i \in 1 .. Len(l) + 1 :
              LET token == extractTokenSub(l, i)
              IN  /\ Remaining(l, i) \in Seq(Seq(Chars))
                  /\ Remaining(l, i) = IF More(l, i)
                                       THEN <<Text(l, token)>> \o Remaining(l, token.arg)
                                       ELSE <<>>
                  /\ token.arg = 0 \/ token.arg \in i + 1 .. Len(l) + 1
<1> DEFINE V == 1 .. Len(l) + 1
           S == Seq(Seq(Chars))
           N == Len(l) + 1
           after(i) == extractTokenSub(l, i).arg
           word(i) == Text(l, extractTokenSub(l, i))
           rank == [i \in V |-> N - i]
           make == [i \in V |-> [f \in [V -> S] |->
                      <<word(i)>> \o (IF More(l, after(i)) THEN f[after(i)] ELSE <<>>)]]
<1>1. Len(l) \in Nat /\ N \in Nat
  OBVIOUS
<1>2. ASSUME NEW i \in V
      PROVE  /\ word(i) \in Seq(Chars)
             /\ after(i) = 0 \/ after(i) \in i + 1 .. Len(l) + 1
             /\ More(l, after(i)) => after(i) \in V /\ after(i) > i
  <2>1. word(i) \in Seq(Chars) /\ (after(i) = 0 \/ after(i) \in i + 1 .. Len(l) + 1)
    BY TokenText, PointerAdvances
  <2> HIDE DEF after, word
  <2> QED BY <1>1, <2>1 DEF More
<1> HIDE DEF after, word
<1>3. rank \in [V -> 0 .. N]
  BY <1>1
<1>4. make \in Makers(V, S)
  <2>1. ASSUME NEW i \in V, NEW f \in [V -> S]
        PROVE  <<word(i)>> \o (IF More(l, after(i)) THEN f[after(i)] ELSE <<>>) \in S
    <3>1. <<word(i)>> \in S
      BY <1>2
    <3>2. (IF More(l, after(i)) THEN f[after(i)] ELSE <<>>) \in S
      BY <1>2
    <3> HIDE DEF S
    <3>3. \A a, b \in S : a \o b \in S
      BY DEF S
    <3> QED BY <3>1, <3>2, <3>3
  <2> HIDE DEF S, V
  <2> QED BY <2>1 DEF Makers
<1>5. FromLower(V, S, rank, make)
  <2>1. ASSUME NEW i \in V, NEW f \in [V -> S], NEW g \in [V -> S],
               \A u \in V : rank[u] < rank[i] => f[u] = g[u]
        PROVE  make[i][f] = make[i][g]
    <3>1. More(l, after(i)) => f[after(i)] = g[after(i)]
      <4>1. More(l, after(i)) => after(i) \in V /\ rank[after(i)] < rank[i]
        BY <1>1, <1>2
      <4> QED BY <2>1, <4>1
    <3> QED BY <3>1
  <2> QED BY <2>1 DEF FromLower
<1>6. S # {}
  <2>1. <<>> \in S
    OBVIOUS
  <2> QED BY <2>1
<1>7. PICK f : Ranked(f, V, S, make)
  <2> HIDE DEF V, S, N, rank, make
  <2> QED BY <1>1, <1>3, <1>4, <1>5, <1>6, RecursionByRank
<1> DEFINE is(g) == g = [i \in 1 .. Len(l) + 1 |->
                           LET token == extractTokenSub(l, i)
                           IN  <<Text(l, token)>> \o (IF More(l, token.arg) THEN g[token.arg] ELSE <<>>)]
           from == CHOOSE g : is(g)
<1>8. is(f)
  <2>1. \A i \in V : f[i] = <<word(i)>> \o (IF More(l, after(i)) THEN f[after(i)] ELSE <<>>)
    BY <1>7 DEF Ranked
  <2>2. f = [i \in V |-> f[i]]
    BY <1>7 DEF Ranked
  <2> QED BY <2>1, <2>2 DEF word, after
<1>9. is(from)
  BY <1>8
<1>10. \A i \in V : from[i] = <<word(i)>> \o (IF More(l, after(i)) THEN from[after(i)] ELSE <<>>)
  BY <1>9 DEF word, after
<1>11. \A next : Remaining(l, next) = IF More(l, next) THEN from[next] ELSE <<>>
  BY DEF Remaining
<1> HIDE DEF is, from
<1>12. ASSUME NEW i \in V
       PROVE  Remaining(l, i) = IF More(l, i) THEN <<word(i)>> \o Remaining(l, after(i)) ELSE <<>>
  <2>1. from[i] = <<word(i)>> \o (IF More(l, after(i)) THEN from[after(i)] ELSE <<>>)
    BY <1>10
  <2>2. Remaining(l, after(i)) = IF More(l, after(i)) THEN from[after(i)] ELSE <<>>
    BY <1>11
  <2>3. Remaining(l, i) = IF More(l, i) THEN from[i] ELSE <<>>
    BY <1>11
  <2> HIDE DEF V
  <2> QED BY <2>1, <2>2, <2>3
<1>13. Remaining(l, 0) = <<>>
  BY <1>11 DEF More
<1> DEFINE T == {n \in 0 .. N : \A i \in V : i > N - n => Remaining(l, i) \in S}
<1>14. 0 \in T
  BY <1>1
<1>15. ASSUME NEW n \in 0 .. N - 1, n \in T
       PROVE  n + 1 \in T
  <2>1. ASSUME NEW i \in V, i > N - (n + 1)
        PROVE  Remaining(l, i) \in S
    <3>1. Remaining(l, after(i)) \in S
      <4>1. CASE after(i) = 0
        <5>1. <<>> \in S
          OBVIOUS
        <5> QED BY <1>13, <4>1, <5>1
      <4>2. CASE after(i) # 0
        <5>1. after(i) \in V /\ after(i) > N - n
          BY <1>1, <1>2, <2>1, <4>2
        <5> QED BY <1>15, <5>1
      <4> QED BY <4>1, <4>2
    <3>2. <<word(i)>> \in S
      BY <1>2
    <3>3. <<word(i)>> \o Remaining(l, after(i)) \in S /\ <<>> \in S
      BY <3>1, <3>2
    <3> HIDE DEF V, S
    <3> QED BY <1>12, <3>3
  <2> QED BY <1>1, <2>1
<1>16. \A n \in 0 .. N - 1 : n \in T => n + 1 \in T
  BY <1>15
<1>17. \A n \in 0 .. N : n \in T
  <2> HIDE DEF T
  <2> QED BY <1>1, <1>14, <1>16, InductionUpTo
<1>18. \A i \in V : Remaining(l, i) \in S
  BY <1>1, <1>17
<1> QED BY <1>2, <1>12, <1>13, <1>18 DEF word, after


(* What is left at a word is that word and those behind it. *)
LEMMA RemainingAreWords ==
  ASSUME NEW l \in Seq(Chars), Plain(l), NEW i \in Begins(l)
  PROVE  /\ Len(Remaining(l, i)) = Cardinality(Begins(l)) - Number(l, i) + 1
         /\ \A n \in 1 .. Len(Remaining(l, i)) :
              Remaining(l, i)[n] = WordsOf(l)[Number(l, i) + n - 1]
<1> DEFINE C == Cardinality(Begins(l))
           N == Len(l)
           R(k) == Remaining(l, k)
           left(k) == /\ Len(R(k)) = C - Number(l, k) + 1
                      /\ \A n \in 1 .. Len(R(k)) : R(k)[n] = WordsOf(l)[Number(l, k) + n - 1]
           T == {n \in 0 .. N : \A k \in Begins(l) : k > N - n => left(k)}
<1>1. N \in Nat /\ C \in Nat /\ \A k \in Begins(l) : k \in 1 .. N /\ k \in 1 .. N + 1 /\ k \in Nat
  <2>1. C \in Nat
    BY FinitelyMany
  <2>2. N \in Nat
    OBVIOUS
  <2>3. \A k \in Begins(l) : k \in 1 .. N
    BY DEF Begins
  <2> HIDE DEF C, N
  <2> QED BY <2>1, <2>2, <2>3
<1>2. 0 \in T
  BY <1>1
<1>3. ASSUME NEW n \in 0 .. N - 1, n \in T, NEW k \in Begins(l), k > N - (n + 1)
      PROVE  left(k)
  <2> DEFINE next == extractTokenSub(l, k).arg
             word == Text(l, extractTokenSub(l, k))
  <2>1. WordAt(l, k) /\ More(l, k) /\ k \in 1 .. Len(l)
    BY <1>1 DEF Begins, More
  <2>2. /\ R(k) = <<word>> \o R(next) /\ R(k) \in Seq(Seq(Chars))
        /\ next = 0 \/ next \in k + 1 .. N + 1
    BY <1>1, <2>1, RemainingBySteps
  <2>3. word = WordsOf(l)[Number(l, k)]
    BY <1>1, TokenText, WordOfNumber
  <2>4. Number(l, k) \in 1 .. C
    BY NumbersDiffer
  <2>5. CASE More(l, next)
    <3>1. WordAt(l, next) /\ \A j \in k + 1 .. next - 1 : ~WordAt(l, j)
      BY <2>1, <2>5, NextIsNextWord
    <3>2. next \in Begins(l) /\ k < next
      <4>1. next \in 1 .. N /\ k < next
        <5>1. next # 0 /\ next # N + 1
          BY <2>5 DEF More
        <5>2. next \in k + 1 .. N + 1 /\ k \in 1 .. N
          BY <1>1, <2>2, <5>1
        <5> HIDE DEF next, N
        <5> QED BY <1>1, <5>1, <5>2
      <4> QED BY <3>1, <4>1 DEF Begins
    <3>3. Number(l, next) = Number(l, k) + 1
      BY <3>1, <3>2, NumbersFollow
    <3>4. left(next)
      <4>1. next > N - n
        BY <1>1, <1>3, <3>2
      <4> QED BY <1>3, <3>2, <4>1
    <3>5. R(next) \in Seq(Seq(Chars))
      BY <1>1, <3>2, RemainingBySteps
    <3> HIDE DEF R, C, N, T, next, word
    <3>6. Len(R(k)) = Len(R(next)) + 1
      BY <2>2, <3>5
    <3>7. R(k)[1] = word
      BY <2>2, <3>5
    <3>8. \A m \in 2 .. Len(R(k)) : m - 1 \in 1 .. Len(R(next)) /\ R(k)[m] = R(next)[m - 1]
      BY <2>2, <3>5, <3>6
    <3>9. \A m \in 2 .. Len(R(k)) : R(k)[m] = WordsOf(l)[Number(l, k) + m - 1]
      <4>1. \A m \in 2 .. Len(R(k)) : (Number(l, k) + 1) + (m - 1) - 1 = Number(l, k) + m - 1
        BY <2>4, <1>1
      <4> QED BY <3>3, <3>4, <3>8, <4>1
    <3>10. Number(l, k) + 1 - 1 = Number(l, k) /\ Len(R(k)) \in Nat
      BY <2>4, <1>1, <2>2
    <3>11. \A m \in 1 .. Len(R(k)) : m = 1 \/ m \in 2 .. Len(R(k))
      BY <3>10
    <3>12. Len(R(k)) = C - Number(l, k) + 1
      BY <1>1, <2>4, <3>3, <3>4, <3>6
    <3> QED BY <2>3, <3>7, <3>9, <3>10, <3>11, <3>12
  <2>6. CASE ~More(l, next)
    <3>1. \A j \in k + 1 .. N : ~WordAt(l, j)
      BY <2>1, <2>6, NextIsNextWord
    <3>2. Number(l, k) = C
      BY <3>1, NumbersFollow
    <3>3. R(next) = <<>>
      <4>1. next = 0 \/ next = N + 1
        BY <2>6 DEF More
      <4>2. N + 1 \in 1 .. N + 1 /\ ~More(l, N + 1)
        BY <1>1 DEF More
      <4>3. Remaining(l, 0) = <<>> /\ Remaining(l, N + 1) = <<>>
        BY <4>2, RemainingBySteps
      <4> HIDE DEF next
      <4> QED BY <4>1, <4>3
    <3>4. R(k) = <<word>>
      BY <2>2, <3>3
    <3> HIDE DEF R, C, word
    <3>5. Len(R(k)) = 1 /\ R(k)[1] = word
      BY <3>4
    <3>6. C - Number(l, k) + 1 = 1 /\ Number(l, k) + 1 - 1 = Number(l, k)
      BY <1>1, <3>2
    <3> QED BY <2>3, <3>5, <3>6
  <2> QED BY <2>5, <2>6
<1>4. \A n \in 0 .. N - 1 : n \in T => n + 1 \in T
  <2> HIDE DEF left
  <2> QED BY <1>1, <1>3
<1>5. \A n \in 0 .. N : n \in T
  <2> HIDE DEF T
  <2> QED BY <1>1, <1>2, <1>4, InductionUpTo
<1>6. N \in T /\ i > N - N
  BY <1>1, <1>5
<1> QED BY <1>6

(* On a line that begins with a word, the words that have ended up to a
   place, and the one that has not, are those that have begun. *)
Ends(l, p) == {j \in FirstWord(l) .. p : l[j] \in Blanks /\ l[j - 1] \notin Blanks}

(* Each word before a place has begun, and has ended unless it is the last. *)
LEMMA EndsAreBegins ==
  ASSUME NEW l \in Seq(Chars), WordAt(l, 1), NEW p \in 1 .. Len(l)
  PROVE  /\ IsFiniteSet(Ends(l, p))
         /\ Number(l, p) = Cardinality(Ends(l, p)) + (IF l[p] \in Blanks THEN 0 ELSE 1)
<1> DEFINE N == Len(l) - 1
           E(q) == Ends(l, q)
           same(q) == /\ IsFiniteSet(E(q))
                      /\ Number(l, q) = Cardinality(E(q)) + (IF l[q] \in Blanks THEN 0 ELSE 1)
           T == {n \in 0 .. N : same(n + 1)}
<1>1. Len(l) \in Nat /\ N \in Nat /\ 1 \in 1 .. Len(l) /\ l[1] \notin Blanks
  BY DEF WordAt
<1>2. FirstWord(l) = 1
  <2>1. l[1] \in Chars \ Blanks
    BY <1>1
  <2>2. /\ FirstWord(l) \in 1 .. Len(l) + 1
        /\ \A j \in 1 .. FirstWord(l) - 1 : l[j] \notin Chars \ Blanks
    BY <1>1, FirstFinds DEF FirstWord
  <2> QED BY <1>1, <2>1, <2>2
<1>3. same(1)
  <2>1. E(1) = {}
    BY <1>1, <1>2 DEF Ends
  <2>2. UpTo(l, 1) = {1}
    <3>1. \A j \in Begins(l) : j \in 1 .. Len(l)
      BY DEF Begins
    <3>2. 1 \in Begins(l)
      BY <1>1 DEF Begins
    <3> QED BY <1>1, <3>1, <3>2 DEF UpTo
  <2>3. Cardinality(E(1)) = 0 /\ IsFiniteSet(E(1))
    BY <2>1, FS_EmptySet
  <2>4. Number(l, 1) = 1
    BY <2>2, FS_Singleton DEF Number
  <2> HIDE DEF E
  <2> QED BY <1>1, <2>3, <2>4
<1>4. ASSUME NEW n \in 0 .. N - 1, n \in T
      PROVE  n + 1 \in T
  <2> DEFINE q == n + 1
             r == n + 1 + 1
  <2>1. /\ q \in 1 .. Len(l) /\ r \in 1 .. Len(l) /\ r - 1 = q /\ r # 1
        /\ \A j \in Nat : j <= r <=> j <= q \/ j = r
        /\ ~ (r <= q)
    BY <1>1
  <2>2. same(q)
    BY <1>4
  <2>3. IF l[r] \in Blanks /\ l[q] \notin Blanks
        THEN E(r) = E(q) \cup {r} /\ r \notin E(q) ELSE E(r) = E(q)
    BY <1>2, <2>1 DEF Ends
  <2>4. IF l[r] \notin Blanks /\ l[q] \in Blanks
        THEN UpTo(l, r) = UpTo(l, q) \cup {r} /\ r \notin UpTo(l, q) ELSE UpTo(l, r) = UpTo(l, q)
    BY <2>1 DEF UpTo, Begins, WordAt
  <2>5. /\ IsFiniteSet(E(r)) /\ Cardinality(E(q)) \in Nat
        /\ Cardinality(E(r)) = IF l[r] \in Blanks /\ l[q] \notin Blanks
                               THEN Cardinality(E(q)) + 1 ELSE Cardinality(E(q))
    BY <2>2, <2>3, FS_AddElement, FS_CardinalityType
  <2>6. /\ Number(l, q) \in Nat
        /\ Number(l, r) = IF l[r] \notin Blanks /\ l[q] \in Blanks
                          THEN Number(l, q) + 1 ELSE Number(l, q)
    BY <2>4, FinitelyMany, FS_AddElement DEF Number
  <2>7. same(r)
    <3> HIDE DEF E, q, r
    <3> QED BY <2>2, <2>5, <2>6
  <2> QED BY <1>1, <2>7
<1>5. \A n \in 0 .. N : n \in T
  <2>1. 0 \in T
    BY <1>1, <1>3
  <2>2. \A n \in 0 .. N - 1 : n \in T => n + 1 \in T
    BY <1>4
  <2> HIDE DEF T, N
  <2> QED BY <1>1, <2>1, <2>2, InductionUpTo
<1>6. p - 1 \in 0 .. N /\ p - 1 + 1 = p
  BY <1>1
<1>7. same(p - 1 + 1)
  BY <1>5, <1>6
<1> QED BY <1>6, <1>7

(* Completion counts the words as the commands take them, on any line of
   words and blanks: command_completion() against extractTokenSub(). *)
THEOREM CompletionCounts ==
  ASSUME NEW l \in Seq(Chars)
  PROVE  CountedAlike(l)
<1> SUFFICES ASSUME Plain(l), WordAt(l, 1)
             PROVE  /\ Remaining(l, 1) = WordsOf(l)
                    /\ \A i \in 2 .. Len(l) : WordAt(l, i) =>
                         LET number == ArgumentNumber(l, i - 1)
                         IN  /\ number + 1 \in DOMAIN WordsOf(l)
                             /\ WordsOf(l)[number + 1] = SubSeq(l, i, First(l, i, Blanks) - 1)
  BY DEF CountedAlike
<1> DEFINE R == Remaining(l, 1)
           C == Cardinality(Begins(l))
<1>1. Len(l) \in Nat /\ C \in Nat /\ 1 \in 1 .. Len(l) + 1 /\ 1 \in Begins(l)
  <2>1. C \in Nat
    BY FinitelyMany
  <2>2. 1 \in 1 .. Len(l) /\ WordAt(l, 1)
    BY DEF WordAt
  <2>3. 1 \in Begins(l)
    BY <2>2 DEF Begins
  <2> HIDE DEF C
  <2> QED BY <2>1, <2>2, <2>3
<1>2. Number(l, 1) = 1
  BY <1>1, NumbersFollow
<1>3. R = WordsOf(l)
  <2>1. R \in Seq(Seq(Chars)) /\ Len(R) = C /\ \A n \in 1 .. C : R[n] = WordsOf(l)[n]
    <3>1. R \in Seq(Seq(Chars))
      BY <1>1, RemainingBySteps
    <3>2. /\ Len(R) = C - 1 + 1
          /\ \A n \in 1 .. Len(R) : R[n] = WordsOf(l)[1 + n - 1]
      BY <1>1, <1>2, RemainingAreWords
    <3>3. Len(R) = C /\ \A n \in 1 .. C : 1 + n - 1 = n
      BY <1>1, <3>2
    <3> HIDE DEF R
    <3> QED BY <3>1, <3>2, <3>3
  <2>2. R = [n \in 1 .. C |-> R[n]]
    <3> HIDE DEF R
    <3> QED BY <2>1
  <2> DEFINE nth(n) == CHOOSE k \in Begins(l) : Number(l, k) = n
             word(n) == SubSeq(l, nth(n), First(l, nth(n), Blanks) - 1)
  <2>3. WordsOf(l) = [n \in 1 .. C |-> word(n)]
    BY DEF WordsOf, Begins, Number, UpTo
  <2> HIDE DEF R, C, word
  <2> QED BY <2>1, <2>2, <2>3
<1>4. ASSUME NEW i \in 2 .. Len(l), WordAt(l, i)
      PROVE  /\ ArgumentNumber(l, i - 1) + 1 \in DOMAIN WordsOf(l)
             /\ WordsOf(l)[ArgumentNumber(l, i - 1) + 1] = SubSeq(l, i, First(l, i, Blanks) - 1)
  <2>1. i \in Begins(l) /\ i \in 1 .. Len(l) /\ i - 1 \in 1 .. Len(l) /\ i # 1 /\ ~ (i <= i - 1)
    BY <1>1, <1>4 DEF Begins
  <2>2. l[i - 1] \in Blanks
    BY <1>4, <2>1 DEF WordAt
  <2>3. Number(l, i - 1) = ArgumentNumber(l, i - 1)
    <3>1. /\ IsFiniteSet(Ends(l, i - 1))
          /\ Number(l, i - 1) = Cardinality(Ends(l, i - 1)) + 0
      BY <2>1, <2>2, EndsAreBegins
    <3>2. Cardinality(Ends(l, i - 1)) + 0 = Cardinality(Ends(l, i - 1))
      BY <3>1, FS_CardinalityType
    <3> QED BY <3>1, <3>2 DEF Ends, ArgumentNumber
  <2>4. UpTo(l, i) = UpTo(l, i - 1) \cup {i} /\ i \notin UpTo(l, i - 1)
    BY <1>1, <2>1 DEF UpTo, Begins
  <2>5. Number(l, i) = ArgumentNumber(l, i - 1) + 1
    BY <2>3, <2>4, FinitelyMany, FS_AddElement DEF Number
  <2> QED BY <2>1, <2>5, WordOfNumber
<1> QED BY <1>3, <1>4

-----------------------------------------------------------------------------
(* Answers: what is printed of an answer was sent. *)

(* FlattenSeq appends its sequences, one after the other. *)
Appended(F, ss, S) ==
  /\ F \in [0 .. Len(ss) -> Seq(S)]
  /\ F[0] = <<>>
  /\ \A n \in 1 .. Len(ss) : F[n] = F[n - 1] \o ss[n]

(* What is flattened is the last of these steps. *)
LEMMA FlattenBySteps ==
  ASSUME NEW S, NEW ss \in Seq(Seq(S))
  PROVE  \E F : Appended(F, ss, S) /\ FlattenSeq(ss) = F[Len(ss)]
<1> DEFINE N == Len(ss)
           Q == Seq(S)
           step == [n \in 1 .. N |-> [s \in Q |-> s \o ss[n]]]
<1>1. N \in Nat /\ <<>> \in Q /\ \A n \in 1 .. N : ss[n] \in Q
  <2>1. N \in Nat /\ \A n \in 1 .. N : ss[n] \in Q
    OBVIOUS
  <2>2. <<>> \in Q
    OBVIOUS
  <2> QED BY <2>1, <2>2
<1>2. step \in Steps(N, Q)
  <2>1. \A a, b \in Q : a \o b \in Q
    OBVIOUS
  <2> HIDE DEF Q, N
  <2> QED BY <1>1, <2>1 DEF Steps
<1>3. PICK F : Recursion(F, N, Q, <<>>, step)
  <2> HIDE DEF Q, N, step
  <2> QED BY <1>1, <1>2, RecursionUpTo
<1>4. F \in [0 .. N -> Q] /\ F[0] = <<>> /\ \A n \in 1 .. N : F[n] = F[n - 1] \o ss[n]
  <2>1. F \in [0 .. N -> Q]
    BY <1>3 DEF Recursion
  <2>2. ASSUME NEW n \in 1 .. N
        PROVE  F[n] = F[n - 1] \o ss[n]
    <3>1. n - 1 \in 0 .. N /\ n \in 0 .. N /\ n # 0
      BY <1>1
    <3>2. F[n - 1] \in Q
      BY <2>1, <3>1
    <3> HIDE DEF Q, N
    <3>3. F[n] = step[n][F[n - 1]]
      <4> HIDE DEF step
      <4> QED BY <1>3, <3>1 DEF Recursion
    <3> QED BY <3>2, <3>3
  <2>3. F[0] = <<>>
    <3>1. 0 \in 0 .. N
      BY <1>1
    <3> HIDE DEF Q, N, step
    <3> QED BY <1>3, <3>1 DEF Recursion
  <2> HIDE DEF Q, N
  <2> QED BY <2>1, <2>2, <2>3
<1>5. Appended(F, ss, S)
  BY <1>4 DEF Appended
<1>6. CASE N = 0
  <2>1. ss = <<>> /\ FlattenSeq(ss) = ss
    BY <1>6 DEF FlattenSeq
  <2>2. F[N] = <<>>
    BY <1>1, <1>4, <1>6
  <2> QED BY <1>5, <2>1, <2>2
<1>7. CASE N # 0
  <2> DEFINE is(f) == f = [i \in 1 .. Len(ss) |-> IF i = 1 THEN ss[i] ELSE f[i - 1] \o ss[i]]
             flatten == CHOOSE f : is(f)
             G == [n \in 1 .. Len(ss) |-> F[n]]
  <2>1. is(G)
    <3>1. ASSUME NEW n \in 1 .. N
          PROVE  F[n] = IF n = 1 THEN ss[n] ELSE G[n - 1] \o ss[n]
      <4>1. F[n] = F[n - 1] \o ss[n]
        BY <1>4
      <4>2. CASE n = 1
        <5>1. F[n - 1] = <<>> /\ ss[n] \in Seq(S)
          <6>1. n - 1 = 0
            BY <4>2
          <6> QED BY <1>1, <1>4, <6>1
        <5>2. <<>> \o ss[n] = ss[n]
          BY <5>1
        <5> QED BY <4>1, <4>2, <5>1, <5>2
      <4>3. CASE n # 1
        <5>1. G[n - 1] = F[n - 1]
          BY <1>1, <4>3
        <5> QED BY <4>1, <4>3, <5>1
      <4> QED BY <4>2, <4>3
    <3> QED BY <3>1
  <2>2. is(flatten)
    BY <2>1
  <2>3. \A n \in 1 .. N : flatten[n] = IF n = 1 THEN ss[n] ELSE flatten[n - 1] \o ss[n]
    BY <2>2
  <2>4. FlattenSeq(ss) = flatten[N]
    BY <1>7 DEF FlattenSeq
  <2> HIDE DEF is, flatten
  <2> DEFINE T == {n \in 0 .. N : n # 0 => flatten[n] = F[n]}
  <2>5. 0 \in T
    BY <1>1
  <2>6. ASSUME NEW m \in 1 .. N, m - 1 \in T
        PROVE  m \in T
    <3>1. F[m] = F[m - 1] \o ss[m] /\ ss[m] \in Seq(S)
      BY <1>1, <1>4
    <3>2. CASE m = 1
      <4>1. F[m - 1] = <<>>
        BY <1>4, <3>2
      <4>2. <<>> \o ss[m] = ss[m]
        BY <3>1
      <4>3. flatten[m] = F[m]
        BY <2>3, <3>1, <3>2, <4>1, <4>2
      <4> QED BY <4>3
    <3>3. CASE m # 1
      <4>1. m - 1 # 0
        BY <3>3
      <4>2. flatten[m - 1] = F[m - 1]
        BY <2>6, <4>1
      <4>3. flatten[m] = F[m]
        BY <2>3, <3>1, <3>3, <4>2
      <4> QED BY <4>3
    <3> QED BY <3>2, <3>3
  <2>7. \A n \in 0 .. N : n \in T
    <3>1. \A n \in 0 .. N - 1 : n + 1 \in 1 .. N /\ n + 1 - 1 = n
      BY <1>1
    <3> HIDE DEF T
    <3>2. \A n \in 0 .. N - 1 : n \in T => n + 1 \in T
      BY <2>6, <3>1
    <3> QED BY <1>1, <2>5, <3>2, InductionUpTo
  <2>8. flatten[N] = F[N]
    BY <1>1, <1>7, <2>7
  <2> QED BY <1>5, <2>4, <2>8
<1> QED BY <1>6, <1>7

(* What is appended consists of the elements of the sequences. *)
LEMMA FlattenIn ==
  ASSUME NEW S, NEW ss \in Seq(Seq(S))
  PROVE  FlattenSeq(ss) \in Seq(S)
<1>1. PICK F : Appended(F, ss, S) /\ FlattenSeq(ss) = F[Len(ss)]
  BY FlattenBySteps
<1>2. Len(ss) \in 0 .. Len(ss)
  OBVIOUS
<1> QED BY <1>1, <1>2 DEF Appended

(* Two sequences of sequences, and a single one. *)
LEMMA FlattenOne ==
  ASSUME NEW S, NEW s \in Seq(S)
  PROVE  /\ FlattenSeq(<<s>>) = s
         /\ FlattenSeq(<<>>) = <<>>
<1>1. <<s>> \in Seq(Seq(S)) /\ Len(<<s>>) = 1 /\ <<s>>[1] = s
  OBVIOUS
<1>2. PICK F : Appended(F, <<s>>, S) /\ FlattenSeq(<<s>>) = F[1]
  <2> HIDE DEF Appended
  <2> QED BY <1>1, FlattenBySteps
<1>3. F[0] = <<>> /\ \A n \in 1 .. 1 : F[n] = F[n - 1] \o <<s>>[n]
  BY <1>1, <1>2 DEF Appended
<1>4. F[1] = F[1 - 1] \o s
  BY <1>1, <1>3
<1>5. F[1] = <<>> \o s /\ <<>> \o s = s
  BY <1>3, <1>4
<1>6. FlattenSeq(<<>>) = <<>>
  BY DEF FlattenSeq
<1> QED BY <1>2, <1>5, <1>6


Associative(Q) == \A s, t, u \in Q : (s \o t) \o u = s \o (t \o u)

(* Sequences are joined in any order. *)
LEMMA ConcatIsAssociative ==
  ASSUME NEW S
  PROVE  Associative(Seq(S))
<1>1. ASSUME NEW s \in Seq(S), NEW t \in Seq(S), NEW u \in Seq(S)
      PROVE  (s \o t) \o u = s \o (t \o u)
  BY ConcatAssociative
<1> QED BY <1>1 DEF Associative

(* What is appended of two, one behind the other. *)
LEMMA FlattenBoth ==
  ASSUME NEW S, NEW ss \in Seq(Seq(S)), NEW tt \in Seq(Seq(S))
  PROVE  FlattenSeq(ss \o tt) = FlattenSeq(ss) \o FlattenSeq(tt)
<1> DEFINE both == ss \o tt
           M == Len(ss)
           N == Len(tt)
           Q == Seq(S)
<1>1. /\ M \in Nat /\ N \in Nat /\ both \in Seq(Seq(S)) /\ Len(both) = M + N
      /\ \A m \in 1 .. M : both[m] = ss[m] /\ ss[m] \in Q
      /\ \A n \in 1 .. N : both[M + n] = tt[n] /\ tt[n] \in Q
  OBVIOUS
<1>2. PICK F : Appended(F, ss, S) /\ FlattenSeq(ss) = F[M]
  BY FlattenBySteps
<1>3. PICK G : Appended(G, tt, S) /\ FlattenSeq(tt) = G[N]
  BY FlattenBySteps
<1>4. PICK H : Appended(H, both, S) /\ FlattenSeq(both) = H[M + N]
  <2> HIDE DEF both
  <2> QED BY <1>1, FlattenBySteps
<1> HIDE DEF both, M, N, Q
<1>5. F \in [0 .. M -> Q] /\ F[0] = <<>> /\ \A m \in 1 .. M : F[m] = F[m - 1] \o ss[m]
  BY <1>2 DEF Appended, M, Q
<1>6. G \in [0 .. N -> Q] /\ G[0] = <<>> /\ \A n \in 1 .. N : G[n] = G[n - 1] \o tt[n]
  BY <1>3 DEF Appended, N, Q
<1>7. H[0] = <<>> /\ \A k \in 1 .. M + N : H[k] = H[k - 1] \o both[k]
  BY <1>1, <1>4 DEF Appended
<1> DEFINE T == {m \in 0 .. M : H[m] = F[m]}
           U == {n \in 0 .. N : H[M + n] = F[M] \o G[n]}
<1>8. H[M] = F[M]
  <2>1. 0 \in T
    BY <1>1, <1>5, <1>7
  <2>2. ASSUME NEW m \in 1 .. M, m - 1 \in T
        PROVE  m \in T
    <3>1. m \in 1 .. M + N /\ m \in 0 .. M
      BY <1>1
    <3>2. H[m] = H[m - 1] \o both[m]
      BY <1>7, <3>1
    <3>3. both[m] = ss[m] /\ H[m - 1] = F[m - 1]
      BY <1>1, <2>2
    <3>4. H[m] = F[m]
      BY <1>5, <3>2, <3>3
    <3> QED BY <3>1, <3>4
  <2>3. M \in T
    <3> HIDE DEF T
    <3> QED BY <1>1, <2>1, <2>2, InductionFromPrevious
  <2> QED BY <2>3
<1>9. H[M + N] = F[M] \o G[N]
  <2>1. F[M] \in Q /\ \A n \in 0 .. N : G[n] \in Q
    BY <1>1, <1>5, <1>6
  <2>2. 0 \in U
    <3>1. F[M] \o <<>> = F[M]
      BY <2>1 DEF Q
    <3>2. M + 0 = M /\ 0 \in 0 .. N
      BY <1>1
    <3>3. H[M + 0] = F[M] \o G[0]
      BY <1>6, <1>8, <3>1, <3>2
    <3> QED BY <3>2, <3>3
  <2>3. ASSUME NEW n \in 1 .. N, n - 1 \in U
        PROVE  n \in U
    <3> DEFINE k == M + n
    <3>1. k \in 1 .. M + N /\ k - 1 = M + (n - 1) /\ n - 1 \in 0 .. N /\ n \in 0 .. N
      BY <1>1
    <3>2. both[k] = tt[n] /\ tt[n] \in Q /\ H[M + (n - 1)] = F[M] \o G[n - 1]
      BY <1>1, <2>3
    <3>3. G[n] = G[n - 1] \o tt[n] /\ G[n - 1] \in Q
      BY <1>6, <2>1, <3>1
    <3> HIDE DEF k
    <3>4. H[k] = H[k - 1] \o both[k]
      BY <1>7, <3>1
    <3>5. H[k] = (F[M] \o G[n - 1]) \o tt[n]
      BY <3>1, <3>2, <3>4
    <3>6. (F[M] \o G[n - 1]) \o tt[n] = F[M] \o (G[n - 1] \o tt[n])
      <4>1. Associative(Q)
        BY ConcatIsAssociative DEF Q
      <4> QED BY <2>1, <3>2, <3>3, <4>1 DEF Associative
    <3>7. H[k] = F[M] \o G[n]
      BY <3>3, <3>5, <3>6
    <3> QED BY <3>1, <3>7 DEF k
  <2>4. N \in U
    <3> HIDE DEF U
    <3> QED BY <1>1, <2>2, <2>3, InductionFromPrevious
  <2> QED BY <2>4
<1> QED BY <1>2, <1>3, <1>4, <1>8, <1>9 DEF both

-----------------------------------------------------------------------------
(* What each type of a JSON value has. *)
LEMMA JsonCases ==
  ASSUME NEW json \in Json
  PROVE  /\ Is("string", json) => json.string \in Texts /\ json = [string |-> json.string]
         /\ Is("int", json) => json.int \in Int /\ json = [int |-> json.int]
         /\ Is("double", json) => json.double \in Int /\ json = [double |-> json.double]
         /\ Is("boolean", json) => json.boolean \in BOOLEAN /\ json = [boolean |-> json.boolean]
         /\ Is("array", json) => json.array \in Seq(Json) /\ Inside(json) = ToSet(json.array)
         /\ Is("object", json) =>
              /\ IsFiniteSet(DOMAIN json.object)
              /\ \A name \in DOMAIN json.object : json.object[name] \in Json
              /\ Inside(json) = {json.object[name] : name \in DOMAIN json.object}
<1>1. IsJson(json)
  BY JsonAssumption
<1>2. Is("string", json) => json.string \in Texts /\ json = [string |-> json.string]
  BY <1>1 DEF IsJson, Is
<1>3. Is("int", json) => json.int \in Int /\ json = [int |-> json.int]
  BY <1>1 DEF IsJson, Is
<1>4. Is("double", json) => json.double \in Int /\ json = [double |-> json.double]
  BY <1>1 DEF IsJson, Is
<1>5. Is("boolean", json) => json.boolean \in BOOLEAN /\ json = [boolean |-> json.boolean]
  BY <1>1 DEF IsJson, Is
<1>6. Is("array", json) => json.array \in Seq(Json) /\ Inside(json) = ToSet(json.array)
  BY <1>1 DEF IsJson, Is, Inside
<1>7. ASSUME Is("object", json)
      PROVE  /\ IsFiniteSet(DOMAIN json.object)
             /\ \A name \in DOMAIN json.object : json.object[name] \in Json
  <2>1. json # NULL /\ DOMAIN json = {"object"}
    BY <1>7 DEF Is
  <2>2. json \notin [string : Texts] \cup [int : Int] \cup [double : Int] \cup [boolean : BOOLEAN]
    BY <2>1
  <2>3. json \notin [array : Seq(Json)]
    BY <2>1
  <2> QED BY <1>1, <2>1, <2>2, <2>3 DEF IsJson
<1>8. Is("object", json) => Inside(json) = {json.object[name] : name \in DOMAIN json.object}
  <2>1. Is("object", json) => ~Is("array", json)
    BY DEF Is
  <2> QED BY <2>1 DEF Inside
<1> QED BY <1>2, <1>3, <1>4, <1>5, <1>6, <1>7, <1>8

(* Values in a value are of lower depth. *)
LEMMA InsideIsDeeper ==
  ASSUME NEW json \in Json, NEW v \in Inside(json)
  PROVE  v \in Json /\ Depth[v] < Depth[json]
<1>1. v \in Json
  <2>1. CASE Is("object", json)
    BY <2>1, JsonCases
  <2>2. CASE Is("array", json)
    <3>1. json.array \in Seq(Json) /\ Inside(json) = ToSet(json.array)
      BY <2>2, JsonCases
    <3>2. \E i \in DOMAIN json.array : v = json.array[i]
      BY <3>1 DEF ToSet
    <3> QED BY <3>1, <3>2
  <2>3. CASE ~Is("object", json) /\ ~Is("array", json)
    BY <2>3 DEF Inside
  <2> QED BY <2>1, <2>2, <2>3
<1> QED BY <1>1, JsonAssumption

(* A path of names stays in whatever each name stays in. *)
LEMMA PathStays ==
  ASSUME NEW S, NEW json \in S, \A v \in S : \A name : Member(v, name) \in S,
         NEW path, Len(path) \in Nat
  PROVE  getObj(json, path) \in S
<1> DEFINE N == Len(path)
           step == [n \in 1 .. N |-> [v \in S |-> Member(v, path[n])]]
           is(f) == f = [i \in 0 .. Len(path) |-> IF i = 0 THEN json ELSE Member(f[i - 1], path[i])]
           at == CHOOSE f : is(f)
<1>1. step \in Steps(N, S)
  BY DEF Steps
<1>2. PICK f : Recursion(f, N, S, json, step)
  <2> HIDE DEF N, step
  <2> QED BY <1>1, RecursionUpTo DEF N
<1>3. f \in [0 .. N -> S]
  BY <1>2 DEF Recursion
<1>4. is(f)
  <2>1. ASSUME NEW n \in 0 .. N
        PROVE  f[n] = IF n = 0 THEN json ELSE Member(f[n - 1], path[n])
    <3>1. f[n] = IF n = 0 THEN json ELSE step[n][f[n - 1]]
      <4> HIDE DEF N, step
      <4> QED BY <1>2 DEF Recursion
    <3>2. n # 0 => n \in 1 .. N /\ n - 1 \in 0 .. N
      OBVIOUS
    <3>3. n # 0 => step[n][f[n - 1]] = Member(f[n - 1], path[n])
      BY <1>3, <3>2
    <3> QED BY <3>1, <3>3
  <2> QED BY <1>3, <2>1
<1>5. is(at)
  BY <1>4
<1>6. at[0] = json /\ \A n \in 1 .. N : at[n] = Member(at[n - 1], path[n])
  <2>1. \A n \in 0 .. N : at[n] = IF n = 0 THEN json ELSE Member(at[n - 1], path[n])
    BY <1>5
  <2>2. 0 \in 0 .. N /\ \A n \in 1 .. N : n \in 0 .. N /\ n # 0
    OBVIOUS
  <2> HIDE DEF at, N
  <2> QED BY <2>1, <2>2
<1>7. getObj(json, path) = at[N]
  BY DEF getObj
<1> HIDE DEF is, at
<1> DEFINE T == {n \in 0 .. N : at[n] \in S}
<1>8. 0 \in T
  BY <1>6
<1>9. ASSUME NEW n \in 1 .. N, n - 1 \in T
      PROVE  n \in T
  BY <1>6, <1>9
<1>10. N \in T
  <2> HIDE DEF T
  <2> QED BY <1>8, <1>9, InductionFromPrevious
<1> QED BY <1>7, <1>10

(* Leaves is the function its recursive definition describes. *)
LEMMA LeavesBySteps ==
  /\ Leaves \in [Json -> SUBSET Json]
  /\ \A json \in Json :
       Leaves[json] = IF json = NULL THEN {}
                      ELSE IF Is("object", json) \/ Is("array", json)
                           THEN UNION {Leaves[v] : v \in Inside(json)}
                           ELSE {json}
<1> DEFINE S == SUBSET Json
           body(f, json) == IF json = NULL THEN {}
                            ELSE IF Is("object", json) \/ Is("array", json)
                                 THEN UNION {f[v] : v \in Inside(json)}
                                 ELSE {json}
           make == [json \in Json |-> [f \in [Json -> S] |-> body(f, json)]]
           is(f) == f = [json \in Json |-> body(f, json)]
<1>1. make \in Makers(Json, S)
  <2>1. ASSUME NEW json \in Json, NEW f \in [Json -> S]
        PROVE  body(f, json) \in S
    BY InsideIsDeeper
  <2> HIDE DEF body, S
  <2> QED BY <2>1 DEF Makers
<1>2. FromLower(Json, S, Depth, make)
  <2>1. ASSUME NEW json \in Json, NEW f \in [Json -> S], NEW g \in [Json -> S],
               \A u \in Json : Depth[u] < Depth[json] => f[u] = g[u]
        PROVE  make[json][f] = make[json][g]
    <3>1. \A v \in Inside(json) : f[v] = g[v]
      BY <2>1, InsideIsDeeper
    <3>2. {f[v] : v \in Inside(json)} = {g[v] : v \in Inside(json)}
      BY <3>1
    <3> QED BY <3>2
  <2> QED BY <2>1 DEF FromLower
<1>3. PICK f : Ranked(f, Json, S, make)
  <2>1. MaxDepth \in Nat /\ Depth \in [Json -> 0 .. MaxDepth] /\ S # {}
    BY JsonAssumption
  <2> HIDE DEF S, make
  <2> QED BY <1>1, <1>2, <2>1, RecursionByRank
<1>4. is(f)
  BY <1>3 DEF Ranked
<1>5. is(Leaves)
  BY <1>4 DEF Leaves
<1>6. \A json \in Json : Leaves[json] = body(Leaves, json)
  BY <1>5
<1> HIDE DEF is, body
<1> DEFINE T == {json \in Json : Leaves[json] \in S}
<1>7. ASSUME NEW json \in Json, \A v \in Json : Depth[v] < Depth[json] => v \in T
      PROVE  json \in T
  <2>1. \A v \in Inside(json) : Leaves[v] \subseteq Json
    BY <1>7, InsideIsDeeper
  <2>2. body(Leaves, json) \in S
    BY <2>1 DEF body
  <2> QED BY <1>6, <2>2
<1>8. Json \subseteq T
  <2>1. MaxDepth \in Nat /\ Depth \in [Json -> 0 .. MaxDepth]
    BY JsonAssumption
  <2> HIDE DEF T
  <2> QED BY <1>7, <2>1, InductionByRank
<1>9. Leaves \in [Json -> S]
  <2>1. Leaves = [json \in Json |-> body(Leaves, json)]
    BY <1>5 DEF is
  <2> QED BY <1>8, <2>1
<1> QED BY <1>6, <1>9 DEF body

(* A value has what those in it have, and what a path leads to. *)
LEMMA LeavesInside ==
  ASSUME NEW json \in Json
  PROVE  /\ \A v \in Inside(json) : Leaves[v] \subseteq Leaves[json]
         /\ Is("string", json) \/ Is("int", json) \/ Is("double", json) \/ Is("boolean", json)
              => Leaves[json] = {json}
<1>1. ASSUME NEW v \in Inside(json)
      PROVE  Leaves[v] \subseteq Leaves[json]
  <2>1. Is("object", json) \/ Is("array", json)
    BY DEF Inside
  <2>2. json # NULL
    BY <2>1 DEF Is
  <2> QED BY <2>1, <2>2, LeavesBySteps
<1>2. ASSUME Is("string", json) \/ Is("int", json) \/ Is("double", json) \/ Is("boolean", json)
      PROVE  Leaves[json] = {json}
  <2>1. json # NULL /\ ~Is("object", json) /\ ~Is("array", json)
    BY <1>2 DEF Is
  <2> QED BY <2>1, LeavesBySteps
<1> QED BY <1>1, <1>2

(* A path leads to a value of the answer, and to no leaf that is not in it. *)
LEMMA PathInJson ==
  ASSUME NEW json \in Json, NEW path, Len(path) \in Nat
  PROVE  /\ getObj(json, path) \in Json
         /\ Leaves[getObj(json, path)] \subseteq Leaves[json]
<1> DEFINE S == {v \in Json : Leaves[v] \subseteq Leaves[json]}
<1>1. ASSUME NEW v \in S, NEW name
      PROVE  Member(v, name) \in S
  <2>1. CASE Is("object", v) /\ name \in DOMAIN v.object
    <3>1. Member(v, name) = v.object[name] /\ v.object[name] \in Inside(v)
      BY <2>1, JsonCases DEF Member
    <3>2. Member(v, name) \in Json /\ Leaves[Member(v, name)] \subseteq Leaves[v]
      BY <3>1, InsideIsDeeper, LeavesInside
    <3> QED BY <3>2
  <2>2. CASE ~(Is("object", v) /\ name \in DOMAIN v.object)
    <3>1. Member(v, name) = NULL
      BY <2>2 DEF Member
    <3>2. NULL \in Json
      BY JsonAssumption
    <3>3. Leaves[NULL] = {}
      BY <3>2, LeavesBySteps
    <3> QED BY <3>1, <3>2, <3>3
  <2> QED BY <2>1, <2>2
<1>2. json \in S
  OBVIOUS
<1>3. getObj(json, path) \in S
  <2> HIDE DEF S
  <2> QED BY <1>1, <1>2, PathStays
<1> QED BY <1>3

-----------------------------------------------------------------------------
(* What is printed of some leaves is printed of more of them. *)
LEMMA PrintedAsMore ==
  ASSUME NEW L, NEW M, L \subseteq M
  PROVE  PrintedAs(L) \subseteq PrintedAs(M)
<1> DEFINE ints(S) == {ToInt(v.int) : v \in {u \in S : Is("int", u)}} \cup {0}
<1>1. ints(L) \subseteq ints(M)
  OBVIOUS
<1>2. \A S : PrintedAs(S) = S \cup [int : ints(S)] \cup [double : ints(S)]
                            \cup {[string |-> NotFound], [boolean |-> FALSE]}
  BY DEF PrintedAs
<1> HIDE DEF ints
<1>3. [int : ints(L)] \subseteq [int : ints(M)]
  BY <1>1
<1>4. [double : ints(L)] \subseteq [double : ints(M)]
  BY <1>1
<1> QED BY <1>2, <1>3, <1>4

(* What the accessors find, and what is printed of it. *)
LEMMA Accessed ==
  ASSUME NEW json \in Json, NEW path, Len(path) \in Nat
  PROVE  /\ getObjString(json, path) \in Texts \cup {NULL}
         /\ getObjInt(json, path) \in Int
         /\ ShownString(json, path) \in [value : PrintedAs(Leaves[json])]
         /\ Shown("int", getObjInt(json, path)) \in [value : PrintedAs(Leaves[json])]
         /\ Shown("double", getObjNumber(json, path)) \in [value : PrintedAs(Leaves[json])]
         /\ Shown("boolean", getObjBool(json, path)) \in [value : PrintedAs(Leaves[json])]
<1> DEFINE o == getObj(json, path)
           L == Leaves[json]
           ints == {ToInt(v.int) : v \in {u \in L : Is("int", u)}} \cup {0}
<1>1. o \in Json /\ Leaves[o] \subseteq L
  BY PathInJson
<1>2. PrintedAs(L) = L \cup [int : ints] \cup [double : ints]
                     \cup {[string |-> NotFound], [boolean |-> FALSE]}
  BY DEF PrintedAs
<1>3. /\ getObjString(json, path) = IF Is("string", o) THEN o.string ELSE NULL
      /\ getObjInt(json, path) = IF Is("int", o) THEN ToInt(o.int) ELSE 0
      /\ getObjNumber(json, path) = IF Is("double", o) THEN o.double
                                    ELSE IF Is("int", o) THEN ToInt(o.int) ELSE 0
      /\ getObjBool(json, path) = (Is("boolean", o) /\ o.boolean)
  BY DEF getObjString, getObjInt, getObjNumber, getObjBool
<1> HIDE DEF o, L
<1>4. /\ Is("string", o) => o.string \in Texts /\ o = [string |-> o.string] /\ o \in L
      /\ Is("int", o) => o.int \in Int /\ ToInt(o.int) \in ints
      /\ Is("double", o) => o = [double |-> o.double] /\ o \in L
      /\ Is("boolean", o) => o.boolean \in BOOLEAN /\ o = [boolean |-> o.boolean] /\ o \in L
      /\ 0 \in ints
  BY <1>1, JsonCases, LeavesInside
<1>5. \A n \in Int : ToInt(n) \in Int
  BY JsonAssumption DEF ToInt
<1> HIDE DEF ints
<1>6. getObjString(json, path) \in Texts \cup {NULL} /\ getObjInt(json, path) \in Int
  BY <1>3, <1>4, <1>5
<1>7. ASSUME NEW t, NEW v
      PROVE  Shown(t, v) = [value |-> [u \in {t} |-> v]]
  BY DEF Shown
<1>8. \A v : /\ [u \in {"string"} |-> v] = [string |-> v]
             /\ [u \in {"int"} |-> v] = [int |-> v]
             /\ [u \in {"double"} |-> v] = [double |-> v]
             /\ [u \in {"boolean"} |-> v] = [boolean |-> v]
  OBVIOUS
<1>9. ShownString(json, path) \in [value : PrintedAs(L)]
  <2>1. [string |-> affString(getObjString(json, path))] \in PrintedAs(L)
    BY <1>2, <1>3, <1>4 DEF affString
  <2> QED BY <1>7, <1>8, <2>1 DEF ShownString
<1>10. Shown("int", getObjInt(json, path)) \in [value : PrintedAs(L)]
  <2>1. [int |-> getObjInt(json, path)] \in PrintedAs(L)
    BY <1>2, <1>3, <1>4
  <2> QED BY <1>7, <1>8, <2>1
<1>11. Shown("double", getObjNumber(json, path)) \in [value : PrintedAs(L)]
  <2>1. [double |-> getObjNumber(json, path)] \in PrintedAs(L)
    BY <1>2, <1>3, <1>4, <1>5
  <2> QED BY <1>7, <1>8, <2>1
<1>12. Shown("boolean", getObjBool(json, path)) \in [value : PrintedAs(L)]
  <2>1. [boolean |-> getObjBool(json, path)] \in PrintedAs(L)
    <3>1. CASE Is("boolean", o) /\ o.boolean
      <4>1. getObjBool(json, path) = TRUE /\ o = [boolean |-> TRUE]
        BY <1>3, <1>4, <3>1
      <4> QED BY <1>2, <1>4, <3>1, <4>1
    <3>2. CASE ~(Is("boolean", o) /\ o.boolean)
      <4>1. getObjBool(json, path) = FALSE
        BY <1>3, <3>2
      <4> QED BY <1>2, <4>1
    <3> QED BY <3>1, <3>2
  <2> QED BY <1>7, <1>8, <2>1
<1> QED BY <1>6, <1>9, <1>10, <1>11, <1>12 DEF L

-----------------------------------------------------------------------------
(* The sequence of the keys of an object has each of them. *)
LEMMA SetInSequence ==
  ASSUME NEW S, IsFiniteSet(S)
  PROVE  /\ SetToSeq(S) \in Seq(S)
         /\ DOMAIN SetToSeq(S) = 1 .. Cardinality(S) /\ Cardinality(S) \in Nat
<1>1. Cardinality(S) \in Nat /\ ExistsBijection(1 .. Cardinality(S), S)
  BY FS_CardinalityType
<1>2. \E f \in [1 .. Cardinality(S) -> S] : IsInjective(f)
  BY <1>1 DEF ExistsBijection, Bijection, Injection
<1>3. SetToSeq(S) \in [1 .. Cardinality(S) -> S]
  BY <1>2 DEF SetToSeq
<1> QED BY <1>1, <1>3

(* Keys of objects, and what printObject() prints. *)
Keys == UNION {DOMAIN json.object : json \in {v \in Json : Is("object", v)}}
Raw(values) == [value : values] \cup [key : Keys]

(* What a value is printed as, by what those in it are. *)
PrintedBy(f, json) ==
  CASE json = NULL -> <<>>
    [] Is("object", json) ->
         LET keys == SetToSeq(DOMAIN json.object)
         IN  FlattenSeq([i \in DOMAIN keys |-> <<[key |-> keys[i]]>> \o f[json.object[keys[i]]]])
    [] Is("array", json) -> FlattenSeq([i \in DOMAIN json.array |-> f[json.array[i]]])
    [] OTHER -> <<[value |-> json]>>

(* The cases of printObject() as one function of a value and of what is printed
   of the values in it. *)
LEMMA PrintedCases ==
  ASSUME NEW json \in Json, NEW f
  PROVE  LET keys == SetToSeq(DOMAIN json.object)
         IN  /\ json = NULL => PrintedBy(f, json) = <<>>
             /\ Is("object", json) => PrintedBy(f, json) =
                  FlattenSeq([i \in DOMAIN keys |-> <<[key |-> keys[i]]>> \o f[json.object[keys[i]]]])
             /\ Is("array", json) => PrintedBy(f, json) =
                  FlattenSeq([i \in DOMAIN json.array |-> f[json.array[i]]])
             /\ json # NULL /\ ~Is("object", json) /\ ~Is("array", json) =>
                  PrintedBy(f, json) = <<[value |-> json]>>
<1>1. /\ Is("object", json) => json # NULL /\ ~Is("array", json)
      /\ Is("array", json) => json # NULL /\ ~Is("object", json)
  BY DEF Is
<1>2. json = NULL => ~Is("object", json) /\ ~Is("array", json)
  BY DEF Is
<1> QED BY <1>1, <1>2 DEF PrintedBy

(* It is what those in it are printed as, keys, or itself. *)
LEMMA PrintedIn ==
  ASSUME NEW json \in Json, NEW f, NEW L, ~Is("object", json) /\ ~Is("array", json) => json \in L,
         \A v \in Inside(json) : f[v] \in Seq(Raw(L))
  PROVE  PrintedBy(f, json) \in Seq(Raw(L))
<1> DEFINE R == Raw(L)
           keys == SetToSeq(DOMAIN json.object)
<1>1. CASE Is("object", json)
  <2>1. keys \in Seq(DOMAIN json.object)
    BY <1>1, JsonCases, SetInSequence
  <2> HIDE DEF keys, R
  <2>2. ASSUME NEW i \in DOMAIN keys
        PROVE  <<[key |-> keys[i]]>> \o f[json.object[keys[i]]] \in Seq(R)
    <3>1. keys[i] \in DOMAIN json.object
      BY <2>1
    <3>2. keys[i] \in Keys /\ json.object[keys[i]] \in Inside(json)
      BY <1>1, <3>1, JsonCases DEF Keys
    <3>3. [key |-> keys[i]] \in R
      BY <3>2 DEF R, Raw
    <3>4. f[json.object[keys[i]]] \in Seq(R)
      BY <3>2 DEF R
    <3> QED BY <3>3, <3>4
  <2> DEFINE all == [i \in DOMAIN keys |-> <<[key |-> keys[i]]>> \o f[json.object[keys[i]]]]
  <2>3. DOMAIN keys = 1 .. Len(keys) /\ Len(keys) \in Nat
    BY <2>1
  <2>4. all \in Seq(Seq(R))
    <3>1. all \in [1 .. Len(keys) -> Seq(R)]
      BY <2>2, <2>3
    <3> HIDE DEF all
    <3> QED BY <2>3, <3>1
  <2>5. PrintedBy(f, json) = FlattenSeq(all)
    BY <1>1, PrintedCases DEF keys
  <2> HIDE DEF all
  <2> QED BY <2>4, <2>5, FlattenIn DEF R
<1>2. CASE Is("array", json)
  <2> DEFINE all == [i \in DOMAIN json.array |-> f[json.array[i]]]
  <2>1. json.array \in Seq(Json) /\ Inside(json) = ToSet(json.array)
    BY <1>2, JsonCases
  <2>2. all \in Seq(Seq(R))
    <3>1. DOMAIN json.array = 1 .. Len(json.array) /\ Len(json.array) \in Nat
      BY <2>1
    <3>2. \A i \in DOMAIN json.array : f[json.array[i]] \in Seq(R)
      BY <2>1 DEF ToSet
    <3> HIDE DEF R
    <3>3. all \in [1 .. Len(json.array) -> Seq(R)]
      BY <3>1, <3>2
    <3> HIDE DEF all
    <3> QED BY <3>1, <3>3
  <2>3. PrintedBy(f, json) = FlattenSeq(all)
    BY <1>2, PrintedCases
  <2> HIDE DEF all
  <2> QED BY <2>2, <2>3, FlattenIn
<1>3. CASE ~Is("object", json) /\ ~Is("array", json)
  <2>1. PrintedBy(f, json) \in {<<>>, <<[value |-> json]>>}
    BY <1>3, PrintedCases
  <2>2. [value |-> json] \in R
    BY <1>3 DEF Raw
  <2> HIDE DEF R
  <2>3. <<>> \in Seq(R) /\ <<[value |-> json]>> \in Seq(R)
    BY <2>2
  <2> QED BY <2>1, <2>3 DEF R
<1> QED BY <1>1, <1>2, <1>3

(* Nothing else matters to it than those in it. *)
LEMMA PrintedBySame ==
  ASSUME NEW json \in Json, NEW f, NEW g, \A v \in Inside(json) : f[v] = g[v]
  PROVE  PrintedBy(f, json) = PrintedBy(g, json)
<1> DEFINE keys == SetToSeq(DOMAIN json.object)
           byKey(h) == [i \in DOMAIN keys |-> <<[key |-> keys[i]]>> \o h[json.object[keys[i]]]]
           byIndex(h) == [i \in DOMAIN json.array |-> h[json.array[i]]]
<1>1. CASE Is("object", json)
  <2>1. keys \in Seq(DOMAIN json.object)
    BY <1>1, JsonCases, SetInSequence
  <2>2. \A i \in DOMAIN keys : json.object[keys[i]] \in Inside(json)
    <3>1. \A i \in DOMAIN keys : keys[i] \in DOMAIN json.object
      BY <2>1
    <3> QED BY <1>1, <3>1, JsonCases
  <2>3. byKey(f) = byKey(g)
    BY <2>2
  <2> HIDE DEF byKey
  <2>4. PrintedBy(f, json) = FlattenSeq(byKey(f)) /\ PrintedBy(g, json) = FlattenSeq(byKey(g))
    BY <1>1, PrintedCases DEF byKey
  <2> QED BY <2>3, <2>4
<1>2. CASE Is("array", json)
  <2>1. \A i \in DOMAIN json.array : json.array[i] \in Inside(json)
    BY <1>2, JsonCases DEF ToSet
  <2>2. byIndex(f) = byIndex(g)
    BY <2>1
  <2> HIDE DEF byIndex
  <2>3. PrintedBy(f, json) = FlattenSeq(byIndex(f)) /\ PrintedBy(g, json) = FlattenSeq(byIndex(g))
    BY <1>2, PrintedCases DEF byIndex
  <2> QED BY <2>2, <2>3
<1>3. CASE ~Is("object", json) /\ ~Is("array", json)
  BY <1>3, PrintedCases
<1> QED BY <1>1, <1>2, <1>3

(* printObject() prints the leaves of a value, and keys. *)
LEMMA PrintsLeaves ==
  ASSUME NEW json \in Json
  PROVE  printObject[json] \in Seq(Raw(Leaves[json]))
<1> DEFINE S == Seq(Raw(Json))
           make == [v \in Json |-> [f \in [Json -> S] |-> PrintedBy(f, v)]]
           is(f) == f = [v \in Json |-> PrintedBy(f, v)]
<1>1. make \in Makers(Json, S)
  <2>1. ASSUME NEW v \in Json, NEW f \in [Json -> S]
        PROVE  PrintedBy(f, v) \in S
    <3>1. \A u \in Inside(v) : f[u] \in Seq(Raw(Json))
      BY InsideIsDeeper
    <3> HIDE DEF S
    <3> QED BY <3>1, PrintedIn DEF S
  <2> HIDE DEF S
  <2> QED BY <2>1 DEF Makers
<1>2. FromLower(Json, S, Depth, make)
  <2>1. ASSUME NEW v \in Json, NEW f \in [Json -> S], NEW g \in [Json -> S],
               \A u \in Json : Depth[u] < Depth[v] => f[u] = g[u]
        PROVE  make[v][f] = make[v][g]
    <3>1. \A u \in Inside(v) : f[u] = g[u]
      BY <2>1, InsideIsDeeper
    <3>2. PrintedBy(f, v) = PrintedBy(g, v)
      BY <3>1, PrintedBySame
    <3> HIDE DEF S
    <3> QED BY <3>2
  <2> HIDE DEF S, make
  <2> QED BY <2>1 DEF FromLower
<1>3. PICK f : Ranked(f, Json, S, make)
  <2>1. MaxDepth \in Nat /\ Depth \in [Json -> 0 .. MaxDepth]
    BY JsonAssumption
  <2>2. S # {}
    <3>1. <<>> \in S
      OBVIOUS
    <3> QED BY <3>1
  <2> HIDE DEF S, make
  <2> QED BY <1>1, <1>2, <2>1, <2>2, RecursionByRank
<1>4. is(f)
  <2> HIDE DEF S
  <2> QED BY <1>3 DEF Ranked
<1>5. is(printObject)
  <2> HIDE DEF S
  <2> QED BY <1>4 DEF printObject, PrintedBy
<1>6. \A v \in Json : printObject[v] = PrintedBy(printObject, v)
  BY <1>5
<1> HIDE DEF is, S, make
<1> DEFINE T == {v \in Json : printObject[v] \in Seq(Raw(Leaves[v]))}
<1>7. ASSUME NEW v \in Json, \A u \in Json : Depth[u] < Depth[v] => u \in T
      PROVE  v \in T
  <2>1. ASSUME NEW u \in Inside(v)
        PROVE  printObject[u] \in Seq(Raw(Leaves[v]))
    <3>1. u \in T /\ Leaves[u] \subseteq Leaves[v]
      BY <1>7, InsideIsDeeper, LeavesInside
    <3>2. Raw(Leaves[u]) \subseteq Raw(Leaves[v])
      BY <3>1 DEF Raw
    <3> DEFINE A == Raw(Leaves[u])
               B == Raw(Leaves[v])
    <3>3. printObject[u] \in Seq(A)
      BY <3>1
    <3> HIDE DEF A, B
    <3>4. A \subseteq B
      BY <3>2 DEF A, B
    <3>5. printObject[u] \in Seq(B)
      BY <3>3, <3>4
    <3> QED BY <3>5 DEF B
  <2>2. CASE v = NULL
    <3>1. printObject[v] = <<>>
      BY <1>6, <2>2, PrintedCases
    <3> DEFINE R == Raw(Leaves[v])
    <3> HIDE DEF R
    <3>2. <<>> \in Seq(R)
      OBVIOUS
    <3> QED BY <3>1, <3>2 DEF R
  <2>3. CASE v # NULL
    <3>1. ~Is("object", v) /\ ~Is("array", v) => v \in Leaves[v]
      BY <2>3, LeavesBySteps
    <3>2. PrintedBy(printObject, v) \in Seq(Raw(Leaves[v]))
      BY <2>1, <3>1, PrintedIn
    <3> QED BY <1>6, <3>2
  <2> QED BY <2>2, <2>3
<1>8. Json \subseteq T
  <2>1. MaxDepth \in Nat /\ Depth \in [Json -> 0 .. MaxDepth]
    BY JsonAssumption
  <2> HIDE DEF T
  <2> QED BY <1>7, <2>1, InductionByRank
<1> QED BY <1>8

-----------------------------------------------------------------------------
(* The elements of an answer. *)
LEMMA ElementsIn ==
  ASSUME NEW json \in Json
  PROVE  /\ Elements(json) \in Seq(Json)
         /\ DOMAIN Elements(json) = 1 .. Len(Elements(json)) /\ Len(Elements(json)) \in Nat
         /\ \A i \in DOMAIN Elements(json) :
              Elements(json)[i] \in Json /\ Leaves[Elements(json)[i]] \subseteq Leaves[json]
<1>1. CASE Is("array", json)
  <2>1. Elements(json) = json.array /\ json.array \in Seq(Json) /\ Inside(json) = ToSet(json.array)
    BY <1>1, JsonCases DEF Elements
  <2>2. \A i \in DOMAIN json.array : json.array[i] \in Inside(json)
    BY <2>1 DEF ToSet
  <2>3. \A v \in Inside(json) : v \in Json /\ Leaves[v] \subseteq Leaves[json]
    BY InsideIsDeeper, LeavesInside
  <2> QED BY <2>1, <2>2, <2>3
<1>2. CASE ~Is("array", json)
  BY <1>2 DEF Elements
<1> QED BY <1>1, <1>2

(* What is displayed of each of a number of values, one after the other. *)
LEMMA FlattenEach ==
  ASSUME NEW S, NEW n \in Nat, NEW ss \in [1 .. n -> Seq(S)]
  PROVE  FlattenSeq(ss) \in Seq(S)
<1> DEFINE Q == Seq(S)
<1>1. ss \in Seq(Q)
  <2> HIDE DEF Q
  <2>1. ss \in [1 .. n -> Q]
    BY DEF Q
  <2> QED BY <2>1
<1> QED BY <1>1, FlattenIn

(* Gateway and scan_Devices print values of the answer. *)
LEMMA GatewayShowsSent ==
  ASSUME NEW json \in Json
  PROVE  ShowGateway(json) \in Seq([value : PrintedAs(Leaves[json])])
<1> DEFINE e == Elements(json)[1]
           P(v) == [value : PrintedAs(Leaves[v])]
<1>1. CASE Elements(json) = <<>> \/ e = NULL
  <2>1. ShowGateway(json) = <<>>
    BY <1>1 DEF ShowGateway
  <2> HIDE DEF P
  <2>2. <<>> \in Seq(P(json))
    OBVIOUS
  <2> QED BY <2>1, <2>2 DEF P
<1>2. CASE ~(Elements(json) = <<>> \/ e = NULL)
  <2>1. e \in Json /\ Leaves[e] \subseteq Leaves[json]
    BY <1>2, ElementsIn
  <2> HIDE DEF e
  <2>2. P(e) \subseteq P(json)
    <3>1. PrintedAs(Leaves[e]) \subseteq PrintedAs(Leaves[json])
      BY <2>1, PrintedAsMore
    <3> QED BY <3>1
  <2>3. /\ Len(<<"gatewayId">>) \in Nat /\ Len(<<"connectivity", "status">>) \in Nat
        /\ Len(<<"connectivity", "protocolVersion">>) \in Nat
    OBVIOUS
  <2>4. /\ ShownString(e, <<"gatewayId">>) \in P(e)
        /\ ShownString(e, <<"connectivity", "status">>) \in P(e)
        /\ ShownString(e, <<"connectivity", "protocolVersion">>) \in P(e)
    BY <2>1, <2>3, Accessed
  <2>5. ShowGateway(json) = << ShownString(e, <<"gatewayId">>),
                               ShownString(e, <<"connectivity", "status">>),
                               ShownString(e, <<"connectivity", "protocolVersion">>) >>
    BY <1>2 DEF ShowGateway, e
  <2> HIDE DEF P
  <2> QED BY <2>2, <2>4, <2>5 DEF P
<1> QED BY <1>1, <1>2

(* scan_Devices prints what was sent. *)
LEMMA ScanShowsSent ==
  ASSUME NEW json \in Json
  PROVE  ShowScan(json) \in Seq([value : PrintedAs(Leaves[json])])
<1> DEFINE P(v) == [value : PrintedAs(Leaves[v])]
           e(i) == Elements(json)[i]
           all == [i \in DOMAIN Elements(json) |-> IF e(i) = NULL THEN <<>> ELSE printDeviceInfo(e(i))]
           n == Len(Elements(json))
<1>1. ASSUME NEW i \in DOMAIN Elements(json)
      PROVE  printDeviceInfo(e(i)) \in Seq(P(json))
  <2>1. e(i) \in Json /\ Leaves[e(i)] \subseteq Leaves[json]
    BY ElementsIn
  <2>2. PrintedAs(Leaves[e(i)]) \subseteq PrintedAs(Leaves[json])
    BY <2>1, PrintedAsMore
  <2>3. P(e(i)) \subseteq P(json)
    BY <2>2
  <2> HIDE DEF e
  <2>4. /\ Len(<<"label">>) \in Nat /\ Len(<<"controllableName">>) \in Nat
        /\ Len(<<"deviceURL">>) \in Nat /\ Len(<<"type">>) \in Nat
        /\ Len(<<"subsystemId">>) \in Nat /\ Len(<<"synced">>) \in Nat
        /\ Len(<<"enabled">>) \in Nat /\ Len(<<"available">>) \in Nat
        /\ Len(<<"definition", "type">>) \in Nat
    OBVIOUS
  <2>5. /\ ShownString(e(i), <<"label">>) \in P(e(i))
        /\ ShownString(e(i), <<"controllableName">>) \in P(e(i))
        /\ ShownString(e(i), <<"deviceURL">>) \in P(e(i))
        /\ Shown("int", getObjInt(e(i), <<"type">>)) \in P(e(i))
        /\ Shown("int", getObjInt(e(i), <<"subsystemId">>)) \in P(e(i))
        /\ Shown("boolean", getObjBool(e(i), <<"synced">>)) \in P(e(i))
        /\ Shown("boolean", getObjBool(e(i), <<"enabled">>)) \in P(e(i))
        /\ Shown("boolean", getObjBool(e(i), <<"available">>)) \in P(e(i))
        /\ ShownString(e(i), <<"definition", "type">>) \in P(e(i))
    BY <2>1, <2>4, Accessed
  <2> HIDE DEF P
  <2> QED BY <2>3, <2>5 DEF printDeviceInfo
<1>2. n \in Nat /\ DOMAIN Elements(json) = 1 .. n
  BY ElementsIn
<1>3. all \in [1 .. n -> Seq(P(json))]
  <2> HIDE DEF P, n
  <2>1. <<>> \in Seq(P(json))
    OBVIOUS
  <2> HIDE DEF e
  <2> QED BY <1>1, <1>2, <2>1
<1>4. ShowScan(json) = FlattenSeq(all)
  BY DEF ShowScan
<1> HIDE DEF all, n
<1> QED BY <1>2, <1>3, <1>4, FlattenEach

(* A state is printed as one of its values, or as an unknown type. *)
Valued(leaves) == Raw(PrintedAs(leaves)) \cup [unknown : Int]

(* The value of a state in the midst of others. *)
LEMMA ValuedMore ==
  ASSUME NEW L, NEW M, L \subseteq M
  PROVE  /\ Valued(L) \subseteq Valued(M)
         /\ Raw(L) \subseteq Valued(M)
<1>1. PrintedAs(L) \subseteq PrintedAs(M) /\ L \subseteq PrintedAs(M)
  BY PrintedAsMore DEF PrintedAs
<1> QED BY <1>1 DEF Valued, Raw

(* A sequence over a set is one over a greater set. *)
LEMMA SeqMore ==
  ASSUME NEW A, NEW B, A \subseteq B, NEW s \in Seq(A)
  PROVE  s \in Seq(B)
  OBVIOUS

(* The value of a state is printed of what was sent of it. *)
LEMMA ValueOfState ==
  ASSUME NEW state \in Json
  PROVE  ShowValue(state) \in Seq(Valued(Leaves[state]))
<1> DEFINE V == Valued(Leaves[state])
           P == [value : PrintedAs(Leaves[state])]
           type == getObjInt(state, <<"type">>)
           o == getObj(state, <<"value">>)
           any == printObject[o]
<1>1. Len(<<"type">>) \in Nat /\ Len(<<"value">>) \in Nat
  OBVIOUS
<1>2. type \in Int /\ o \in Json /\ Leaves[o] \subseteq Leaves[state]
  BY <1>1, Accessed, PathInJson
<1>3. any \in Seq(V)
  <2> HIDE DEF o
  <2>1. any \in Seq(Raw(Leaves[o]))
    BY <1>2, PrintsLeaves
  <2>2. Raw(Leaves[o]) \subseteq V
    BY <1>2, ValuedMore
  <2> HIDE DEF any, V
  <2> QED BY <2>1, <2>2, SeqMore
<1>4. P \subseteq V
  BY DEF Valued, Raw
<1>5. /\ Shown("int", getObjInt(state, <<"value">>)) \in P
      /\ Shown("double", getObjNumber(state, <<"value">>)) \in P
      /\ ShownString(state, <<"value">>) \in P
      /\ Shown("boolean", getObjBool(state, <<"value">>)) \in P
  BY <1>1, Accessed
<1>6. [unknown |-> type] \in V
  BY <1>2 DEF Valued
<1> HIDE DEF V, P
<1>7. /\ << Shown("int", getObjInt(state, <<"value">>)) >> \in Seq(V)
      /\ << Shown("double", getObjNumber(state, <<"value">>)) >> \in Seq(V)
      /\ << ShownString(state, <<"value">>) >> \in Seq(V)
      /\ << Shown("boolean", getObjBool(state, <<"value">>)) >> \in Seq(V)
      /\ << [unknown |-> type] >> \in Seq(V)
  BY <1>4, <1>5, <1>6
<1>8. << Shown("boolean", getObjBool(state, <<"value">>)) >> \o any \in Seq(V)
  BY <1>3, <1>7
<1> HIDE DEF type, any
<1> QED
  <2>1. ShowValue(state) =
          CASE type = 1 -> << Shown("int", getObjInt(state, <<"value">>)) >>
            [] type = 2 -> << Shown("double", getObjNumber(state, <<"value">>)) >>
            [] type = 3 -> << ShownString(state, <<"value">>) >>
            [] type = 6 -> << Shown("boolean", getObjBool(state, <<"value">>)) >> \o any
            [] type \in {10, 11} -> any
            [] OTHER -> << [unknown |-> type] >>
    BY DEF ShowValue, type, any
  <2> HIDE DEF V
  <2>2. CASE type = 1
    BY <1>7, <2>1, <2>2 DEF V
  <2>3. CASE type = 2
    BY <1>7, <2>1, <2>3 DEF V
  <2>4. CASE type = 3
    BY <1>7, <2>1, <2>4 DEF V
  <2>5. CASE type = 6
    BY <1>8, <2>1, <2>5 DEF V
  <2>6. CASE type \in {10, 11}
    BY <1>3, <2>1, <2>6 DEF V
  <2>7. CASE type \notin {1, 2, 3, 6, 10, 11}
    BY <1>7, <2>1, <2>7 DEF V
  <2> QED BY <2>2, <2>3, <2>4, <2>5, <2>6, <2>7

(* What States prints: values of the states that are selected, and their
   names. *)
SelectedOf(json, name) == {e \in ToSet(Elements(json)) : Selected(e, name)}
Stated(states) == Valued(UNION {Leaves[e] : e \in states}) \cup [state : Texts]

(* What States prints of one state it selects. *)
LEMMA ShowOfState ==
  ASSUME NEW json \in Json, NEW name, NEW e \in SelectedOf(json, name)
  PROVE  /\ getObjString(e, <<"name">>) \in Texts /\ e \in Json
         /\ <<[state |-> getObjString(e, <<"name">>)]>> \in Seq(Stated(SelectedOf(json, name)))
         /\ ShowValue(e) \in Seq(Stated(SelectedOf(json, name)))
<1> DEFINE S == Stated(SelectedOf(json, name))
           n == getObjString(e, <<"name">>)
<1>1. e \in Json
  BY ElementsIn DEF SelectedOf, ToSet
<1>2. Len(<<"name">>) \in Nat
  OBVIOUS
<1>3. n \in Texts
  <2>1. n # NULL
    BY DEF SelectedOf, Selected
  <2> QED BY <1>1, <1>2, <2>1, Accessed
<1>4. [state |-> n] \in S
  BY <1>3 DEF Stated
<1>5. Valued(Leaves[e]) \subseteq S
  <2> DEFINE L == UNION {Leaves[u] : u \in SelectedOf(json, name)}
  <2>1. Leaves[e] \subseteq L
    OBVIOUS
  <2> HIDE DEF L
  <2>2. Valued(Leaves[e]) \subseteq Valued(L)
    BY <2>1, ValuedMore
  <2> QED BY <2>2 DEF Stated, L
<1>6. ShowValue(e) \in Seq(S)
  <2>1. ShowValue(e) \in Seq(Valued(Leaves[e]))
    BY <1>1, ValueOfState
  <2> HIDE DEF S
  <2> QED BY <1>5, <2>1, SeqMore
<1>7. <<[state |-> n]>> \in Seq(S)
  <2> HIDE DEF S
  <2> QED BY <1>4
<1> QED BY <1>1, <1>3, <1>6, <1>7

(* internal_States() prints values of the states it selects. *)
LEMMA StatesShowSelected ==
  ASSUME NEW json \in Json, NEW name
  PROVE  ShowStates(json, name) \in Seq(Stated(SelectedOf(json, name)))
<1> DEFINE S == Stated(SelectedOf(json, name))
           e(i) == Elements(json)[i]
           title(i) == IF name = NULL THEN <<[state |-> getObjString(e(i), <<"name">>)]>> ELSE <<>>
           show(i) == IF Selected(e(i), name) THEN title(i) \o ShowValue(e(i)) ELSE <<>>
           all == [i \in DOMAIN Elements(json) |-> show(i)]
           n == Len(Elements(json))
<1>1. ASSUME NEW i \in DOMAIN Elements(json)
      PROVE  show(i) \in Seq(S)
  <2>1. CASE Selected(e(i), name)
    <3>1. e(i) \in SelectedOf(json, name)
      BY <2>1 DEF SelectedOf, ToSet
    <3> HIDE DEF e
    <3>2. <<[state |-> getObjString(e(i), <<"name">>)]>> \in Seq(S) /\ ShowValue(e(i)) \in Seq(S)
      BY <3>1, ShowOfState
    <3> HIDE DEF S
    <3>3. title(i) \in Seq(S)
      <4>1. <<>> \in Seq(S)
        OBVIOUS
      <4> QED BY <3>2, <4>1
    <3> HIDE DEF title
    <3>4. title(i) \o ShowValue(e(i)) \in Seq(S)
      BY <3>2, <3>3
    <3> QED BY <2>1, <3>4
  <2>2. CASE ~Selected(e(i), name)
    <3> HIDE DEF S
    <3>1. <<>> \in Seq(S)
      OBVIOUS
    <3> QED BY <2>2, <3>1
  <2> QED BY <2>1, <2>2
<1>2. n \in Nat /\ DOMAIN Elements(json) = 1 .. n
  BY ElementsIn
<1>3. all \in [1 .. n -> Seq(S)]
  <2> HIDE DEF show, S, n
  <2> QED BY <1>1, <1>2
<1>4. ShowStates(json, name) = FlattenSeq(all)
  BY DEF ShowStates
<1> HIDE DEF all, n
<1> QED BY <1>2, <1>3, <1>4, FlattenEach

-----------------------------------------------------------------------------
(* What Current prints: values of the answer, keys, and labels of URLs. *)
Labelled(list) == {[label |-> LabelOf(list, u), url |-> u] : u \in Texts \cup {NULL}}
Running(list, leaves) == Raw(PrintedAs(leaves)) \cup Labelled(list)

(* The actions of an execution are in the answer. *)
LEMMA ActionsIn ==
  ASSUME NEW json \in Json
  PROVE  /\ DOMAIN ActionsOf(json) = 1 .. Len(ActionsOf(json)) /\ Len(ActionsOf(json)) \in Nat
         /\ \A i \in DOMAIN ActionsOf(json) :
              ActionsOf(json)[i] \in Json /\ Leaves[ActionsOf(json)[i]] \subseteq Leaves[json]
<1> DEFINE o == getObj(json, <<"actionGroup", "actions">>)
<1>1. Len(<<"actionGroup", "actions">>) \in Nat
  OBVIOUS
<1>2. o \in Json /\ Leaves[o] \subseteq Leaves[json]
  BY <1>1, PathInJson
<1>3. ActionsOf(json) = Elements(o)
  BY DEF ActionsOf, Elements
<1> HIDE DEF o
<1> QED BY <1>2, <1>3, ElementsIn

(* What Current prints of one action. *)
LEMMA ShowOfAction ==
  ASSUME NEW action \in Json, NEW list, NEW L, Leaves[action] \subseteq L
  PROVE  ShowAction(action, list) \in Seq(Running(list, L))
<1> DEFINE R == Running(list, L)
           url == getObjString(action, <<"deviceURL">>)
           o == getObj(action, <<"commands">>)
<1>1. Len(<<"deviceURL">>) \in Nat /\ Len(<<"commands">>) \in Nat
  OBVIOUS
<1>2. [label |-> LabelOf(list, url), url |-> url] \in R
  <2>1. url \in Texts \cup {NULL}
    BY <1>1, Accessed
  <2> HIDE DEF url
  <2> QED BY <2>1 DEF Running, Labelled
<1>3. Shown("string", affString(url)) \in R
  <2>1. ShownString(action, <<"deviceURL">>) \in [value : PrintedAs(Leaves[action])]
    BY <1>1, Accessed
  <2>2. PrintedAs(Leaves[action]) \subseteq PrintedAs(L)
    BY PrintedAsMore
  <2> QED BY <2>1, <2>2 DEF Running, Raw, ShownString
<1>4. printObject[o] \in Seq(R)
  <2>1. o \in Json /\ Leaves[o] \subseteq L
    BY <1>1, PathInJson
  <2> HIDE DEF o
  <2>2. printObject[o] \in Seq(Raw(Leaves[o]))
    BY <2>1, PrintsLeaves
  <2>3. L \subseteq PrintedAs(L)
    BY DEF PrintedAs
  <2>4. Raw(Leaves[o]) \subseteq R
    BY <2>1, <2>3 DEF Raw, Running
  <2> HIDE DEF R
  <2> QED BY <2>2, <2>4, SeqMore
<1>5. ShowAction(action, list) =
        << [label |-> LabelOf(list, url), url |-> url], Shown("string", affString(url)) >> \o printObject[o]
  BY DEF ShowAction
<1> HIDE DEF R, url, o
<1>6. << [label |-> LabelOf(list, url), url |-> url], Shown("string", affString(url)) >> \in Seq(R)
  BY <1>2, <1>3
<1>7. ShowAction(action, list) \in Seq(R)
  BY <1>4, <1>5, <1>6
<1> QED BY <1>7 DEF R

(* What Current prints of one execution. *)
LEMMA ShowOfExecution ==
  ASSUME NEW json \in Json, NEW list, NEW L, Leaves[json] \subseteq L
  PROVE  ShowExecution(json, list) \in Seq(Running(list, L))
<1> DEFINE R == Running(list, L)
           all == [i \in DOMAIN ActionsOf(json) |-> ShowAction(ActionsOf(json)[i], list)]
           n == Len(ActionsOf(json))
           head == << ShownString(json, <<"id">>), ShownString(json, <<"description">>),
                      ShownString(json, <<"owner">>), ShownString(json, <<"state">>),
                      ShownString(json, <<"executionSubType">>) >>
<1>1. n \in Nat /\ all \in [1 .. n -> Seq(R)]
  <2>1. n \in Nat /\ DOMAIN ActionsOf(json) = 1 .. n
    BY ActionsIn
  <2>2. ASSUME NEW i \in DOMAIN ActionsOf(json)
        PROVE  ShowAction(ActionsOf(json)[i], list) \in Seq(R)
    <3>1. ActionsOf(json)[i] \in Json /\ Leaves[ActionsOf(json)[i]] \subseteq L
      BY ActionsIn
    <3> QED BY <3>1, ShowOfAction
  <2> HIDE DEF R, n
  <2> QED BY <2>1, <2>2
<1>2. head \in Seq(R)
  <2>1. /\ Len(<<"id">>) \in Nat /\ Len(<<"description">>) \in Nat /\ Len(<<"owner">>) \in Nat
        /\ Len(<<"state">>) \in Nat /\ Len(<<"executionSubType">>) \in Nat
    OBVIOUS
  <2>2. PrintedAs(Leaves[json]) \subseteq PrintedAs(L)
    BY PrintedAsMore
  <2>3. [value : PrintedAs(Leaves[json])] \subseteq R
    BY <2>2 DEF Running, Raw
  <2> HIDE DEF R
  <2>4. /\ ShownString(json, <<"id">>) \in R /\ ShownString(json, <<"description">>) \in R
        /\ ShownString(json, <<"owner">>) \in R /\ ShownString(json, <<"state">>) \in R
        /\ ShownString(json, <<"executionSubType">>) \in R
    BY <2>1, <2>3, Accessed
  <2> QED BY <2>4
<1>3. FlattenSeq(all) \in Seq(R)
  <2> HIDE DEF all, n, R
  <2> QED BY <1>1, FlattenEach
<1>4. ShowExecution(json, list) = head \o FlattenSeq(all)
  BY DEF ShowExecution
<1> HIDE DEF all, head, R
<1>5. ShowExecution(json, list) \in Seq(R)
  BY <1>2, <1>3, <1>4
<1> QED BY <1>5 DEF R

(* Current prints what was sent, and labels of devices. *)
LEMMA CurrentShowsSent ==
  ASSUME NEW json \in Json, NEW list
  PROVE  ShowCurrent(json, list) \in Seq(Running(list, Leaves[json]))
<1> DEFINE R == Running(list, Leaves[json])
           all == [i \in DOMAIN Elements(json) |-> ShowExecution(Elements(json)[i], list)]
           n == Len(Elements(json))
<1>1. n \in Nat /\ all \in [1 .. n -> Seq(R)]
  <2>1. n \in Nat /\ DOMAIN Elements(json) = 1 .. n
    BY ElementsIn
  <2>2. ASSUME NEW i \in DOMAIN Elements(json)
        PROVE  ShowExecution(Elements(json)[i], list) \in Seq(R)
    <3>1. Elements(json)[i] \in Json /\ Leaves[Elements(json)[i]] \subseteq Leaves[json]
      BY ElementsIn
    <3> QED BY <3>1, ShowOfExecution
  <2> HIDE DEF R, n
  <2> QED BY <2>1, <2>2
<1>2. ShowCurrent(json, list) = FlattenSeq(all)
  BY DEF ShowCurrent
<1> HIDE DEF all, n
<1> QED BY <1>1, <1>2, FlattenEach

(* The device that is found by its URL. *)
LEMMA LabelOfOwner ==
  ASSUME NEW list, Len(list) \in Nat, DOMAIN list = 1 .. Len(list), NEW url
  PROVE  IF \E d \in ToSet(list) : d.url = url
         THEN \E d \in ToSet(list) : d.url = url /\ LabelOf(list, url) = d.label
         ELSE LabelOf(list, url) = NULL
<1> DEFINE I == {i \in 1 .. Len(list) : list[i].url = url}
           at == SelectInSeq(list, LAMBDA d : d.url = url)
<1>1. at = IF I # {} THEN Min(I) ELSE 0
  BY DEF SelectInSeq
<1>2. LabelOf(list, url) = IF at = 0 THEN NULL ELSE list[at].label
  BY DEF LabelOf
<1>3. I \in SUBSET Nat
  OBVIOUS
<1>4. (\E d \in ToSet(list) : d.url = url) <=> I # {}
  BY DEF ToSet
<1>5. CASE I # {}
  <2>1. Min(I) \in I
    BY <1>3, <1>5, LeastNumber
  <2>2. at # 0 /\ at \in DOMAIN list /\ list[at].url = url
    BY <1>1, <1>5, <2>1
  <2>3. list[at] \in ToSet(list)
    BY <2>2 DEF ToSet
  <2> HIDE DEF at, I
  <2> QED BY <1>2, <1>4, <1>5, <2>2, <2>3
<1>6. CASE I = {}
  <2> HIDE DEF I
  <2>1. at = 0
    BY <1>1, <1>6
  <2> QED BY <1>2, <1>4, <1>6, <2>1
<1> QED BY <1>5, <1>6

-----------------------------------------------------------------------------
(* The titles that States prints. *)

(* Titles of what is printed, one behind the other. *)
TitleOf(piece) == IF "state" \in DOMAIN piece THEN <<piece.state>> ELSE <<>>
TitlesEach(pieces) == [i \in DOMAIN pieces |-> TitleOf(pieces[i])]
Titled(S) == \A piece \in S : "state" \in DOMAIN piece => piece.state \in Texts

(* Titles is the flattened sequence of the title of each piece. *)
LEMMA TitlesIn ==
  ASSUME NEW S, Titled(S), NEW s \in Seq(S)
  PROVE  /\ Titles(s) = FlattenSeq(TitlesEach(s))
         /\ TitlesEach(s) \in Seq(Seq(Texts)) /\ Len(TitlesEach(s)) = Len(s)
         /\ Titles(s) \in Seq(Texts)
<1>1. Titles(s) = FlattenSeq(TitlesEach(s))
  BY DEF Titles, TitlesEach, TitleOf
<1>2. Len(s) \in Nat /\ DOMAIN s = 1 .. Len(s) /\ \A i \in 1 .. Len(s) : s[i] \in S
  OBVIOUS
<1> DEFINE Q == Seq(Texts)
<1>3. <<>> \in Q /\ \A t \in Texts : <<t>> \in Q
  <2>1. <<>> \in Q
    OBVIOUS
  <2> QED BY <2>1
<1> HIDE DEF Q
<1>4. \A i \in 1 .. Len(s) : TitleOf(s[i]) \in Q
  BY <1>2, <1>3 DEF TitleOf, Titled
<1>5. TitlesEach(s) \in [1 .. Len(s) -> Q]
  BY <1>2, <1>4 DEF TitlesEach
<1>6. TitlesEach(s) \in Seq(Q) /\ Len(TitlesEach(s)) = Len(s)
  BY <1>2, <1>5
<1>7. FlattenSeq(TitlesEach(s)) \in Seq(Texts)
  BY <1>6, FlattenIn DEF Q
<1> QED BY <1>1, <1>6, <1>7 DEF Q

(* The titles of two displays are those of the first, then those of the second. *)
LEMMA TitlesBoth ==
  ASSUME NEW S, Titled(S), NEW s \in Seq(S), NEW t \in Seq(S)
  PROVE  Titles(s \o t) = Titles(s) \o Titles(t)
<1>1. s \o t \in Seq(S)
  OBVIOUS
<1>2. TitlesEach(s \o t) = TitlesEach(s) \o TitlesEach(t)
  <2>1. /\ Len(s) \in Nat /\ Len(t) \in Nat /\ Len(s \o t) = Len(s) + Len(t)
        /\ DOMAIN (s \o t) = 1 .. Len(s) + Len(t)
        /\ \A i \in 1 .. Len(s) : (s \o t)[i] = s[i]
        /\ \A i \in 1 .. Len(t) : (s \o t)[Len(s) + i] = t[i]
        /\ DOMAIN s = 1 .. Len(s) /\ DOMAIN t = 1 .. Len(t)
    OBVIOUS
  <2> DEFINE A == TitlesEach(s)
             B == TitlesEach(t)
             C == TitlesEach(s \o t)
  <2>2. /\ \A i \in 1 .. Len(s) : C[i] = A[i]
        /\ \A i \in 1 .. Len(t) : C[Len(s) + i] = B[i]
    BY <2>1 DEF TitlesEach
  <2>3. /\ A \in Seq(Seq(Texts)) /\ Len(A) = Len(s)
        /\ B \in Seq(Seq(Texts)) /\ Len(B) = Len(t)
    BY TitlesIn
  <2>4. C \in Seq(Seq(Texts)) /\ Len(C) = Len(s) + Len(t)
    BY <1>1, <2>1, TitlesIn
  <2> HIDE DEF A, B, C
  <2> DEFINE Q == Seq(Texts)
             D == A \o B
             M == Len(s)
             N == Len(t)
  <2>5. /\ D \in Seq(Q) /\ Len(D) = M + N
        /\ \A i \in 1 .. M : D[i] = A[i]
        /\ \A i \in 1 .. N : D[M + i] = B[i]
    <3> HIDE DEF Q
    <3>1. A \in Seq(Q) /\ B \in Seq(Q) /\ Len(A) = M /\ Len(B) = N
      BY <2>3 DEF Q
    <3>2. M \in Nat /\ N \in Nat
      BY <2>1
    <3> HIDE DEF M, N
    <3>3. D \in Seq(Q) /\ Len(D) = M + N
      BY <3>1, ConcatProperties
    <3>4. \A i \in 1 .. M : D[i] = A[i]
      BY <3>1, <3>2
    <3>5. \A i \in 1 .. N : D[M + i] = B[i]
      BY <3>1, <3>2
    <3> QED BY <3>3, <3>4, <3>5
  <2>6. C \in Seq(Q) /\ Len(C) = M + N /\ M \in Nat /\ N \in Nat
    BY <2>1, <2>4
  <2> HIDE DEF Q, D, M, N
  <2>7. \A i \in 1 .. M + N : C[i] = D[i]
    <3> SUFFICES ASSUME NEW i \in 1 .. M + N PROVE C[i] = D[i]
      OBVIOUS
    <3>1. CASE i <= M
      BY <2>2, <2>5, <2>6, <3>1 DEF M
    <3>2. CASE i > M
      <4>1. i - M \in 1 .. N /\ M + (i - M) = i
        BY <2>6, <3>2
      <4> QED BY <2>2, <2>5, <4>1 DEF M, N
    <3> QED BY <2>6, <3>1, <3>2
  <2>8. C = D
    BY <2>5, <2>6, <2>7
  <2> QED BY <2>8 DEF A, B, C, D
<1>3. Titles(s \o t) = FlattenSeq(TitlesEach(s) \o TitlesEach(t))
  BY <1>1, <1>2, TitlesIn
<1>4. /\ TitlesEach(s) \in Seq(Seq(Texts)) /\ Titles(s) = FlattenSeq(TitlesEach(s))
      /\ TitlesEach(t) \in Seq(Seq(Texts)) /\ Titles(t) = FlattenSeq(TitlesEach(t))
  BY TitlesIn
<1>5. FlattenSeq(TitlesEach(s) \o TitlesEach(t))
      = FlattenSeq(TitlesEach(s)) \o FlattenSeq(TitlesEach(t))
  BY <1>4, FlattenBoth
<1> QED BY <1>3, <1>4, <1>5

(* What has no titles, and a title alone. *)
LEMMA TitlesNone ==
  ASSUME NEW S, \A piece \in S : "state" \notin DOMAIN piece, NEW s \in Seq(S)
  PROVE  Titles(s) = <<>>
<1>1. Titled(S)
  BY DEF Titled
<1> DEFINE ss == TitlesEach(s)
           N == Len(ss)
<1>2. ss \in Seq(Seq(Texts)) /\ Titles(s) = FlattenSeq(ss) /\ N = Len(s)
  BY <1>1, TitlesIn
<1>3. N \in Nat /\ \A n \in 1 .. N : ss[n] = <<>>
  BY <1>2 DEF TitlesEach, TitleOf
<1> HIDE DEF ss
<1>4. PICK F : Appended(F, ss, Texts) /\ FlattenSeq(ss) = F[N]
  BY <1>2, FlattenBySteps
<1> HIDE DEF N
<1>5. F[0] = <<>> /\ \A n \in 1 .. N : F[n] = F[n - 1] \o ss[n]
  BY <1>4 DEF Appended, N
<1> DEFINE T == {n \in 0 .. N : F[n] = <<>>}
<1>6. 0 \in T
  BY <1>3, <1>5
<1>7. ASSUME NEW n \in 1 .. N, n - 1 \in T
      PROVE  n \in T
  <2>1. F[n] = <<>> \o <<>>
    BY <1>3, <1>5, <1>7
  <2>2. <<>> \o <<>> = <<>>
    OBVIOUS
  <2> QED BY <2>1, <2>2
<1>8. N \in T
  <2> HIDE DEF T
  <2> QED BY <1>3, <1>6, <1>7, InductionFromPrevious
<1> QED BY <1>2, <1>4, <1>8

(* A piece that is a title has one. *)
LEMMA TitlesOne ==
  ASSUME NEW text \in Texts
  PROVE  Titles(<<[state |-> text]>>) = <<text>>
<1> DEFINE s == <<[state |-> text]>>
<1>1. TitlesEach(s) = <<TitleOf([state |-> text])>>
  BY DEF TitlesEach
<1>2. TitleOf([state |-> text]) = <<text>>
  BY DEF TitleOf
<1>3. Titles(s) = FlattenSeq(TitlesEach(s))
  BY DEF Titles, TitlesEach, TitleOf
<1>4. <<text>> \in Seq(Texts)
  OBVIOUS
<1>5. FlattenSeq(<<<<text>>>>) = <<text>>
  BY <1>4, FlattenOne
<1> QED BY <1>1, <1>2, <1>3, <1>5

(* The titles of what is flattened are the titles of each part. *)
LEMMA TitlesOfAll ==
  ASSUME NEW S, Titled(S), NEW n \in Nat, NEW ss \in [1 .. n -> Seq(S)]
  PROVE  Titles(FlattenSeq(ss)) = FlattenSeq([i \in 1 .. n |-> Titles(ss[i])])
<1> DEFINE tt == [i \in 1 .. n |-> Titles(ss[i])]
           Q == Seq(S)
           P == Seq(Texts)
<1>1. ss \in Seq(Q) /\ Len(ss) = n
  <2> HIDE DEF Q
  <2>1. ss \in [1 .. n -> Q]
    BY DEF Q
  <2> QED BY <2>1
<1>2. \A i \in 1 .. n : ss[i] \in Q /\ tt[i] = Titles(ss[i]) /\ Titles(ss[i]) \in P
  BY TitlesIn
<1>3. tt \in Seq(P) /\ Len(tt) = n
  <2> HIDE DEF P, Q
  <2>1. tt \in [1 .. n -> P]
    BY <1>2
  <2> HIDE DEF tt
  <2> QED BY <2>1
<1>4. PICK F : Appended(F, ss, S) /\ FlattenSeq(ss) = F[n]
  BY <1>1, FlattenBySteps
<1>5. PICK G : Appended(G, tt, Texts) /\ FlattenSeq(tt) = G[n]
  <2> HIDE DEF tt
  <2> QED BY <1>3, FlattenBySteps
<1>6. F \in [0 .. n -> Q] /\ F[0] = <<>> /\ \A m \in 1 .. n : F[m] = F[m - 1] \o ss[m]
  <2>1. Len(ss) = n /\ Appended(F, ss, S)
    BY <1>1, <1>4
  <2>2. F \in [0 .. n -> Seq(S)]
    BY <2>1 DEF Appended
  <2> QED BY <2>1, <2>2 DEF Appended
<1>7. G[0] = <<>> /\ \A m \in 1 .. n : G[m] = G[m - 1] \o tt[m]
  <2> HIDE DEF tt
  <2> QED BY <1>3, <1>5 DEF Appended
<1> HIDE DEF tt
<1> DEFINE T == {m \in 0 .. n : Titles(F[m]) = G[m]}
<1>8. 0 \in T
  <2>1. <<>> \in Seq({})
    OBVIOUS
  <2>2. Titles(<<>>) = <<>>
    BY <2>1, TitlesNone
  <2> QED BY <1>6, <1>7, <2>2
<1>9. ASSUME NEW m \in 1 .. n, m - 1 \in T
      PROVE  m \in T
  <2>1. F[m - 1] \in Q /\ ss[m] \in Q
    <3>1. m - 1 \in 0 .. n
      OBVIOUS
    <3> HIDE DEF Q
    <3> QED BY <1>2, <1>6, <3>1
  <2>2. Titles(F[m - 1] \o ss[m]) = Titles(F[m - 1]) \o Titles(ss[m])
    BY <2>1, TitlesBoth
  <2>3. Titles(F[m]) = G[m]
    <3> HIDE DEF Q
    <3> QED BY <1>2, <1>6, <1>7, <1>9, <2>2
  <2> QED BY <2>3
<1>10. n \in T
  <2> HIDE DEF T
  <2> QED BY <1>8, <1>9, InductionFromPrevious
<1> QED BY <1>4, <1>5, <1>10 DEF tt

(* Without a name States gives each state that has one its title, in order. *)
LEMMA TitlesAreNames ==
  ASSUME NEW json \in Json
  PROVE  Titles(ShowStates(json, NULL)) = NamesOf(Elements(json))
<1> DEFINE S == Stated(SelectedOf(json, NULL))
           e(i) == Elements(json)[i]
           name(i) == getObjString(e(i), <<"name">>)
           show(i) == IF Selected(e(i), NULL) THEN <<[state |-> name(i)]>> \o ShowValue(e(i)) ELSE <<>>
           all == [i \in DOMAIN Elements(json) |-> show(i)]
           n == Len(Elements(json))
<1>1. n \in Nat /\ DOMAIN Elements(json) = 1 .. n
  BY ElementsIn
<1>2. Titled(S)
  BY DEF Titled, Stated, Valued, Raw
<1>3. ASSUME NEW i \in 1 .. n
      PROVE  /\ show(i) \in Seq(S)
             /\ Titles(show(i)) = IF name(i) # NULL THEN <<name(i)>> ELSE <<>>
  <2>1. Selected(e(i), NULL) <=> name(i) # NULL
    BY DEF Selected
  <2>2. CASE name(i) # NULL
    <3>1. e(i) \in SelectedOf(json, NULL)
      BY <1>1, <2>1, <2>2 DEF SelectedOf, ToSet
    <3>2. name(i) \in Texts /\ e(i) \in Json
      <4> HIDE DEF e
      <4> QED BY <3>1, ShowOfState
    <3>3. <<[state |-> name(i)]>> \in Seq(S)
      <4> HIDE DEF e
      <4> QED BY <3>1, ShowOfState
    <3>4. ShowValue(e(i)) \in Seq(S)
      <4> HIDE DEF e
      <4> QED BY <3>1, ShowOfState
    <3>5. Titles(ShowValue(e(i))) = <<>>
      <4> DEFINE V == Valued(Leaves[e(i)])
      <4>1. \A piece \in V : "state" \notin DOMAIN piece
        BY DEF Valued, Raw
      <4>2. ShowValue(e(i)) \in Seq(V)
        <5> HIDE DEF e
        <5> QED BY <3>2, ValueOfState
      <4> HIDE DEF V, e
      <4> QED BY <4>1, <4>2, TitlesNone
    <3> HIDE DEF S, name, e
    <3>6. Titles(<<[state |-> name(i)]>> \o ShowValue(e(i))) = <<name(i)>> \o <<>>
      <4> DEFINE title == <<[state |-> name(i)]>>
                 value == ShowValue(e(i))
      <4>1. Titles(title) = <<name(i)>>
        BY <3>2, TitlesOne
      <4>2. title \in Seq(S) /\ value \in Seq(S) /\ Titles(value) = <<>>
        BY <3>3, <3>4, <3>5
      <4> HIDE DEF title, value
      <4>3. Titles(title \o value) = Titles(title) \o Titles(value)
        BY <1>2, <4>2, TitlesBoth
      <4>4. Titles(title \o value) = <<name(i)>> \o <<>>
        BY <4>1, <4>2, <4>3
      <4> QED BY <4>4 DEF title, value
    <3>7. <<name(i)>> \o <<>> = <<name(i)>>
      OBVIOUS
    <3>8. <<[state |-> name(i)]>> \o ShowValue(e(i)) \in Seq(S)
      BY <3>3, <3>4
    <3> QED BY <2>1, <2>2, <3>6, <3>7, <3>8
  <2>3. CASE name(i) = NULL
    <3>1. show(i) = <<>>
      BY <2>1, <2>3
    <3>2. <<>> \in Seq({})
      OBVIOUS
    <3>3. Titles(<<>>) = <<>>
      BY <3>2, TitlesNone
    <3> HIDE DEF S, show
    <3>4. <<>> \in Seq(S)
      OBVIOUS
    <3> QED BY <2>3, <3>1, <3>3, <3>4
  <2> QED BY <2>2, <2>3
<1>4. all \in [1 .. n -> Seq(S)] /\ \A i \in 1 .. n : all[i] = show(i)
  <2> HIDE DEF show, S, n
  <2> QED BY <1>1, <1>3
<1>5. ShowStates(json, NULL) = FlattenSeq(all)
  BY DEF ShowStates
<1>6. Titles(FlattenSeq(all)) = FlattenSeq([i \in 1 .. n |-> Titles(all[i])])
  <2> HIDE DEF all, S, n
  <2> QED BY <1>1, <1>2, <1>4, TitlesOfAll
<1>7. [i \in 1 .. n |-> Titles(all[i])] = [i \in 1 .. n |-> IF name(i) # NULL THEN <<name(i)>> ELSE <<>>]
  <2> HIDE DEF all, show, name, n
  <2> QED BY <1>3, <1>4
<1>8. NamesOf(Elements(json)) = FlattenSeq([i \in 1 .. n |-> IF name(i) # NULL THEN <<name(i)>> ELSE <<>>])
  <2> HIDE DEF n
  <2> QED BY <1>1 DEF NamesOf
<1> QED BY <1>5, <1>6, <1>7, <1>8

-----------------------------------------------------------------------------
(* Devices *)

(* The table Commands, by column. *)
LEMMA RowKinds ==
  ASSUME NEW row \in Commands
  PROVE  /\ row.does \in DOMAIN NameOf
         /\ row.devarg \in {"none", "url", "label"} /\ row.finds \in {"none", "url", "label"}
         /\ row.autofunc \in {"none", "states", "commands"}
         /\ row.devarg # "none" <=> row.finds # "none"
         /\ row.devarg # "none" =>
              row.does \in {"Device", "NDevice", "States", "NStates", "Command", "NCommand"}
         /\ row.autofunc = "states" <=> row.does \in {"States", "NStates"}
         /\ row.autofunc = "commands" <=> row.does \in {"Command", "NCommand"}
         /\ row.does \in {"Device", "NDevice", "States", "NStates", "Command", "NCommand"} =>
              row.finds # "none"
         /\ \A other \in Commands : other.does = row.does => other = row
<1>1. row.does \in DOMAIN NameOf
  BY PromptAssumption
<1>2. /\ row.devarg \in {"none", "url", "label"} /\ row.finds \in {"none", "url", "label"}
      /\ row.autofunc \in {"none", "states", "commands"}
      /\ row.devarg # "none" <=> row.finds # "none"
  BY DEF Commands, Row
<1>3. /\ row.devarg # "none" =>
           row.does \in {"Device", "NDevice", "States", "NStates", "Command", "NCommand"}
      /\ row.autofunc = "states" <=> row.does \in {"States", "NStates"}
      /\ row.autofunc = "commands" <=> row.does \in {"Command", "NCommand"}
      /\ row.does \in {"Device", "NDevice", "States", "NStates", "Command", "NCommand"} =>
           row.finds # "none"
  BY DEF Commands, Row
<1>4. \A other \in Commands : other.does = row.does => other = row
  BY DEF Commands, Row
<1> QED BY <1>1, <1>2, <1>3, <1>4

(* A command has the name of no other. *)
LEMMA NamesOfRows ==
  ASSUME NEW row \in Commands
  PROVE  /\ NameOf[row.does] \in Seq(Graphs \ Breaks) /\ NameOf[row.does] # <<>>
         /\ NameOf[row.does] \in Seq(Chars)
         /\ \A other \in Commands : NameOf[row.does] = NameOf[other.does] => other = row
<1>1. \A other \in Commands : other.does \in DOMAIN NameOf
  BY PromptAssumption
<1>2. NameOf[row.does] \in Seq(Graphs \ Breaks) /\ NameOf[row.does] # <<>>
  BY <1>1, PromptAssumption
<1>3. NameOf[row.does] \in Seq(Chars)
  <2>1. Graphs \ Breaks \subseteq Chars
    BY DEF Chars
  <2> QED BY <1>2, <2>1
<1>4. \A other \in Commands : NameOf[row.does] = NameOf[other.does] => other.does = row.does
  BY <1>1, PromptAssumption DEF IsInjective
<1> QED BY <1>2, <1>3, <1>4, RowKinds

(* A list that is turned round holds what it held. *)
LEMMA ReverseIn ==
  ASSUME NEW S, NEW s \in Seq(S)
  PROVE  Reverse(s) \in Seq(S)
<1>1. Len(s) \in Nat /\ \A i \in 1 .. Len(s) : Len(s) - i + 1 \in 1 .. Len(s) /\ s[Len(s) - i + 1] \in S
  OBVIOUS
<1>2. Reverse(s) \in [1 .. Len(s) -> S]
  BY <1>1 DEF Reverse
<1> QED BY <1>1, <1>2

(* The items of a device that is made. *)
LEMMA ItemNamesIn ==
  ASSUME NEW json \in Json, Is("array", json), NEW name,
         \A item \in Inside(json) : getObjString(item, <<name>>) # NULL
  PROVE  Reverse(ItemNames(json.array, name)) \in Seq(Texts)
<1>1. json.array \in Seq(Json) /\ Inside(json) = ToSet(json.array)
  BY JsonCases
<1>2. Len(<<name>>) \in Nat
  OBVIOUS
<1> DEFINE n == Len(json.array)
<1>3. n \in Nat /\ DOMAIN json.array = 1 .. n
  BY <1>1
<1>4. ASSUME NEW i \in 1 .. n
      PROVE  getObjString(json.array[i], <<name>>) \in Texts
  <2>1. json.array[i] \in Json /\ json.array[i] \in Inside(json)
    BY <1>1, <1>3 DEF ToSet
  <2>2. getObjString(json.array[i], <<name>>) \in Texts \cup {NULL}
    BY <1>2, <2>1, Accessed
  <2> QED BY <2>1, <2>2
<1>5. ItemNames(json.array, name) \in [1 .. n -> Texts]
  BY <1>3, <1>4 DEF ItemNames
<1> HIDE DEF n
<1>6. ItemNames(json.array, name) \in Seq(Texts)
  BY <1>3, <1>5
<1> QED BY <1>6, ReverseIn

(* A list that addDevice() gets over is an array of items with names. *)
LEMMA ListedNames ==
  ASSUME NEW json \in Json, NEW list, NEW name, Listed(json, list, name) = "made"
  PROVE  LET array == getObj(json, <<"definition", list>>)
         IN  /\ array \in Json /\ Is("array", array)
             /\ \A item \in Inside(array) : getObjString(item, <<name>>) # NULL
<1> DEFINE array   == getObj(json, <<"definition", list>>)
           unnamed == {i \in DOMAIN array.array : getObjString(array.array[i], <<name>>) = NULL}
<1>1. Len(<<"definition", list>>) \in Nat
  OBVIOUS
<1>2. array \in Json
  BY <1>1, PathInJson
<1>3. Listed(json, list, name) =
        IF ~Is("array", array) THEN "skip"
        ELSE IF unnamed = {} THEN "made"
        ELSE IF array.array[Min(unnamed)] = NULL THEN "skip" ELSE "crash"
  BY DEF Listed
<1> HIDE DEF array
<1>4. Is("array", array) /\ unnamed = {}
  <2> HIDE DEF unnamed
  <2> QED BY <1>3
<1>5. \A i \in DOMAIN array.array : getObjString(array.array[i], <<name>>) # NULL
  BY <1>4
<1>6. Inside(array) = ToSet(array.array)
  BY <1>2, <1>4, JsonCases
<1>7. \A item \in Inside(array) : getObjString(item, <<name>>) # NULL
  BY <1>5, <1>6 DEF ToSet
<1> QED BY <1>2, <1>4, <1>7 DEF array

(* The device addDevice() makes of an object has a label without a space. *)
LEMMA DeviceOfIsDevice ==
  ASSUME NEW json \in Json, addDevice(json) = "made"
  PROVE  DeviceOf(json) \in Device
<1> DEFINE label == getObjString(json, <<"label">>)
           url   == getObjString(json, <<"deviceURL">>)
           commands == getObj(json, <<"definition", "commands">>)
           states == getObj(json, <<"definition", "states">>)
<1>1. /\ Len(<<"label">>) \in Nat /\ Len(<<"deviceURL">>) \in Nat
      /\ Len(<<"definition", "commands">>) \in Nat /\ Len(<<"definition", "states">>) \in Nat
  OBVIOUS
<1>2. label \in Texts \cup {NULL} /\ url \in Texts \cup {NULL}
  BY <1>1, Accessed
<1>3. commands \in Json /\ states \in Json
  BY <1>1, PathInJson
<1>4. /\ label # NULL /\ url # NULL
      /\ Listed(json, "commands", "commandName") = "made" /\ Listed(json, "states", "name") = "made"
  <2> DEFINE first == Listed(json, "commands", "commandName")
             second == Listed(json, "states", "name")
  <2>1. addDevice(json) =
          CASE json = NULL -> "skip"
            [] NULL \in {label, url} -> "crash"
            [] first # "made" -> first
            [] OTHER -> second
    BY DEF addDevice
  <2> HIDE DEF label, url, first, second
  <2>2. first = "made" /\ second = "made" /\ NULL \notin {label, url}
    BY <2>1
  <2> QED BY <2>2 DEF first, second
<1>5. /\ Is("array", commands) /\ \A item \in Inside(commands) : getObjString(item, <<"commandName">>) # NULL
      /\ Is("array", states) /\ \A item \in Inside(states) : getObjString(item, <<"name">>) # NULL
  BY <1>4, ListedNames
<1>6. DeviceOf(json) = [label |-> ReplaceAll(label, Space, "_"), url |-> url,
                        commands |-> Reverse(ItemNames(commands.array, "commandName")),
                        states |-> Reverse(ItemNames(states.array, "name"))]
  BY DEF DeviceOf
<1> HIDE DEF label, url, commands, states
<1>7. url \in Seq(Chars)
  BY <1>2, <1>4, PromptAssumption
<1>8. ReplaceAll(label, Space, "_") \in Label
  <2>1. label \in Seq(Chars)
    BY <1>2, <1>4, PromptAssumption
  <2>2. "_" \in Chars /\ "_" # Space
    BY PromptAssumption, CharsAssumption DEF Chars
  <2> DEFINE w == ReplaceAll(label, Space, "_")
  <2>3. w = [i \in 1 .. Len(label) |-> IF label[i] = Space THEN "_" ELSE label[i]]
    BY DEF ReplaceAll
  <2>4. Len(label) \in Nat /\ \A i \in 1 .. Len(label) : label[i] \in Chars
    BY <2>1
  <2>5. w \in [1 .. Len(label) -> Chars] /\ \A i \in 1 .. Len(label) : w[i] # Space
    BY <2>2, <2>3, <2>4
  <2> HIDE DEF w
  <2>6. w \in Seq(Chars) /\ DOMAIN w = 1 .. Len(label)
    BY <2>4, <2>5
  <2> QED BY <2>5, <2>6 DEF Label, w
<1>9. Reverse(ItemNames(commands.array, "commandName")) \in Seq(Texts)
  BY <1>3, <1>5, ItemNamesIn
<1>10. Reverse(ItemNames(states.array, "name")) \in Seq(Texts)
  BY <1>3, <1>5, ItemNamesIn
<1>11. \A a \in Label : \A b \in Seq(Chars) : \A c, s \in Seq(Texts) :
         [label |-> a, url |-> b, commands |-> c, states |-> s] \in Device
  BY DEF Device
<1> QED BY <1>6, <1>7, <1>8, <1>9, <1>10, <1>11

(* scan_Devices leaves devices, whatever the answer. *)
LEMMA ScannedAreDevices ==
  ASSUME NEW reply \in Replies["scan_Devices"], devices \in Seq(Device)
  PROVE  func_scandevs(reply) \in Seq(Device)
<1> DEFINE e(i) == reply.array[i]
           made(json) == IF addDevice(json) = "made" THEN <<DeviceOf(json)>> ELSE <<>>
           all == [i \in DOMAIN reply.array |-> made(e(i))]
           n == Len(reply.array)
<1>1. CASE Is("array", reply)
  <2>1. reply \in Json
    BY PromptAssumption
  <2>2. reply.array \in Seq(Json) /\ Elements(reply) = reply.array
    BY <1>1, <2>1, JsonCases DEF Elements
  <2>3. n \in Nat /\ DOMAIN reply.array = 1 .. n
    BY <2>2
  <2>4. ASSUME NEW i \in 1 .. n
        PROVE  made(e(i)) \in Seq(Device)
    <3>1. e(i) \in Json
      BY <2>2, <2>3
    <3> HIDE DEF e
    <3>3. addDevice(e(i)) = "made" => DeviceOf(e(i)) \in Device
      BY <3>1, DeviceOfIsDevice
    <3> DEFINE D == Device
    <3> HIDE DEF D
    <3>4. <<>> \in Seq(D)
      OBVIOUS
    <3>5. addDevice(e(i)) = "made" => <<DeviceOf(e(i))>> \in Seq(D)
      BY <3>3 DEF D
    <3> QED BY <3>4, <3>5 DEF D
  <2>5. all \in [1 .. n -> Seq(Device)]
    <3> HIDE DEF made, n, e
    <3> QED BY <2>3, <2>4
  <2>6. FlattenSeq(all) \in Seq(Device)
    <3> HIDE DEF all, n
    <3> QED BY <2>3, <2>5, FlattenEach
  <2>7. func_scandevs(reply) = Reverse(FlattenSeq(all))
    BY <1>1 DEF func_scandevs
  <2> HIDE DEF all
  <2> QED BY <2>6, <2>7, ReverseIn
<1>2. CASE ~Is("array", reply)
  BY <1>2 DEF func_scandevs
<1> QED BY <1>1, <1>2

(* findDevice() finds the first device that has the text of the token. *)
Named(text, field) ==
  LET i == SelectInSeq(devices, LAMBDA d : d[field] = text)
  IN  IF i = 0 THEN NULL ELSE devices[i]

(* A token finds the device that its text names. *)
LEMMA FindNamed ==
  ASSUME NEW l, NEW token, NEW field
  PROVE  Find(l, token, field) = Named(Text(l, token), field)
<1> DEFINE I == {i \in 1 .. Len(devices) : Text(l, token) = devices[i][field]}
           J == {i \in 1 .. Len(devices) : devices[i][field] = Text(l, token)}
<1>1. I = J
  OBVIOUS
<1> DEFINE found(K) == LET i == IF K # {} THEN Min(K) ELSE 0
                       IN  IF i = 0 THEN NULL ELSE devices[i]
<1>2. Find(l, token, field) = found(I)
  BY DEF Find, SelectInSeq, Same
<1>3. Named(Text(l, token), field) = found(J)
  BY DEF Named, SelectInSeq
<1> HIDE DEF I, J, found
<1> QED BY <1>1, <1>2, <1>3

(* A name finds a device that has it, if there is one. *)
LEMMA NamedIsDevice ==
  ASSUME devices \in Seq(Device), NEW text, NEW field
  PROVE  IF \E d \in ToSet(devices) : d[field] = text
         THEN /\ Named(text, field) \in ToSet(devices) /\ Named(text, field) # NULL
              /\ Named(text, field)[field] = text
         ELSE Named(text, field) = NULL
<1> DEFINE I == {i \in 1 .. Len(devices) : devices[i][field] = text}
           at == SelectInSeq(devices, LAMBDA d : d[field] = text)
<1>1. at = IF I # {} THEN Min(I) ELSE 0
  BY DEF SelectInSeq
<1>2. Named(text, field) = IF at = 0 THEN NULL ELSE devices[at]
  BY DEF Named
<1>3. /\ I \in SUBSET Nat /\ DOMAIN devices = 1 .. Len(devices)
      /\ \A k \in DOMAIN devices : devices[k] \in Device
  OBVIOUS
<1>4. (\E d \in ToSet(devices) : d[field] = text) <=> I # {}
  BY <1>3 DEF ToSet
<1>5. CASE I # {}
  <2>1. Min(I) \in I
    BY <1>3, <1>5, LeastNumber
  <2>2. at # 0 /\ at \in DOMAIN devices /\ devices[at][field] = text
    BY <1>1, <1>3, <1>5, <2>1
  <2>3. devices[at] \in ToSet(devices) /\ devices[at] \in Device
    <3> HIDE DEF at
    <3> QED BY <1>3, <2>2 DEF ToSet
  <2>4. devices[at] # NULL
    BY <2>3, PromptAssumption
  <2> HIDE DEF at, I
  <2> QED BY <1>2, <1>4, <1>5, <2>2, <2>3, <2>4
<1>6. CASE I = {}
  <2> HIDE DEF I
  <2>1. at = 0
    BY <1>1, <1>6
  <2> QED BY <1>2, <1>4, <1>6, <2>1
<1> QED BY <1>5, <1>6

(* What a device consists of. *)
LEMMA DevicesIn ==
  ASSUME devices \in Seq(Device), NEW d \in ToSet(devices)
  PROVE  /\ d \in Device /\ d # NULL
         /\ d.label \in Label /\ d.url \in Seq(Chars)
         /\ d.label \in Seq(Chars)
         /\ d.commands \in Seq(Texts) /\ d.states \in Seq(Texts)
<1>1. d \in Device
  BY DEF ToSet
<1>2. d # NULL
  BY <1>1, PromptAssumption
<1> QED BY <1>1, <1>2 DEF Device, Label

-----------------------------------------------------------------------------
(* Commands *)

(* What a command does, by the function of its row. *)
LEMMA EffectCases ==
  ASSUME NEW row \in Commands, NEW l, NEW arg, NEW reply, NEW more
  PROVE  LET did == Effect(row, l, arg, reply, more)
         IN  /\ row.does \in {"Device", "NDevice"} => did = internal_Devs(l, arg, row, more)
             /\ row.does \in {"States", "NStates"} => did = internal_States(l, arg, row, reply)
             /\ row.does \in {"Command", "NCommand"} => did = internal_Command(l, arg, row)
             /\ row.does = "scan_Devices" =>
                  did = IF arg = 0 THEN Query("setup/devices", IF more THEN ShowScan(reply) ELSE <<>>)
                        ELSE Nothing
             /\ row.does = "Gateway" =>
                  did = IF arg = 0 THEN Query("setup/gateways", ShowGateway(reply)) ELSE Nothing
             /\ row.does = "Current" =>
                  did = IF arg = 0 THEN Query("/exec/current", ShowCurrent(reply, devices)) ELSE Nothing
             /\ row.does = "status" => did = [Nothing EXCEPT !.shown = <<[count |-> Len(devices)]>>]
             /\ row.does = "Other" => did = Nothing
<1>1. row.does \in {"Device", "NDevice"} =>
        Effect(row, l, arg, reply, more) = internal_Devs(l, arg, row, more)
  BY DEF Effect
<1>2. row.does \in {"States", "NStates"} =>
        Effect(row, l, arg, reply, more) = internal_States(l, arg, row, reply)
  BY DEF Effect
<1>3. row.does \in {"Command", "NCommand"} =>
        Effect(row, l, arg, reply, more) = internal_Command(l, arg, row)
  BY DEF Effect
<1>4. row.does = "scan_Devices" => Effect(row, l, arg, reply, more) =
        IF arg = 0 THEN Query("setup/devices", IF more THEN ShowScan(reply) ELSE <<>>) ELSE Nothing
  BY DEF Effect
<1>5. row.does = "Gateway" => Effect(row, l, arg, reply, more) =
        IF arg = 0 THEN Query("setup/gateways", ShowGateway(reply)) ELSE Nothing
  BY DEF Effect
<1>6. row.does = "Current" => Effect(row, l, arg, reply, more) =
        IF arg = 0 THEN Query("/exec/current", ShowCurrent(reply, devices)) ELSE Nothing
  BY DEF Effect
<1>7. row.does = "status" => Effect(row, l, arg, reply, more) =
        [Nothing EXCEPT !.shown = <<[count |-> Len(devices)]>>]
  BY DEF Effect
<1>8. row.does = "Other" => Effect(row, l, arg, reply, more) = Nothing
  BY DEF Effect
<1> QED BY <1>1, <1>2, <1>3, <1>4, <1>5, <1>6, <1>7, <1>8

(* The functions of the table. *)
LEMMA AllRows ==
  ASSUME NEW row \in Commands
  PROVE  row.does \in {"Device", "NDevice", "States", "NStates", "Command", "NCommand",
                       "scan_Devices", "Gateway", "Current", "status", "Other"}
BY DEF Commands, Row

(* The places of a line, 0 for none. *)
Places(l) == 0 .. Len(l) + 1

(* A token leaves a place of the line, or none. *)
LEMMA NextPlace ==
  ASSUME NEW l \in Seq(Chars), NEW i \in Places(l), i # 0
  PROVE  /\ i \in 1 .. Len(l) + 1
         /\ extractTokenSub(l, i).arg \in Places(l)
         /\ Text(l, extractTokenSub(l, i)) \in Seq(Chars)
<1>1. Len(l) \in Nat
  OBVIOUS
<1>2. i \in 1 .. Len(l) + 1
  BY <1>1 DEF Places
<1>3. extractTokenSub(l, i).arg = 0 \/ extractTokenSub(l, i).arg \in i + 1 .. Len(l) + 1
  BY <1>2, PointerAdvances
<1>4. Text(l, extractTokenSub(l, i)) \in Seq(Chars)
  BY <1>2, TokenText
<1>5. extractTokenSub(l, i).arg \in Places(l)
  BY <1>1, <1>2, <1>3 DEF Places
<1> QED BY <1>2, <1>4, <1>5

(* The device of an argument. *)
LEMMA DeviceAtIs ==
  ASSUME devices \in Seq(Device), NEW l, NEW arg, NEW row \in Commands
  PROVE  /\ DeviceAt(l, arg, row) = Named(Text(l, extractTokenSub(l, arg)), row.finds)
         /\ DeviceAt(l, arg, row) \in ToSet(devices) \cup {NULL}
<1>1. DeviceAt(l, arg, row) = Named(Text(l, extractTokenSub(l, arg)), row.finds)
  BY FindNamed DEF DeviceAt
<1> QED BY <1>1, NamedIsDevice

(* What callAPI() is asked. *)
LEMMA AskedIn ==
  ASSUME NEW path \in Paths, NEW url \in Seq(Chars) \cup {NULL}, NEW name \in Seq(Chars) \cup {NULL},
         NEW parameters \in Seq(Seq(Chars))
  PROVE  Asked(path, url, name, parameters) \in Request /\ Asked(path, url, name, parameters) # NULL
<1>1. Asked(path, url, name, parameters) \in Request
  BY DEF Asked, Request
<1> QED BY <1>1, PromptAssumption

(* internal_States(): without a device nothing, else the states that are asked for. *)
LEMMA StatesEffect ==
  ASSUME devices \in Seq(Device), NEW l \in Seq(Chars), NEW arg \in Places(l),
         NEW row \in Commands, NEW reply \in Json
  PROVE  LET did  == internal_States(l, arg, row, reply)
             d    == DeviceAt(l, arg, row)
             next == extractTokenSub(l, arg).arg
             name == IF More(l, next) THEN Text(l, extractTokenSub(l, next)) ELSE NULL
         IN  IF arg = 0 \/ d = NULL THEN did = Nothing
             ELSE /\ did.device = d
                  /\ did.request = Asked("setup/devices/states", d.url, NULL, <<>>)
                  /\ did.request \in Request /\ did.request # NULL
                  /\ did.shown = ShowStates(reply, name)
<1> DEFINE d    == DeviceAt(l, arg, row)
           next == extractTokenSub(l, arg).arg
           name == IF More(l, next) THEN Text(l, extractTokenSub(l, next)) ELSE NULL
           asked == Asked("setup/devices/states", d.url, NULL, <<>>)
<1>1. internal_States(l, arg, row, reply) =
        IF arg = 0 \/ d = NULL THEN Nothing
        ELSE [device |-> d, request |-> asked, shown |-> ShowStates(reply, name)]
  BY DEF internal_States
<1>2. d \in ToSet(devices) \cup {NULL}
  BY DeviceAtIs
<1>3. ASSUME d # NULL
      PROVE  asked \in Request /\ asked # NULL
  <2>1. d \in ToSet(devices)
    BY <1>2, <1>3
  <2>2. d.url \in Seq(Chars)
    <3> HIDE DEF d
    <3> QED BY <2>1, DevicesIn
  <2>3. "setup/devices/states" \in Paths
    BY DEF Paths
  <2> DEFINE Q == Seq(Seq(Chars))
  <2>4. <<>> \in Q
    OBVIOUS
  <2> HIDE DEF d
  <2> QED BY <2>2, <2>3, <2>4, AskedIn
<1> HIDE DEF d, asked, name
<1> QED BY <1>1, <1>3 DEF d, asked, name

(* internal_Command(): nothing without a device and the name of a command. *)
LEMMA CommandEffect ==
  ASSUME devices \in Seq(Device), NEW l \in Seq(Chars), NEW arg \in Places(l),
         NEW row \in Commands
  PROVE  LET did  == internal_Command(l, arg, row)
             d    == DeviceAt(l, arg, row)
             next == extractTokenSub(l, arg).arg
             command == extractTokenSub(l, next)
         IN  IF arg = 0 \/ d = NULL \/ ~More(l, next) THEN did = Nothing
             ELSE /\ did.device = d /\ did.shown = <<>>
                  /\ did.request = Asked("exec/apply", d.url, Text(l, command), Remaining(l, command.arg))
                  /\ did.request \in Request /\ did.request # NULL
<1> DEFINE d    == DeviceAt(l, arg, row)
           next == extractTokenSub(l, arg).arg
           command == extractTokenSub(l, next)
           asked == Asked("exec/apply", d.url, Text(l, command), Remaining(l, command.arg))
<1>1. internal_Command(l, arg, row) =
        IF arg = 0 \/ d = NULL \/ ~More(l, next) THEN Nothing
        ELSE [device |-> d, shown |-> <<>>, request |-> asked]
  BY DEF internal_Command
<1>2. d \in ToSet(devices) \cup {NULL}
  BY DeviceAtIs
<1>3. ASSUME arg # 0, d # NULL, More(l, next)
      PROVE  asked \in Request /\ asked # NULL
  <2>1. d \in ToSet(devices)
    BY <1>2, <1>3
  <2>2. d.url \in Seq(Chars)
    <3> HIDE DEF d
    <3> QED BY <2>1, DevicesIn
  <2>3. "exec/apply" \in Paths
    BY DEF Paths
  <2>4. next \in Places(l) /\ next # 0
    BY <1>3, NextPlace DEF More
  <2>5. Text(l, command) \in Seq(Chars) /\ command.arg \in Places(l)
    <3> HIDE DEF next
    <3> QED BY <2>4, NextPlace
  <2>6. Remaining(l, command.arg) \in Seq(Seq(Chars))
    <3> DEFINE Q == Seq(Seq(Chars))
               i == command.arg
    <3>1. i = 0 \/ i \in 1 .. Len(l) + 1
      <4>1. Len(l) \in Nat /\ i \in 0 .. Len(l) + 1
        BY <2>5 DEF Places
      <4> HIDE DEF i
      <4> QED BY <4>1
    <3> HIDE DEF i
    <3>2. <<>> \in Q
      OBVIOUS
    <3>3. Remaining(l, i) \in Q
      BY <3>1, <3>2, RemainingBySteps
    <3> QED BY <3>3 DEF i
  <2> HIDE DEF d, command, next
  <2> QED BY <2>2, <2>3, <2>5, <2>6, AskedIn
<1> HIDE DEF d, asked, next
<1> QED BY <1>1, <1>3 DEF d, asked, next

(* What Device prints is no value. *)
Told == [label : Label, url : Seq(Chars)] \cup [key : Texts]

(* device_info() tells names only. *)
LEMMA InfoIsTold ==
  ASSUME NEW d \in Device
  PROVE  device_info(d) \in Seq(Told) /\ <<[label |-> d.label, url |-> d.url]>> \in Seq(Told)
<1> DEFINE items == d.commands \o d.states
<1>1. /\ d.label \in Label /\ d.url \in Seq(Chars)
      /\ d.commands \in Seq(Texts) /\ d.states \in Seq(Texts)
  BY DEF Device
<1>2. items \in Seq(Texts)
  BY <1>1
<1>3. device_info(d) = [i \in DOMAIN items |-> [key |-> items[i]]]
  BY DEF device_info
<1> HIDE DEF items
<1>4. \A i \in DOMAIN items : [key |-> items[i]] \in Told
  BY <1>2 DEF Told
<1> DEFINE T == Told
<1>5. [label |-> d.label, url |-> d.url] \in T
  BY <1>1 DEF Told
<1>6. Len(items) \in Nat /\ DOMAIN items = 1 .. Len(items)
  BY <1>2
<1> HIDE DEF T
<1>7. [i \in DOMAIN items |-> [key |-> items[i]]] \in [1 .. Len(items) -> T]
  BY <1>4, <1>6 DEF T
<1>8. [i \in DOMAIN items |-> [key |-> items[i]]] \in Seq(T)
  BY <1>6, <1>7
<1>9. <<[label |-> d.label, url |-> d.url]>> \in Seq(T)
  BY <1>5
<1> QED BY <1>3, <1>8, <1>9 DEF T

(* internal_Devs() asks nothing and prints no value of an answer. *)
LEMMA DevsEffect ==
  ASSUME devices \in Seq(Device), NEW l, NEW arg, NEW row \in Commands, NEW more \in BOOLEAN
  PROVE  LET did == internal_Devs(l, arg, row, more)
         IN  /\ did.request = NULL /\ did.device \in ToSet(devices) \cup {NULL}
             /\ did.shown \in Seq(Told)
<1> DEFINE d == DeviceAt(l, arg, row)
           listed(e) == <<[label |-> e.label, url |-> e.url]>>
           all == [i \in DOMAIN devices |-> listed(devices[i]) \o
                     (IF more THEN device_info(devices[i]) ELSE <<>>)]
           n == Len(devices)
           T == Seq(Told)
<1>1. internal_Devs(l, arg, row, more) =
        IF arg = 0 THEN [Nothing EXCEPT !.shown = FlattenSeq(all)]
        ELSE IF d = NULL THEN Nothing
        ELSE [device |-> d, request |-> NULL, shown |-> listed(d) \o device_info(d)]
  BY DEF internal_Devs
<1>2. \A e \in Device : listed(e) \in T /\ device_info(e) \in T
  BY InfoIsTold
<1>3. <<>> \in T /\ \A s, t \in T : s \o t \in T
  <2>1. <<>> \in T
    OBVIOUS
  <2>2. \A s, t \in T : s \o t \in T
    OBVIOUS
  <2> QED BY <2>1, <2>2
<1>4. n \in Nat /\ DOMAIN devices = 1 .. n /\ \A i \in 1 .. n : devices[i] \in Device
  OBVIOUS
<1> HIDE DEF T, listed
<1>5. all \in [1 .. n -> T]
  BY <1>2, <1>3, <1>4
<1> HIDE DEF all, n
<1>6. FlattenSeq(all) \in T
  BY <1>4, <1>5, FlattenEach DEF T
<1>7. d \in ToSet(devices) \cup {NULL}
  BY DeviceAtIs
<1> HIDE DEF d
<1>8. d # NULL => listed(d) \o device_info(d) \in T
  <2>1. d # NULL => d \in Device
    BY <1>7, DevicesIn
  <2> QED BY <1>2, <1>3, <2>1
<1> QED BY <1>1, <1>3, <1>6, <1>7, <1>8 DEF Nothing, T

(* A command has the same effect as long as the devices are the same. *)
LEMMA FindStays ==
  ASSUME devices' = devices
  PROVE  \A l, token, field : Find(l, token, field)' = Find(l, token, field)
BY DEF Find, SelectInSeq

(* What a command does depends on the devices only. *)
LEMMA EffectStays ==
  ASSUME devices' = devices
  PROVE  \A row, l, arg, reply, more :
           Effect(row, l, arg, reply, more)' = Effect(row, l, arg, reply, more)
<1>1. \A l, arg, row : DeviceAt(l, arg, row)' = DeviceAt(l, arg, row)
  BY FindStays DEF DeviceAt
<1>2. \A l, arg, row, reply : internal_States(l, arg, row, reply)' = internal_States(l, arg, row, reply)
  BY <1>1 DEF internal_States
<1>3. \A l, arg, row : internal_Command(l, arg, row)' = internal_Command(l, arg, row)
  BY <1>1 DEF internal_Command
<1>4. \A l, arg, row, more : internal_Devs(l, arg, row, more)' = internal_Devs(l, arg, row, more)
  <2> DEFINE listed(e) == <<[label |-> e.label, url |-> e.url]>>
             all(list, more) ==
               FlattenSeq([i \in DOMAIN list |-> listed(list[i]) \o
                             (IF more THEN device_info(list[i]) ELSE <<>>)])
  <2>1. \A more : all(devices, more)' = all(devices, more)
    <3> HIDE DEF listed
    <3> QED OBVIOUS
  <2>2. \A l, arg, row, more :
          internal_Devs(l, arg, row, more) =
            IF arg = 0 THEN [Nothing EXCEPT !.shown = all(devices, more)]
            ELSE IF DeviceAt(l, arg, row) = NULL THEN Nothing
            ELSE [device |-> DeviceAt(l, arg, row), request |-> NULL,
                  shown |-> listed(DeviceAt(l, arg, row)) \o device_info(DeviceAt(l, arg, row))]
    BY DEF internal_Devs
  <2>3. \A l, arg, row, more :
          internal_Devs(l, arg, row, more)' =
            IF arg = 0 THEN [Nothing EXCEPT !.shown = all(devices', more)]
            ELSE IF DeviceAt(l, arg, row)' = NULL THEN Nothing
            ELSE [device |-> DeviceAt(l, arg, row)', request |-> NULL,
                  shown |-> listed(DeviceAt(l, arg, row)') \o device_info(DeviceAt(l, arg, row)')]
    BY DEF internal_Devs
  <2> HIDE DEF all, listed
  <2> QED BY <1>1, <2>1, <2>2, <2>3
<1> QED BY <1>2, <1>3, <1>4 DEF Effect

(* What was executed has the effect its command has on the present devices. *)
ArgOf(l) == LET cmd == extractTokenSub(l, 1) IN IF More(l, cmd.arg) THEN cmd.arg ELSE 0
HasEffect(r) ==
  \E more \in BOOLEAN :
    LET did == Effect(r.row, r.line, ArgOf(r.line), r.reply, more)
    IN  r.device = did.device /\ r.request = did.request /\ r.shown = did.shown

Executed ==
  ran # NoRun =>
    /\ ran.line \in Seq(Chars) /\ WordAt(ran.line, 1)
    /\ ran.row \in RowOf(ran.line, extractTokenSub(ran.line, 1))
    /\ ran.reply \in Json
    /\ HasEffect(ran)

OneLine == ran # NoRun => line = <<>>

Known ==
  /\ devices \in Seq(Device)
  /\ line \in Seq(Chars)
  /\ tabs \in 0 .. MaxTabs
  /\ crashed \in BOOLEAN

(* What scan_Devices prints does not depend on the devices that are replaced. *)
LEMMA ScanStays ==
  ASSUME NEW row \in Commands, row.does = "scan_Devices"
  PROVE  \A l, arg, reply, more : Effect(row, l, arg, reply, more)' = Effect(row, l, arg, reply, more)
BY DEF Effect

(* What the gateway answers to a row. *)
LEMMA RepliesAreJson ==
  ASSUME NEW row \in Commands
  PROVE  /\ RepliesTo(row) \subseteq Json
         /\ row.does = "scan_Devices" => RepliesTo(row) = Replies["scan_Devices"]
<1>1. NULL \in Json /\ \A does \in DOMAIN Replies : Replies[does] \subseteq Json
  BY JsonAssumption, PromptAssumption
<1>2. row.does = "scan_Devices" => RepliesTo(row) = Replies["scan_Devices"]
  BY PromptAssumption DEF RepliesTo
<1> QED BY <1>1, <1>2 DEF RepliesTo

(* ENTER leaves devices, and what was executed holds of them. *)
LEMMA ExecuteStep ==
  ASSUME Known, Execute
  PROVE  /\ (devices \in Seq(Device))' /\ Executed' /\ line' = <<>>
         /\ crashed' \in BOOLEAN
         /\ \E row \in RowOf(Stripped(line), extractTokenSub(Stripped(line), 1)) :
              devices' = devices \/ row.does = "scan_Devices"
<1>0. PICK l : l = Stripped(line)
  OBVIOUS
<1> DEFINE cmd == extractTokenSub(l, 1)
<1>1. l \in Seq(Chars) /\ WordAt(l, 1)
  BY <1>0, StrippedBegins DEF Known, Execute
<1> DEFINE Ran(row, reply, more) ==
             LET did == Effect(row, l, ArgOf(l), reply, more)
             IN  /\ ran' = [line |-> l, row |-> row, reply |-> reply, device |-> did.device,
                            request |-> did.request, shown |-> did.shown]
                 /\ devices' = IF did.request # NULL /\ row.does = "scan_Devices"
                               THEN func_scandevs(reply) ELSE devices
                 /\ crashed' = \/ row.does = "Current" /\ ArgOf(l) = 0 /\ CurrentCrashes(reply, devices)
                               \/ row.does = "scan_Devices" /\ ArgOf(l) = 0 /\ ScanCrashes(reply)
<1>a. PICK row \in RowOf(l, cmd) : \E more \in BOOLEAN, reply \in RepliesTo(row) : Ran(row, reply, more)
  BY <1>0 DEF Execute, ArgOf
<1>2. PICK more \in BOOLEAN, reply \in RepliesTo(row) : Ran(row, reply, more)
  BY <1>a
<1>3. row \in Commands /\ line' = <<>>
  BY <1>2 DEF RowOf, Execute
<1>4. reply \in Json
  BY <1>2, <1>3, RepliesAreJson
<1>5. row.does = "scan_Devices" =>
        /\ (devices \in Seq(Device))'
        /\ Effect(row, l, ArgOf(l), reply, more)' = Effect(row, l, ArgOf(l), reply, more)
  <2> SUFFICES ASSUME row.does = "scan_Devices"
               PROVE  /\ (devices \in Seq(Device))'
                      /\ Effect(row, l, ArgOf(l), reply, more)' = Effect(row, l, ArgOf(l), reply, more)
    OBVIOUS
  <2>1. (devices \in Seq(Device))'
    <3>1. reply \in Replies["scan_Devices"]
      BY <1>2, <1>3, RepliesAreJson
    <3>2. func_scandevs(reply) \in Seq(Device)
      BY <3>1, ScannedAreDevices DEF Known
    <3> QED BY <1>2, <3>2 DEF Known
  <2>2. Effect(row, l, ArgOf(l), reply, more)' = Effect(row, l, ArgOf(l), reply, more)
    BY <1>3, ScanStays
  <2> QED BY <2>1, <2>2
<1>6. row.does # "scan_Devices" =>
        /\ (devices \in Seq(Device))' /\ devices' = devices
        /\ Effect(row, l, ArgOf(l), reply, more)' = Effect(row, l, ArgOf(l), reply, more)
  <2> SUFFICES ASSUME row.does # "scan_Devices"
               PROVE  /\ (devices \in Seq(Device))' /\ devices' = devices
                      /\ Effect(row, l, ArgOf(l), reply, more)' = Effect(row, l, ArgOf(l), reply, more)
    OBVIOUS
  <2>1. devices' = devices
    BY <1>2
  <2>2. Effect(row, l, ArgOf(l), reply, more)' = Effect(row, l, ArgOf(l), reply, more)
    BY <2>1, EffectStays
  <2> QED BY <2>1, <2>2 DEF Known
<1>7. Executed'
  <2> DEFINE did == Effect(row, l, ArgOf(l), reply, more)
  <2>1. /\ ran'.line = l /\ ran'.row = row /\ ran'.reply = reply
        /\ ran'.device = did.device /\ ran'.request = did.request /\ ran'.shown = did.shown
    BY <1>2
  <2>2. Effect(row, l, ArgOf(l), reply, more)' = did
    BY <1>5, <1>6
  <2>3. Effect(ran.row, ran.line, ArgOf(ran.line), ran.reply, more)' = did
    BY <2>1, <2>2
  <2> QED BY <1>1, <1>a, <1>4, <2>1, <2>3 DEF Executed, HasEffect
<1>8. crashed' \in BOOLEAN
  BY <1>2
<1> QED BY <1>0, <1>a, <1>2, <1>3, <1>5, <1>6, <1>7, <1>8

-----------------------------------------------------------------------------
(* The words of a line as a command takes them. *)

(* One element in front of a sequence. *)
LEMMA PutBefore ==
  ASSUME NEW S, NEW x \in S, NEW t \in Seq(S)
  PROVE  /\ <<x>> \o t \in Seq(S) /\ Len(<<x>> \o t) = Len(t) + 1 /\ Len(t) \in Nat
         /\ (<<x>> \o t)[1] = x
         /\ \A n \in 1 .. Len(t) : (<<x>> \o t)[n + 1] = t[n]
<1>1. <<x>> \in Seq(S) /\ Len(<<x>>) = 1 /\ <<x>>[1] = x
  OBVIOUS
<1>2. <<x>> \o t \in Seq(S) /\ Len(<<x>> \o t) = Len(t) + 1 /\ Len(t) \in Nat
  BY <1>1
<1>3. (<<x>> \o t)[1] = x
  BY <1>1
<1>4. \A n \in 1 .. Len(t) : (<<x>> \o t)[n + 1] = t[n]
  BY <1>1
<1> QED BY <1>2, <1>3, <1>4

(* The words of a line as the commands take them. *)
LEMMA WordsTaken ==
  ASSUME NEW l \in Seq(Chars), Plain(l), WordAt(l, 1)
  PROVE  LET second == extractTokenSub(l, 1).arg
             third  == extractTokenSub(l, second).arg
             behind == extractTokenSub(l, third).arg
         IN  /\ Len(WordsOf(l)) \in Nat \ {0}
             /\ Len(WordsOf(l)) >= 2 <=> More(l, second)
             /\ More(l, second) =>
                  /\ second \in 1 .. Len(l)
                  /\ WordsOf(l)[2] = Text(l, extractTokenSub(l, second))
                  /\ Len(WordsOf(l)) >= 3 <=> More(l, third)
                  /\ More(l, third) =>
                       /\ WordsOf(l)[3] = Text(l, extractTokenSub(l, third))
                       /\ SubSeq(WordsOf(l), 4, Len(WordsOf(l))) = Remaining(l, behind)
<1> DEFINE N == Len(l) + 1
           V == 1 .. Len(l) + 1
           S == Seq(Chars)
           R(i) == Remaining(l, i)
           after(i) == extractTokenSub(l, i).arg
           word(i) == Text(l, extractTokenSub(l, i))
<1>1. N \in Nat /\ 1 \in V /\ More(l, 1) /\ V = 1 .. N
  BY DEF WordAt, More
<1>2. R(1) = WordsOf(l)
  BY CompletionCounts DEF CountedAlike
<1>3. ASSUME NEW i \in V
      PROVE  /\ R(i) = IF More(l, i) THEN <<word(i)>> \o R(after(i)) ELSE <<>>
             /\ word(i) \in S /\ R(i) \in Seq(S)
             /\ after(i) = 0 \/ after(i) \in V
  <2>1. after(i) = 0 \/ after(i) \in i + 1 .. Len(l) + 1
    BY PointerAdvances
  <2>2. after(i) = 0 \/ after(i) \in V
    <3> HIDE DEF after
    <3> QED BY <1>1, <2>1
  <2> QED BY <2>2, RemainingBySteps, TokenText
<1>4. R(0) = <<>> /\ ~More(l, 0)
  BY RemainingBySteps DEF More
<1>5. <<>> \in Seq(S)
  <2> HIDE DEF S
  <2> QED OBVIOUS
<1>6. \A i \in V \cup {0} :
        /\ R(i) \in Seq(S)
        /\ ~More(l, i) => R(i) = <<>>
        /\ More(l, i) => i \in V /\ R(i) = <<word(i)>> \o R(after(i)) /\ word(i) \in S
  <2> HIDE DEF R, S, V, after, word
  <2> QED BY <1>3, <1>4, <1>5
<1>7. ASSUME NEW i \in V, More(l, i)
      PROVE  /\ after(i) \in V \cup {0} /\ R(after(i)) \in Seq(S)
             /\ R(i) \in Seq(S) /\ Len(R(i)) = Len(R(after(i))) + 1 /\ Len(R(after(i))) \in Nat
             /\ R(i)[1] = word(i)
             /\ \A n \in 1 .. Len(R(after(i))) : R(i)[n + 1] = R(after(i))[n]
  <2>1. after(i) \in V \cup {0}
    BY <1>3
  <2> HIDE DEF R, S, V, after, word
  <2>2. R(after(i)) \in Seq(S) /\ R(i) = <<word(i)>> \o R(after(i)) /\ word(i) \in S
    BY <1>6, <1>7, <2>1
  <2> QED BY <2>1, <2>2, PutBefore
<1> DEFINE second == after(1)
           third == after(second)
           behind == after(third)
           W == WordsOf(l)
<1>8. second \in V \cup {0} /\ (More(l, second) => second \in 1 .. Len(l))
  <2>1. second \in V \cup {0}
    BY <1>1, <1>7
  <2> HIDE DEF second
  <2> QED BY <1>1, <2>1 DEF More
<1>9. Len(W) = Len(R(second)) + 1 /\ Len(R(second)) \in Nat
      /\ \A n \in 1 .. Len(R(second)) : W[n + 1] = R(second)[n]
  <2> HIDE DEF R, S, V, after, word
  <2> QED BY <1>1, <1>2, <1>7
<1>10. CASE ~More(l, second)
  <2>1. R(second) = <<>>
    <3> HIDE DEF R, S, V, second
    <3> QED BY <1>6, <1>8, <1>10
  <2>2. Len(W) = 1
    BY <1>9, <2>1
  <2> QED BY <1>10, <2>2
<1>11. CASE More(l, second)
  <2>1. /\ third \in V \cup {0}
        /\ Len(R(second)) = Len(R(third)) + 1 /\ Len(R(third)) \in Nat
        /\ R(second)[1] = word(second)
        /\ \A n \in 1 .. Len(R(third)) : R(second)[n + 1] = R(third)[n]
    <3>1. second \in V
      BY <1>8, <1>11, <1>1
    <3> HIDE DEF R, S, V, after, word, second
    <3> QED BY <1>7, <1>11, <3>1
  <2> HIDE DEF R, S, V, after, word, second, third, behind, W
  <2>2. Len(W) = Len(R(third)) + 2 /\ W[2] = word(second)
        /\ \A n \in 1 .. Len(R(third)) : W[n + 2] = R(third)[n]
    <3>1. 1 \in 1 .. Len(R(second)) /\ 1 + 1 = 2
      BY <2>1
    <3>2. \A n \in 1 .. Len(R(third)) : n + 1 \in 1 .. Len(R(second)) /\ (n + 1) + 1 = n + 2
      BY <2>1
    <3>3. Len(W) = Len(R(third)) + 2
      BY <1>9, <2>1
    <3> QED BY <1>9, <2>1, <3>1, <3>2, <3>3
  <2>3. CASE ~More(l, third)
    <3>1. R(third) = <<>>
      BY <1>6, <2>1, <2>3
    <3>2. Len(W) = 2
      BY <2>2, <3>1
    <3>3. Len(W) >= 2 /\ ~(Len(W) >= 3) /\ Len(W) \in Nat \ {0}
      BY <3>2
    <3> HIDE DEF R
    <3> QED BY <1>8, <1>11, <2>2, <2>3, <3>3 DEF second, third, behind, W, after, word
  <2>4. CASE More(l, third)
    <3>0. third \in V
      BY <1>6, <2>1, <2>4
    <3>1. /\ R(behind) \in Seq(S)
          /\ Len(R(third)) = Len(R(behind)) + 1 /\ Len(R(behind)) \in Nat
          /\ R(third)[1] = word(third)
          /\ \A n \in 1 .. Len(R(behind)) : R(third)[n + 1] = R(behind)[n]
      BY <1>7, <2>4, <3>0 DEF behind
    <3>2. Len(W) = Len(R(behind)) + 3 /\ W[3] = word(third)
          /\ \A n \in 1 .. Len(R(behind)) : W[n + 3] = R(behind)[n]
      <4>1. 1 \in 1 .. Len(R(third)) /\ 1 + 2 = 3
        BY <3>1
      <4>2. \A n \in 1 .. Len(R(behind)) : n + 1 \in 1 .. Len(R(third)) /\ (n + 1) + 2 = n + 3
        BY <3>1
      <4>3. Len(W) = Len(R(behind)) + 3
        BY <2>2, <3>1
      <4> QED BY <2>2, <3>1, <4>1, <4>2, <4>3
    <3>3. SubSeq(W, 4, Len(W)) = R(behind)
      <4>1. W \in Seq(S)
        BY <1>1, <1>2, <1>3 DEF W
      <4> DEFINE s == SubSeq(W, 4, Len(W))
                 t == R(behind)
                 M == Len(R(behind))
      <4>2. M \in Nat /\ Len(W) = M + 3 /\ t \in Seq(S) /\ Len(t) = M
        BY <3>1, <3>2
      <4>3. s \in Seq(S) /\ Len(s) = M /\ \A n \in 1 .. M : s[n] = W[n + 3]
        <5> HIDE DEF t, M
        <5>1. \A n \in 4 .. Len(W) : n \in 1 .. Len(W)
          BY <4>2
        <5>2. s \in Seq(S) /\ Len(s) = M
          BY <4>1, <4>2, <5>1
        <5>3. \A n \in 1 .. M : s[n] = W[4 + n - 1] /\ 4 + n - 1 = n + 3
          BY <4>1, <4>2, <5>1
        <5> QED BY <5>2, <5>3
      <4>4. \A n \in 1 .. M : s[n] = t[n]
        BY <3>2, <4>3
      <4> HIDE DEF s, t, M
      <4>5. s = t
        BY <4>2, <4>3, <4>4
      <4> QED BY <4>5 DEF s, t
    <3>4. Len(W) >= 3 /\ Len(W) >= 2 /\ Len(W) \in Nat \ {0}
      BY <3>1, <3>2
    <3> QED BY <1>8, <1>11, <2>2, <2>4, <3>2, <3>3, <3>4 DEF second, third, behind, W, after, word, R
  <2> QED BY <2>3, <2>4
<1> QED BY <1>10, <1>11

-----------------------------------------------------------------------------
(* What was executed *)

(* The second word, and the device it names. *)
LEMMA ArgIsPlace ==
  ASSUME NEW l \in Seq(Chars), WordAt(l, 1)
  PROVE  ArgOf(l) \in Places(l)
<1> DEFINE next == extractTokenSub(l, 1).arg
<1>1. Len(l) \in Nat /\ 1 \in Places(l)
  BY DEF WordAt, Places
<1>2. next \in Places(l)
  BY <1>1, NextPlace
<1>3. 0 \in Places(l)
  BY <1>1 DEF Places
<1>4. ArgOf(l) = IF More(l, next) THEN next ELSE 0
  BY DEF ArgOf
<1> HIDE DEF next
<1> QED BY <1>2, <1>3, <1>4

NothingIs == Nothing.device = NULL /\ Nothing.request = NULL /\ Nothing.shown = <<>>

(* Nothing names no device, asks and prints nothing. *)
LEMMA NothingIsNothing == NothingIs
BY DEF Nothing, NothingIs

(* A query names no device. *)
LEMMA QueryIs ==
  ASSUME NEW path \in Paths, NEW shown
  PROVE  /\ Query(path, shown).device = NULL /\ Query(path, shown).shown = shown
         /\ Query(path, shown).request \in Request
<1>1. Asked(path, NULL, NULL, <<>>) \in Request
  <2> DEFINE Q == Seq(Seq(Chars))
  <2>1. <<>> \in Q
    OBVIOUS
  <2> QED BY <2>1, AskedIn
<1> QED BY <1>1 DEF Query

(* Values that are printed: those of pieces that were sent. *)
Sent(shown, leaves) ==
  \A piece \in ToSet(shown) : "value" \in DOMAIN piece => piece.value \in PrintedAs(leaves)

(* Pieces of a set of which each value was sent. *)
LEMMA SentPieces ==
  ASSUME NEW L, NEW S, NEW shown \in Seq(S),
         \A piece \in S : "value" \in DOMAIN piece => piece.value \in PrintedAs(L)
  PROVE  Sent(shown, L)
BY DEF Sent, ToSet

(* What a command may yield. *)
Right(did, leaves) ==
  /\ did.device \in ToSet(devices) \cup {NULL} /\ did.request \in Request \cup {NULL}
  /\ Sent(did.shown, leaves)

(* Nothing is printed of any answer. *)
LEMMA NothingIsRight ==
  ASSUME NEW L
  PROVE  Right(Nothing, L) /\ Sent(<<>>, L)
<1>1. Sent(<<>>, L)
  BY DEF Sent, ToSet
<1> QED BY <1>1, NothingIsNothing DEF Right, NothingIs

(* A query prints what it prints of the answer. *)
LEMMA QueryIsRight ==
  ASSUME NEW L, NEW path \in Paths, NEW shown, Sent(shown, L)
  PROVE  Right(Query(path, shown), L)
BY QueryIs DEF Right

(* Each command names a device of the list or none, asks what can be asked and
   prints values of the answer. *)
LEMMA EffectIsTyped ==
  ASSUME devices \in Seq(Device), NEW row \in Commands, NEW l \in Seq(Chars), WordAt(l, 1),
         NEW reply \in Json, NEW more \in BOOLEAN
  PROVE  Right(Effect(row, l, ArgOf(l), reply, more), Leaves[reply])
<1>0. PICK arg : arg = ArgOf(l)
  OBVIOUS
<1>a. PICK did : did = Effect(row, l, arg, reply, more)
  OBVIOUS
<1>b. PICK L : L = Leaves[reply]
  OBVIOUS
<1>1. arg \in Places(l)
  BY <1>0, ArgIsPlace
<1>2. Right(Nothing, L) /\ Sent(<<>>, L)
  BY NothingIsRight
<1>3. CASE row.does \in {"Device", "NDevice"}
  <2>1. did = internal_Devs(l, arg, row, more)
    BY <1>3, <1>a, EffectCases
  <2>2. did.request = NULL /\ did.device \in ToSet(devices) \cup {NULL} /\ did.shown \in Seq(Told)
    BY <2>1, DevsEffect
  <2>3. \A piece \in Told : "value" \in DOMAIN piece => piece.value \in PrintedAs(L)
    BY DEF Told
  <2>4. Sent(did.shown, L)
    BY <2>2, <2>3, SentPieces
  <2>5. Right(did, L)
    BY <2>2, <2>4 DEF Right
  <2> QED BY <2>5, <1>0, <1>a, <1>b
<1>4. CASE row.does \in {"States", "NStates"}
  <2> DEFINE d == DeviceAt(l, arg, row)
             next == extractTokenSub(l, arg).arg
             name == IF More(l, next) THEN Text(l, extractTokenSub(l, next)) ELSE NULL
  <2>1. did = internal_States(l, arg, row, reply)
    BY <1>4, <1>a, EffectCases
  <2>2. IF arg = 0 \/ d = NULL THEN did = Nothing
        ELSE did.device = d /\ did.request \in Request /\ did.shown = ShowStates(reply, name)
    BY <1>1, <2>1, StatesEffect
  <2>3. d \in ToSet(devices) \cup {NULL}
    BY DeviceAtIs
  <2> HIDE DEF d, name
  <2>4. Sent(ShowStates(reply, name), L)
    <3> DEFINE sel == SelectedOf(reply, name)
               U == UNION {Leaves[e] : e \in sel}
               S == Stated(sel)
    <3>1. ShowStates(reply, name) \in Seq(S)
      BY StatesShowSelected
    <3>2. U \subseteq L
      <4>1. \A e \in sel : Leaves[e] \subseteq L
        BY <1>b, ElementsIn DEF SelectedOf, ToSet
      <4> HIDE DEF sel
      <4> QED BY <4>1
    <3>3. PrintedAs(U) \subseteq PrintedAs(L)
      <4> HIDE DEF U
      <4> QED BY <3>2, PrintedAsMore
    <3>4. \A piece \in S : "value" \in DOMAIN piece => piece.value \in PrintedAs(U)
      <4> HIDE DEF sel
      <4>1. S = [value : PrintedAs(U)] \cup [key : Keys] \cup [unknown : Int] \cup [state : Texts]
        BY DEF Stated, Valued, Raw
      <4> HIDE DEF S, U
      <4> QED BY <4>1
    <3> HIDE DEF S, U
    <3> QED BY <3>1, <3>3, <3>4, SentPieces
  <2>5. Right(did, L)
    <3>1. CASE arg = 0 \/ d = NULL
      BY <1>2, <2>2, <3>1
    <3>2. CASE ~(arg = 0 \/ d = NULL)
      <4>1. did.device = d /\ did.request \in Request /\ did.shown = ShowStates(reply, name)
        BY <2>2, <3>2
      <4>2. Sent(did.shown, L)
        BY <2>4, <4>1
      <4> QED BY <2>3, <4>1, <4>2 DEF Right
    <3> QED BY <3>1, <3>2
  <2> QED BY <2>5, <1>0, <1>a, <1>b
<1>5. CASE row.does \in {"Command", "NCommand"}
  <2> DEFINE d == DeviceAt(l, arg, row)
             next == extractTokenSub(l, arg).arg
  <2>1. did = internal_Command(l, arg, row)
    BY <1>5, <1>a, EffectCases
  <2>2. IF arg = 0 \/ d = NULL \/ ~More(l, next) THEN did = Nothing
        ELSE did.device = d /\ did.request \in Request /\ did.shown = <<>>
    BY <1>1, <2>1, CommandEffect
  <2>3. d \in ToSet(devices) \cup {NULL}
    BY DeviceAtIs
  <2> HIDE DEF d, next
  <2>4. Right(did, L)
    <3>1. CASE arg = 0 \/ d = NULL \/ ~More(l, next)
      BY <1>2, <2>2, <3>1
    <3>2. CASE ~(arg = 0 \/ d = NULL \/ ~More(l, next))
      BY <1>2, <2>2, <2>3, <3>2 DEF Right
    <3> QED BY <3>1, <3>2
  <2> QED BY <2>4, <1>0, <1>a, <1>b
<1>6. Sent(ShowScan(reply), L) /\ Sent(ShowGateway(reply), L) /\ Sent(ShowCurrent(reply, devices), L)
  <2> DEFINE P == [value : PrintedAs(L)]
             R == Running(devices, L)
  <2>1. ShowScan(reply) \in Seq(P) /\ ShowGateway(reply) \in Seq(P)
    BY <1>b, ScanShowsSent, GatewayShowsSent
  <2>2. ShowCurrent(reply, devices) \in Seq(R)
    BY <1>b, CurrentShowsSent
  <2>3. \A piece \in P : "value" \in DOMAIN piece => piece.value \in PrintedAs(L)
    OBVIOUS
  <2>4. \A piece \in R : "value" \in DOMAIN piece => piece.value \in PrintedAs(L)
    BY DEF Running, Raw, Labelled
  <2> HIDE DEF P, R
  <2> QED BY <2>1, <2>2, <2>3, <2>4, SentPieces
<1>7. "setup/devices" \in Paths /\ "setup/gateways" \in Paths /\ "/exec/current" \in Paths
  BY DEF Paths
<1>8. CASE row.does = "scan_Devices"
  <2>1. did = IF arg = 0 THEN Query("setup/devices", IF more THEN ShowScan(reply) ELSE <<>>) ELSE Nothing
    BY <1>8, <1>a, EffectCases
  <2>2. Right(Query("setup/devices", IF more THEN ShowScan(reply) ELSE <<>>), L)
    BY <1>2, <1>6, <1>7, QueryIsRight
  <2>3. Right(did, L)
    BY <1>2, <2>1, <2>2
  <2> QED BY <2>3, <1>0, <1>a, <1>b
<1>9. CASE row.does = "Gateway"
  <2>1. did = IF arg = 0 THEN Query("setup/gateways", ShowGateway(reply)) ELSE Nothing
    BY <1>9, <1>a, EffectCases
  <2>2. Right(Query("setup/gateways", ShowGateway(reply)), L)
    BY <1>6, <1>7, QueryIsRight
  <2>3. Right(did, L)
    BY <1>2, <2>1, <2>2
  <2> QED BY <2>3, <1>0, <1>a, <1>b
<1>10. CASE row.does = "Current"
  <2>1. did = IF arg = 0 THEN Query("/exec/current", ShowCurrent(reply, devices)) ELSE Nothing
    BY <1>10, <1>a, EffectCases
  <2>2. Right(Query("/exec/current", ShowCurrent(reply, devices)), L)
    BY <1>6, <1>7, QueryIsRight
  <2>3. Right(did, L)
    BY <1>2, <2>1, <2>2
  <2> QED BY <2>3, <1>0, <1>a, <1>b
<1>11. CASE row.does = "status"
  <2>1. did = [Nothing EXCEPT !.shown = <<[count |-> Len(devices)]>>]
    BY <1>11, <1>a, EffectCases
  <2>2. did.device = NULL /\ did.request = NULL /\ did.shown = <<[count |-> Len(devices)]>>
    BY <2>1 DEF Nothing
  <2>3. Sent(<<[count |-> Len(devices)]>>, L)
    BY DEF Sent, ToSet
  <2>4. Right(did, L)
    BY <2>2, <2>3 DEF Right
  <2> QED BY <2>4, <1>0, <1>a, <1>b
<1>12. CASE row.does = "Other"
  <2>1. did = Nothing
    BY <1>12, <1>a, EffectCases
  <2> QED BY <1>2, <2>1, <1>0, <1>a, <1>b
<1> QED BY <1>3, <1>4, <1>5, <1>8, <1>9, <1>10, <1>11, <1>12, AllRows

(* Each value that is printed was sent. *)
LEMMA ExecutedShowsSent ==
  ASSUME Known, Executed, ran # NoRun
  PROVE  /\ ran.line \in Seq(Chars) /\ ran.row \in Commands /\ ran.reply \in Json
         /\ ran.device \in ToSet(devices) \cup {NULL} /\ ran.request \in Request \cup {NULL}
         /\ Values \subseteq Printable({ran.reply})
<1>1. /\ ran.line \in Seq(Chars) /\ WordAt(ran.line, 1) /\ ran.row \in Commands
      /\ ran.reply \in Json /\ devices \in Seq(Device)
  BY DEF Executed, RowOf, Known
<1>2. PICK more \in BOOLEAN :
        LET did == Effect(ran.row, ran.line, ArgOf(ran.line), ran.reply, more)
        IN  ran.device = did.device /\ ran.request = did.request /\ ran.shown = did.shown
  BY DEF Executed, HasEffect
<1>3. /\ ran.device \in ToSet(devices) \cup {NULL} /\ ran.request \in Request \cup {NULL}
      /\ Sent(ran.shown, Leaves[ran.reply])
  BY <1>1, <1>2, EffectIsTyped DEF Right
<1>4. Printable({ran.reply}) = PrintedAs(Leaves[ran.reply])
  <2>1. UNION {Leaves[json] : json \in {ran.reply}} = Leaves[ran.reply]
    OBVIOUS
  <2> QED BY <2>1 DEF Printable
<1>5. Values \subseteq PrintedAs(Leaves[ran.reply])
  BY <1>3 DEF Values, Pieces, Sent
<1> QED BY <1>1, <1>3, <1>4, <1>5

(* Current prints the labels of the devices as they are now. *)
LEMMA ExecutedNamesDevices ==
  ASSUME Known, Executed
  PROVE  CurrentNamesDevices
<1> SUFFICES ASSUME ran # NoRun, ran.row.does = "Current", NEW piece \in Pieces("label")
             PROVE  LET owners == {d \in ToSet(devices) : d.url = piece.url}
                    IN  IF piece.label = NULL THEN owners = {}
                        ELSE piece.label \in {d.label : d \in owners}
  BY DEF CurrentNamesDevices
<1>1. ran.row \in Commands /\ ran.reply \in Json /\ devices \in Seq(Device)
  BY DEF Executed, RowOf, Known
<1>2. PICK more \in BOOLEAN : ran.shown = Effect(ran.row, ran.line, ArgOf(ran.line), ran.reply, more).shown
  BY DEF Executed, HasEffect
<1>3. Effect(ran.row, ran.line, ArgOf(ran.line), ran.reply, more) =
        IF ArgOf(ran.line) = 0 THEN Query("/exec/current", ShowCurrent(ran.reply, devices)) ELSE Nothing
  BY <1>1, EffectCases
<1>4. ran.shown = <<>> \/ ran.shown = ShowCurrent(ran.reply, devices)
  BY <1>2, <1>3, NothingIsNothing DEF Query, NothingIs
<1>5. piece \in ToSet(ran.shown) /\ "label" \in DOMAIN piece
  BY DEF Pieces
<1>6. ran.shown # <<>>
  BY <1>5 DEF ToSet
<1> DEFINE R == Running(devices, Leaves[ran.reply])
<1>7. ShowCurrent(ran.reply, devices) \in Seq(R)
  BY <1>1, CurrentShowsSent
<1>8. piece \in R
  <2> HIDE DEF R
  <2> QED BY <1>4, <1>5, <1>6, <1>7 DEF ToSet
<1>9. piece \in Labelled(devices)
  BY <1>5, <1>8 DEF Running, Raw
<1>10. PICK u : piece = [label |-> LabelOf(devices, u), url |-> u]
  BY <1>9 DEF Labelled
<1>11. piece.url = u /\ piece.label = LabelOf(devices, u)
  BY <1>10
<1>12. Len(devices) \in Nat /\ DOMAIN devices = 1 .. Len(devices)
  BY <1>1
<1>13. IF \E d \in ToSet(devices) : d.url = u
       THEN \E d \in ToSet(devices) : d.url = u /\ LabelOf(devices, u) = d.label
       ELSE LabelOf(devices, u) = NULL
  BY <1>12, LabelOfOwner
<1>14. \A d \in ToSet(devices) : d.label # NULL
  <2>1. \A d \in ToSet(devices) : d.label \in Seq(Chars)
    BY <1>1, DevicesIn
  <2> QED BY <2>1, PromptAssumption
<1> QED BY <1>11, <1>13, <1>14

(* The words of a line, by the place of its argument. *)
LEMMA ArgumentWords ==
  ASSUME NEW l \in Seq(Chars), Plain(l), WordAt(l, 1)
  PROVE  LET arg   == ArgOf(l)
             third == extractTokenSub(l, arg).arg
         IN  /\ Len(WordsOf(l)) \in Nat
             /\ Len(WordsOf(l)) >= 2 <=> arg # 0
             /\ arg # 0 => /\ arg = extractTokenSub(l, 1).arg /\ arg \in 1 .. Len(l)
                           /\ WordsOf(l)[2] = Text(l, extractTokenSub(l, arg))
                           /\ Len(WordsOf(l)) >= 3 <=> More(l, third)
                           /\ More(l, third) =>
                                /\ WordsOf(l)[3] = Text(l, extractTokenSub(l, third))
                                /\ SubSeq(WordsOf(l), 4, Len(WordsOf(l))) =
                                     Remaining(l, extractTokenSub(l, third).arg)
<1>1. PICK second : second = extractTokenSub(l, 1).arg
  OBVIOUS
<1>2. ArgOf(l) = IF More(l, second) THEN second ELSE 0
  BY <1>1 DEF ArgOf
<1>3. More(l, second) => second # 0
  BY DEF More
<1>4. /\ Len(WordsOf(l)) \in Nat \ {0}
      /\ Len(WordsOf(l)) >= 2 <=> More(l, second)
      /\ More(l, second) =>
           LET third == extractTokenSub(l, second).arg IN
           /\ second \in 1 .. Len(l)
           /\ WordsOf(l)[2] = Text(l, extractTokenSub(l, second))
           /\ Len(WordsOf(l)) >= 3 <=> More(l, third)
           /\ More(l, third) =>
                /\ WordsOf(l)[3] = Text(l, extractTokenSub(l, third))
                /\ SubSeq(WordsOf(l), 4, Len(WordsOf(l))) = Remaining(l, extractTokenSub(l, third).arg)
  BY <1>1, WordsTaken
<1>5. CASE More(l, second)
  <2>1. ArgOf(l) = second /\ second # 0
    BY <1>2, <1>3, <1>5
  <2> QED BY <1>1, <1>4, <1>5, <2>1
<1>6. CASE ~More(l, second)
  BY <1>2, <1>4, <1>6
<1> QED BY <1>5, <1>6

(* States prints values of the states it selects. *)
LEMMA StatesSent ==
  ASSUME NEW reply \in Json, NEW name
  PROVE  Sent(ShowStates(reply, name), UNION {Leaves[e] : e \in SelectedOf(reply, name)})
<1> DEFINE U == UNION {Leaves[e] : e \in SelectedOf(reply, name)}
           S == Stated(SelectedOf(reply, name))
<1>1. ShowStates(reply, name) \in Seq(S)
  BY StatesShowSelected
<1>2. \A piece \in S : "value" \in DOMAIN piece => piece.value \in PrintedAs(U)
  <2>1. S = [value : PrintedAs(U)] \cup [key : Keys] \cup [unknown : Int] \cup [state : Texts]
    BY DEF Stated, Valued, Raw
  <2> HIDE DEF S, U
  <2> QED BY <2>1
<1> HIDE DEF S, U
<1>3. Sent(ShowStates(reply, name), U)
  BY <1>1, <1>2, SentPieces
<1> QED BY <1>3 DEF U

(* States prints the states that the third word of the line names. *)
LEMMA ExecutedStates ==
  ASSUME Known, Executed
  PROVE  StatesAreTheOnesNamed
<1> SUFFICES ASSUME ran # NoRun, ran.device # NULL, Plain(ran.line), ran.row.does \in {"States", "NStates"}
             PROVE  LET words   == WordsOf(ran.line)
                        name(e) == getObjString(e, <<"name">>)
                        meant   == {e \in ToSet(Elements(ran.reply)) :
                                      name(e) # NULL /\ (Len(words) > 2 => name(e) = words[3])}
                    IN  /\ Values \subseteq Printable(meant)
                        /\ Len(words) = 2 => Titles(ran.shown) = NamesOf(Elements(ran.reply))
  BY DEF StatesAreTheOnesNamed
<1>1. /\ ran.line \in Seq(Chars) /\ WordAt(ran.line, 1) /\ ran.row \in Commands
      /\ ran.reply \in Json /\ devices \in Seq(Device)
  BY DEF Executed, RowOf, Known
<1>2. PICK l : l = ran.line
  OBVIOUS
<1>3. PICK words : words = WordsOf(l)
  OBVIOUS
<1>4. PICK arg : arg = ArgOf(l)
  OBVIOUS
<1>5. PICK third : third = extractTokenSub(l, arg).arg
  OBVIOUS
<1>6. PICK name : name = IF More(l, third) THEN Text(l, extractTokenSub(l, third)) ELSE NULL
  OBVIOUS
<1>7. l \in Seq(Chars) /\ WordAt(l, 1) /\ arg \in Places(l)
  BY <1>1, <1>2, <1>4, ArgIsPlace
<1>8. PICK more \in BOOLEAN :
        LET did == Effect(ran.row, ran.line, ArgOf(ran.line), ran.reply, more)
        IN  ran.device = did.device /\ ran.request = did.request /\ ran.shown = did.shown
  BY DEF Executed, HasEffect
<1>9. Effect(ran.row, ran.line, ArgOf(ran.line), ran.reply, more) = internal_States(l, arg, ran.row, ran.reply)
  BY <1>1, <1>2, <1>4, EffectCases
<1>10. arg # 0 /\ ran.shown = ShowStates(ran.reply, name)
  <2>1. PICK d : d = DeviceAt(l, arg, ran.row)
    OBVIOUS
  <2>2. IF arg = 0 \/ d = NULL THEN internal_States(l, arg, ran.row, ran.reply) = Nothing
        ELSE internal_States(l, arg, ran.row, ran.reply).shown = ShowStates(ran.reply, name)
    BY <1>1, <1>5, <1>6, <1>7, <2>1, StatesEffect
  <2>3. Nothing.device = NULL
    BY NothingIsNothing DEF NothingIs
  <2> QED BY <1>8, <1>9, <2>2, <2>3
<1>11. /\ Len(words) \in Nat /\ Len(words) >= 2
       /\ Len(words) >= 3 <=> More(l, third)
       /\ More(l, third) => words[3] = Text(l, extractTokenSub(l, third))
  BY <1>2, <1>3, <1>4, <1>5, <1>7, <1>10, ArgumentWords
<1>12. /\ Len(words) > 2 <=> More(l, third)
       /\ Len(words) = 2 <=> ~More(l, third)
  <2>1. PICK n : n = Len(words)
    OBVIOUS
  <2>2. n \in Nat /\ n >= 2
    BY <1>11, <2>1
  <2>3. (n > 2 <=> n >= 3) /\ (n = 2 <=> ~ (n >= 3))
    BY <2>2
  <2> QED BY <1>11, <2>1, <2>3
<1>13. More(l, third) => name = words[3] /\ name # NULL
  <2>1. third \in Places(l)
    BY <1>5, <1>7, <1>10, NextPlace
  <2>2. More(l, third) => Text(l, extractTokenSub(l, third)) \in Seq(Chars)
    BY <1>7, <2>1, NextPlace DEF More
  <2>3. NULL \notin Seq(Chars)
    BY PromptAssumption
  <2> QED BY <1>6, <1>11, <2>2, <2>3
<1>14. ~More(l, third) => name = NULL
  BY <1>6
<1> DEFINE called(e) == getObjString(e, <<"name">>)
           meant == {e \in ToSet(Elements(ran.reply)) :
                      called(e) # NULL /\ (Len(words) > 2 => called(e) = words[3])}
<1>15. \A e : Selected(e, name) <=> called(e) # NULL /\ (Len(words) > 2 => called(e) = words[3])
  <2>1. \A e : Selected(e, name) <=> called(e) # NULL /\ (name = NULL \/ name = called(e))
    BY DEF Selected
  <2> HIDE DEF called
  <2> QED BY <1>12, <1>13, <1>14, <2>1
<1>16. SelectedOf(ran.reply, name) = meant
  <2> HIDE DEF called
  <2> QED BY <1>15 DEF SelectedOf
<1>17. Values \subseteq Printable(meant)
  <2>1. Sent(ran.shown, UNION {Leaves[e] : e \in meant})
    BY <1>1, <1>10, <1>16, StatesSent
  <2> HIDE DEF meant
  <2> QED BY <2>1 DEF Values, Pieces, Sent, Printable
<1>18. Len(words) = 2 => Titles(ran.shown) = NamesOf(Elements(ran.reply))
  BY <1>1, <1>10, <1>12, <1>14, TitlesAreNames
<1> HIDE DEF meant
<1> QED BY <1>2, <1>3, <1>17, <1>18 DEF meant

(* What a request says. *)
LEMMA AskedIs ==
  ASSUME NEW path, NEW url, NEW name, NEW parameters
  PROVE  LET r == Asked(path, url, name, parameters)
         IN  r.path = path /\ r.url = url /\ r.name = name /\ r.parameters = parameters
BY DEF Asked

(* A request is made when the second word names a device, and concerns it. *)
LEMMA ExecutedRequests ==
  ASSUME Known, Executed
  PROVE  RequestIsTheLine
<1> SUFFICES ASSUME ran # NoRun, Plain(ran.line), ran.row.autofunc # "none"
             PROVE  LET words  == WordsOf(ran.line)
                        needed == IF ran.row.autofunc = "commands" THEN 3 ELSE 2
                        meant  == {d \in ToSet(devices) : Len(words) >= needed /\ d[ran.row.finds] = words[2]}
                    IN  /\ ran.request # NULL <=> meant # {}
                        /\ ran.request # NULL =>
                             /\ ran.request.url \in {d.url : d \in meant}
                             /\ ran.request.path = "exec/apply" =>
                                  /\ ran.request.name = words[3]
                                  /\ ran.request.parameters = SubSeq(words, 4, Len(words))
  BY DEF RequestIsTheLine
<1>1. /\ ran.line \in Seq(Chars) /\ WordAt(ran.line, 1) /\ ran.row \in Commands
      /\ ran.reply \in Json /\ devices \in Seq(Device)
  BY DEF Executed, RowOf, Known
<1>2. PICK l : l = ran.line
  OBVIOUS
<1>3. PICK words : words = WordsOf(l)
  OBVIOUS
<1>4. PICK arg : arg = ArgOf(l)
  OBVIOUS
<1>5. PICK third : third = extractTokenSub(l, arg).arg
  OBVIOUS
<1>6. PICK field : field = ran.row.finds
  OBVIOUS
<1>7. l \in Seq(Chars) /\ Plain(l) /\ WordAt(l, 1) /\ arg \in Places(l)
  BY <1>1, <1>2, <1>4, ArgIsPlace
<1>8. PICK more \in BOOLEAN :
        ran.request = Effect(ran.row, ran.line, ArgOf(ran.line), ran.reply, more).request
  BY DEF Executed, HasEffect
<1>9. /\ Len(words) \in Nat /\ (Len(words) >= 2 <=> arg # 0)
      /\ arg # 0 => /\ words[2] = Text(l, extractTokenSub(l, arg))
                    /\ Len(words) >= 3 <=> More(l, third)
                    /\ More(l, third) =>
                         /\ words[3] = Text(l, extractTokenSub(l, third))
                         /\ SubSeq(words, 4, Len(words)) = Remaining(l, extractTokenSub(l, third).arg)
  BY <1>3, <1>4, <1>5, <1>7, ArgumentWords
<1>10. PICK d : d = DeviceAt(l, arg, ran.row)
  OBVIOUS
<1>11. arg # 0 => d = Named(words[2], field)
  BY <1>1, <1>6, <1>9, <1>10, DeviceAtIs
<1>12. arg # 0 =>
         IF \E e \in ToSet(devices) : e[field] = words[2]
         THEN d \in ToSet(devices) /\ d # NULL /\ d[field] = words[2]
         ELSE d = NULL
  BY <1>1, <1>11, NamedIsDevice
<1>13. Nothing.request = NULL
  BY NothingIsNothing DEF NothingIs
<1> DEFINE meant(needed) == {e \in ToSet(devices) : Len(words) >= needed /\ e[field] = words[2]}
<1>14. CASE ran.row.autofunc = "states"
  <2>1. ran.row.does \in {"States", "NStates"}
    BY <1>1, <1>14, RowKinds
  <2>2. ran.request = internal_States(l, arg, ran.row, ran.reply).request
    BY <1>1, <1>2, <1>4, <1>8, <2>1, EffectCases
  <2>3. IF arg = 0 \/ d = NULL THEN ran.request = NULL
        ELSE ran.request = Asked("setup/devices/states", d.url, NULL, <<>>) /\ ran.request # NULL
    BY <1>1, <1>7, <1>10, <1>13, <2>2, StatesEffect
  <2>4. ran.request # NULL => ran.request.url = d.url /\ ran.request.path # "exec/apply"
    BY <2>3, AskedIs
  <2>5. ran.request # NULL <=> meant(2) # {}
    BY <1>9, <1>12, <2>3
  <2>6. ran.request # NULL => d \in meant(2)
    BY <1>9, <1>12, <2>3
  <2> HIDE DEF meant
  <2>7. ran.request # NULL => ran.request.url \in {e.url : e \in meant(2)}
    BY <2>4, <2>6
  <2> QED BY <1>2, <1>3, <1>6, <1>14, <2>4, <2>5, <2>7 DEF meant
<1>15. CASE ran.row.autofunc = "commands"
  <2>1. ran.row.does \in {"Command", "NCommand"}
    BY <1>1, <1>15, RowKinds
  <2>2. ran.request = internal_Command(l, arg, ran.row).request
    BY <1>1, <1>2, <1>4, <1>8, <2>1, EffectCases
  <2> DEFINE command == extractTokenSub(l, third)
             asked == Asked("exec/apply", d.url, Text(l, command), Remaining(l, command.arg))
  <2>3. IF arg = 0 \/ d = NULL \/ ~More(l, third) THEN ran.request = NULL
        ELSE ran.request = asked /\ ran.request # NULL
    BY <1>1, <1>5, <1>7, <1>10, <1>13, <2>2, CommandEffect
  <2>4. asked.url = d.url /\ asked.name = Text(l, command) /\ asked.parameters = Remaining(l, command.arg)
    BY AskedIs
  <2> HIDE DEF asked
  <2>5. ran.request # NULL =>
          /\ ran.request.url = d.url /\ ran.request.name = words[3]
          /\ ran.request.parameters = SubSeq(words, 4, Len(words))
    BY <1>9, <2>3, <2>4
  <2>6. Len(words) >= 3 => Len(words) >= 2
    BY <1>9
  <2>7. ran.request # NULL <=> meant(3) # {}
    BY <1>9, <1>12, <2>3, <2>6
  <2>8. ran.request # NULL => d \in meant(3)
    BY <1>9, <1>12, <2>3
  <2> HIDE DEF meant
  <2>9. ran.request # NULL => ran.request.url \in {e.url : e \in meant(3)}
    BY <2>5, <2>8
  <2> QED BY <1>2, <1>3, <1>6, <1>15, <2>5, <2>7, <2>9 DEF meant
<1> QED BY <1>1, <1>14, <1>15, RowKinds

-----------------------------------------------------------------------------
(* What completion offers *)

(* What is not empty and bounded has a greatest number. *)
LEMMA GreatestNumber ==
  ASSUME NEW N \in Nat, NEW S \in SUBSET (0 .. N), S # {}
  PROVE  Max(S) \in S /\ \A n \in S : n <= Max(S)
<1> DEFINE above == {m \in 0 .. N : \A n \in S : n <= m}
<1>1. N \in above /\ above \in SUBSET Nat
  OBVIOUS
<1>2. PICK m \in above : \A k \in above : m <= k
  <2> HIDE DEF above
  <2> QED BY <1>1, LeastNumber
<1>3. m \in S
  <2> SUFFICES ASSUME m \notin S
               PROVE  FALSE
    OBVIOUS
  <2>1. \A n \in S : n <= m - 1
    BY <1>2
  <2>2. PICK n \in S : TRUE
    OBVIOUS
  <2>3. m - 1 \in above
    BY <1>2, <2>1, <2>2
  <2> QED BY <1>2, <2>3
<1>4. \E x \in S : \A y \in S : x >= y
  BY <1>2, <1>3
<1>5. Max(S) \in S /\ \A y \in S : Max(S) >= y
  BY <1>4 DEF Max
<1> QED BY <1>5

(* Where two lines are the same, what is found first is found first in both. *)
Common(l, m, p) == \A j \in 1 .. p : l[j] = m[j]

(* What is found first where two lines are the same is found first in both. *)
LEMMA FirstInCommon ==
  ASSUME NEW l \in Seq(Chars), NEW m \in Seq(Chars), NEW p \in 1 .. Len(l), p <= Len(m), Common(l, m, p),
         NEW i \in 1 .. p, NEW S, First(l, i, S) <= p
  PROVE  First(m, i, S) = First(l, i, S)
<1> DEFINE a == First(l, i, S)
           b == First(m, i, S)
<1>1. Len(l) \in Nat /\ Len(m) \in Nat /\ i \in 1 .. Len(l) + 1 /\ i \in 1 .. Len(m) + 1
  OBVIOUS
<1>2. /\ a \in i .. Len(l) + 1 /\ \A j \in i .. a - 1 : l[j] \notin S
      /\ a <= Len(l) => l[a] \in S
  BY <1>1, FirstFinds
<1>3. /\ b \in i .. Len(m) + 1 /\ \A j \in i .. b - 1 : m[j] \notin S
      /\ b <= Len(m) => m[b] \in S
  BY <1>1, FirstFinds
<1>4. a <= p
  OBVIOUS
<1> HIDE DEF a, b
<1>5. m[a] \in S
  BY <1>1, <1>2, <1>4 DEF Common
<1>6. ~ (a < b)
  BY <1>1, <1>2, <1>3, <1>4, <1>5
<1>7. ~ (b < a)
  <2> SUFFICES ASSUME b < a
               PROVE  FALSE
    OBVIOUS
  <2>1. b \in 1 .. p /\ b \in i .. a - 1 /\ b <= Len(m)
    BY <1>1, <1>2, <1>3, <1>4
  <2> QED BY <1>2, <1>3, <2>1 DEF Common
<1>8. a = b
  BY <1>1, <1>2, <1>3, <1>6, <1>7
<1> QED BY <1>8 DEF a, b

(* A token that ends where two lines are the same has the same text in both. *)
LEMMA TextInCommon ==
  ASSUME NEW l \in Seq(Chars), NEW m \in Seq(Chars), NEW p \in 1 .. Len(l), p <= Len(m), Common(l, m, p),
         NEW i \in 1 .. p, First(l, i, Blanks) <= p
  PROVE  Text(m, extractTokenSub(m, i)) = Text(l, extractTokenSub(l, i))
<1> DEFINE b == First(l, i, Blanks)
           s == SubSeq(l, i, b - 1)
           t == SubSeq(m, i, b - 1)
<1>1. Len(l) \in Nat /\ Len(m) \in Nat /\ i \in 1 .. Len(l) + 1 /\ i \in 1 .. Len(m) + 1
  OBVIOUS
<1>2. First(m, i, Blanks) = b
  BY FirstInCommon
<1>3. b \in i .. Len(l) + 1 /\ b <= p
  BY <1>1, FirstFinds
<1>4. Text(m, extractTokenSub(m, i)) = t /\ Text(l, extractTokenSub(l, i)) = s
  BY <1>1, <1>2, TokenText
<1> HIDE DEF b
<1>5. \A n \in 1 .. b - i : i + n - 1 \in 1 .. p /\ i + n - 1 \in 1 .. Len(l) /\ i + n - 1 \in 1 .. Len(m)
  BY <1>1, <1>3
<1>6. s \in Seq(Chars) /\ Len(s) = b - i /\ \A n \in 1 .. b - i : s[n] = l[i + n - 1]
  BY <1>1, <1>3, <1>5
<1>7. t \in Seq(Chars) /\ Len(t) = b - i /\ \A n \in 1 .. b - i : t[n] = m[i + n - 1]
  BY <1>1, <1>3, <1>5
<1>8. \A n \in 1 .. b - i : s[n] = t[n]
  BY <1>5, <1>6, <1>7 DEF Common
<1> HIDE DEF s, t
<1>9. s = t
  BY <1>6, <1>7, <1>8
<1> QED BY <1>4, <1>9

(* The line on which an argument of a command is completed: the name of the
   command ends in front of the cursor, and the argument has a number. *)
LEMMA CompletionPlace ==
  ASSUME NEW l \in Seq(Chars), NEW row \in RowOf(l, extractTokenSub(l, 1)),
         NEW start \in 1 .. Len(l), l[start] \in Blanks \cup Breaks
  PROVE  /\ WordAt(l, 1) /\ l[1] \in Graphs /\ FirstWord(l) = 1 /\ ~LeadingSpaceBug(l, start)
         /\ First(l, 1, Blanks) \in 2 .. start
         /\ First(l, 1, Blanks) \in Ends(l, start) /\ IsFiniteSet(Ends(l, start))
         /\ ArgumentNumber(l, start) \in Nat \ {0}
         /\ ArgumentNumber(l, start) = Cardinality(Ends(l, start))
         /\ extractTokenSub(l, 1).arg # 0
<1> DEFINE b == First(l, 1, Blanks)
           name == NameOf[row.does]
           G == Graphs \ Breaks
<1>1. Len(l) \in Nat /\ 1 \in 1 .. Len(l) + 1 /\ start \in 1 .. Len(l) /\ 1 \in 1 .. Len(l)
  OBVIOUS
<1>2. row \in Commands /\ Text(l, extractTokenSub(l, 1)) = name
  BY DEF RowOf, Same
<1>3. name \in Seq(G) /\ name # <<>>
  BY <1>2, NamesOfRows
<1>4. name = SubSeq(l, 1, b - 1)
  BY <1>1, <1>2, TokenText
<1>5. b \in 1 .. Len(l) + 1 /\ (b <= Len(l) => l[b] \in Blanks)
      /\ \A j \in 1 .. b - 1 : l[j] \notin Blanks
  BY <1>1, FirstFinds
<1> HIDE DEF b, name, G
<1>6. Len(name) = b - 1 /\ \A j \in 1 .. b - 1 : l[j] \in G
  <2>1. \A j \in 1 .. b - 1 : j \in 1 .. Len(l)
    BY <1>1, <1>5
  <2>2. Len(SubSeq(l, 1, b - 1)) = b - 1 /\ \A j \in 1 .. b - 1 : SubSeq(l, 1, b - 1)[j] = l[j]
    BY <1>1, <1>5, <2>1
  <2>3. \A j \in 1 .. Len(name) : name[j] \in G
    BY <1>3
  <2> QED BY <1>4, <2>2, <2>3
<1>7. b # 1
  BY <1>3, <1>6
<1>8. l[1] \in G /\ l[1] \notin Blanks /\ b \in 2 .. Len(l) + 1
  BY <1>1, <1>5, <1>6, <1>7
<1>9. start >= b
  <2>1. l[start] \notin G
    BY CharsAssumption DEF G
  <2> QED BY <1>1, <1>5, <1>6, <2>1
<1>10. WordAt(l, 1) /\ l[1] \in Graphs
  BY <1>1, <1>8 DEF WordAt, G
<1>11. FirstWord(l) = 1
  <2>1. l[1] \in Chars \ Blanks
    BY <1>8, <1>10 DEF Chars
  <2>2. /\ FirstWord(l) \in 1 .. Len(l) + 1
        /\ \A j \in 1 .. FirstWord(l) - 1 : l[j] \notin Chars \ Blanks
    BY <1>1, FirstFinds DEF FirstWord
  <2> QED BY <1>1, <2>1, <2>2
<1>12. ~LeadingSpaceBug(l, start)
  BY <1>1, <1>11 DEF LeadingSpaceBug
<1>13. b \in 2 .. start /\ b \in Ends(l, start)
  <2>1. b \in 2 .. start /\ b <= Len(l) /\ b - 1 \in 1 .. b - 1
    BY <1>1, <1>8, <1>9
  <2>2. l[b] \in Blanks /\ l[b - 1] \notin Blanks
    BY <1>5, <2>1
  <2> QED BY <1>11, <2>1, <2>2 DEF Ends
<1>14. IsFiniteSet(Ends(l, start))
  BY <1>10, EndsAreBegins
<1>15. ArgumentNumber(l, start) = Cardinality(Ends(l, start))
  BY DEF ArgumentNumber, Ends
<1>16. ArgumentNumber(l, start) \in Nat \ {0}
  BY <1>13, <1>14, <1>15, FS_CardinalityType, FS_EmptySet
<1>17. extractTokenSub(l, 1).arg # 0
  BY <1>16, CountedWordIsThere
<1> QED BY <1>10, <1>11, <1>12, <1>13, <1>14, <1>15, <1>16, <1>17 DEF b

(* An argument has the same number on two lines that are the same before it. *)
LEMMA NumberInCommon ==
  ASSUME NEW l \in Seq(Chars), NEW m \in Seq(Chars), NEW p \in 1 .. Len(l), p <= Len(m), Common(l, m, p),
         l[1] \notin Blanks, FirstWord(l) = 1, FirstWord(m) = 1
  PROVE  ArgumentNumber(m, p) = ArgumentNumber(l, p)
<1>1. Len(l) \in Nat /\ Len(m) \in Nat /\ 1 \in 1 .. p
  OBVIOUS
<1>2. m[1] \notin Blanks
  BY <1>1 DEF Common
<1>3. \A j \in 1 .. p : j # 1 => j - 1 \in 1 .. p
  OBVIOUS
<1>4. Ends(m, p) = Ends(l, p)
  BY <1>2, <1>3 DEF Ends, Common
<1> QED BY <1>4 DEF ArgumentNumber, Ends

(* A line begins with the same command as another one that has the same
   characters up to the end of its first word. *)
LEMMA BeginsInCommon ==
  ASSUME NEW l \in Seq(Chars), NEW row \in RowOf(l, extractTokenSub(l, 1)),
         NEW p \in 1 .. Len(l), l[p] \in Blanks \cup Breaks,
         NEW m \in Seq(Chars), p <= Len(m), Common(l, m, p)
  PROVE  /\ row \in RowOf(m, extractTokenSub(m, 1)) /\ m[1] \in Graphs
         /\ WordAt(m, 1) /\ FirstWord(m) = 1
         /\ ArgumentNumber(m, p) = ArgumentNumber(l, p)
<1>1. /\ l[1] \in Graphs /\ FirstWord(l) = 1 /\ First(l, 1, Blanks) \in 2 .. p /\ WordAt(l, 1)
  BY CompletionPlace
<1>2. Len(l) \in Nat /\ Len(m) \in Nat /\ 1 \in 1 .. p /\ 1 \in 1 .. Len(m) /\ p \in 1 .. Len(m)
      /\ First(l, 1, Blanks) <= p
  BY <1>1
<1>3. Text(m, extractTokenSub(m, 1)) = Text(l, extractTokenSub(l, 1))
  BY <1>2, TextInCommon
<1>4. row \in RowOf(m, extractTokenSub(m, 1))
  BY <1>3 DEF RowOf, Same
<1>5. m[p] \in Blanks \cup Breaks
  BY <1>2 DEF Common
<1>6. WordAt(m, 1) /\ m[1] \in Graphs /\ FirstWord(m) = 1
  BY <1>2, <1>4, <1>5, CompletionPlace
<1>7. l[1] \notin Blanks
  BY <1>1 DEF WordAt
<1>8. ArgumentNumber(m, p) = ArgumentNumber(l, p)
  BY <1>1, <1>2, <1>6, <1>7, NumberInCommon
<1> QED BY <1>4, <1>6, <1>8

(* Behind the second argument the first one has ended: what is put there does
   not change it. *)
LEMMA SecondInCommon ==
  ASSUME NEW l \in Seq(Chars), NEW row \in RowOf(l, extractTokenSub(l, 1)),
         NEW p \in 1 .. Len(l), l[p] \in Blanks \cup Breaks,
         NEW m \in Seq(Chars), p <= Len(m), Common(l, m, p), Plain(m),
         ArgumentNumber(l, p) # 1
  PROVE  Text(m, extractTokenSub(m, extractTokenSub(m, 1).arg))
           = Text(l, extractTokenSub(l, extractTokenSub(l, 1).arg))
<1> DEFINE b == First(l, 1, Blanks)
           second == First(l, b + 1, Graphs)
<1>1. Len(l) \in Nat /\ Len(m) \in Nat /\ 1 \in 1 .. Len(l) + 1 /\ 1 \in 1 .. Len(m) + 1 /\ 1 \in 1 .. p
  OBVIOUS
<1>2. /\ FirstWord(l) = 1 /\ b \in 2 .. p /\ b \in Ends(l, p) /\ IsFiniteSet(Ends(l, p))
      /\ ArgumentNumber(l, p) = Cardinality(Ends(l, p))
  BY CompletionPlace
<1>3. \A j \in 1 .. b - 1 : l[j] \notin Blanks
  BY <1>1, FirstFinds
<1>4. PICK e \in Ends(l, p) : e # b
  <2> SUFFICES ASSUME Ends(l, p) = {b}
               PROVE  FALSE
    BY <1>2
  <2> HIDE DEF b
  <2> QED BY <1>2, FS_Singleton
<1>5. First(m, 1, Blanks) = b
  BY <1>1, <1>2, FirstInCommon
<1> HIDE DEF b
<1>6. /\ e \in 1 .. p /\ l[e] \in Blanks /\ l[e - 1] \notin Blanks
      /\ l[b] \in Blanks
  BY <1>2, <1>4 DEF Ends
<1>7. e \in b + 2 .. p /\ e - 1 \in b + 1 .. p
  <2>1. ~ (e < b)
    BY <1>2, <1>3, <1>6
  <2>2. e # b + 1
    BY <1>2, <1>6
  <2> QED BY <1>2, <1>4, <1>6, <2>1, <2>2
<1>8. l[e - 1] \in Graphs
  <2>1. e - 1 \in 1 .. p /\ e - 1 \in 1 .. Len(m) /\ e - 1 \in 1 .. Len(l)
    BY <1>1, <1>2, <1>7
  <2>2. l[e - 1] = m[e - 1] /\ m[e - 1] \notin Others /\ l[e - 1] \in Chars
    BY <2>1 DEF Common, Plain
  <2> QED BY <1>6, <2>2 DEF Chars
<1>9. /\ b + 1 \in 1 .. Len(l) + 1 /\ b + 1 \in 1 .. p
      /\ second \in b + 1 .. Len(l) + 1 /\ \A j \in b + 1 .. second - 1 : l[j] \notin Graphs
  <2>1. b + 1 \in 1 .. Len(l) + 1 /\ b + 1 \in 1 .. p
    BY <1>1, <1>2, <1>7
  <2> QED BY <2>1, FirstFinds
<1>10. First(m, b + 1, Graphs) = second
  <2>1. second <= p
    <3> HIDE DEF second
    <3> QED BY <1>1, <1>2, <1>7, <1>8, <1>9
  <2> QED BY <1>9, <2>1, FirstInCommon
<1> HIDE DEF second
<1>11. second <= e - 1 /\ second \in 1 .. p /\ second \in 1 .. Len(l) + 1
  BY <1>1, <1>2, <1>7, <1>8, <1>9
<1>12. First(l, second, Blanks) <= p
  <2>1. /\ First(l, second, Blanks) \in second .. Len(l) + 1
        /\ \A j \in second .. First(l, second, Blanks) - 1 : l[j] \notin Blanks
    BY <1>11, FirstFinds
  <2> DEFINE f == First(l, second, Blanks)
  <2> HIDE DEF f
  <2>2. f <= e
    BY <1>1, <1>6, <1>7, <1>11, <2>1 DEF f
  <2>3. f <= p
    BY <1>6, <1>11, <2>1, <2>2 DEF f
  <2> QED BY <2>3 DEF f
<1>13. Text(m, extractTokenSub(m, second)) = Text(l, extractTokenSub(l, second))
  BY <1>11, <1>12, TextInCommon
<1>14. b <= Len(l) /\ b <= Len(m)
  BY <1>1, <1>2
<1>15. extractTokenSub(l, 1).arg = second
  BY <1>1, <1>14, TokenEnds DEF b, second
<1>16. extractTokenSub(m, 1).arg = second
  BY <1>1, <1>5, <1>10, <1>14, TokenEnds
<1> QED BY <1>13, <1>15, <1>16

(* A word that is put behind the name of the command is its first argument. *)
LEMMA PutAsSecond ==
  ASSUME NEW m \in Seq(Chars), Plain(m), WordAt(m, 1),
         NEW p \in 1 .. Len(m), ArgumentNumber(m, p) = 1, m[p] \in Blanks,
         NEW name \in Seq(Chars), IsWord(name), p + Len(name) + 1 \in 1 .. Len(m),
         \A j \in 1 .. Len(name) : m[p + j] = name[j],
         m[p + Len(name) + 1] \in Blanks
  PROVE  Text(m, extractTokenSub(m, extractTokenSub(m, 1).arg)) = name
<1> DEFINE n == Len(name)
           i == p + 1
           f == First(m, i, Blanks)
           s == SubSeq(m, i, f - 1)
<1>1. Len(m) \in Nat /\ name \in Seq(Chars) /\ name # <<>> /\ \A j \in 1 .. n : name[j] \notin Blanks
  BY DEF IsWord
<1>2. n \in Nat \ {0}
  BY <1>1
<1> HIDE DEF n
<1>3. /\ i \in 2 .. Len(m) /\ i \in 1 .. Len(m) + 1 /\ i - 1 = p
      /\ p + n + 1 \in 1 .. Len(m) /\ 1 \in 1 .. n
  BY <1>1, <1>2 DEF n
<1>4. \A j \in 1 .. n : m[p + j] = name[j] /\ m[p + j] \notin Blanks
  BY <1>1 DEF n
<1>5. WordAt(m, i)
  BY <1>3, <1>4 DEF WordAt
<1>6. /\ f \in i .. Len(m) + 1 /\ \A j \in i .. f - 1 : m[j] \notin Blanks
      /\ f <= Len(m) => m[f] \in Blanks
  BY <1>3, FirstFinds
<1>7. f = p + n + 1
  <2> HIDE DEF f
  <2>1. ~ (f > p + n + 1)
    <3> DEFINE k == p + n + 1
    <3>1. m[k] \in Blanks
      BY DEF n
    <3>2. k \in Nat /\ f \in Nat /\ i <= k
      BY <1>1, <1>2, <1>3, <1>6
    <3> HIDE DEF k
    <3>3. f > k => k \in i .. f - 1
      BY <1>3, <3>2
    <3>4. ~ (f > k)
      BY <1>6, <3>1, <3>3
    <3> QED BY <3>4 DEF k
  <2>2. ~ (f < p + n + 1)
    <3> SUFFICES ASSUME f < p + n + 1
                 PROVE  FALSE
      OBVIOUS
    <3>1. f - p \in 1 .. n /\ p + (f - p) = f /\ f <= Len(m)
      BY <1>1, <1>2, <1>3, <1>6
    <3>2. m[p + (f - p)] \notin Blanks
      BY <1>4, <3>1
    <3> QED BY <1>6, <3>1, <3>2
  <2> QED BY <1>1, <1>2, <1>3, <1>6, <2>1, <2>2
<1> HIDE DEF f
<1>8. s = name
  <2>1. \A j \in i .. f - 1 : j \in 1 .. Len(m)
    BY <1>1, <1>3, <1>6
  <2>2. s \in Seq(Chars) /\ Len(s) = n /\ \A j \in 1 .. n : s[j] = m[i + j - 1]
    BY <1>1, <1>2, <1>3, <1>6, <1>7, <2>1
  <2>3. \A j \in 1 .. n : i + j - 1 = p + j
    OBVIOUS
  <2>4. \A j \in 1 .. n : s[j] = name[j]
    BY <1>4, <2>2, <2>3
  <2> HIDE DEF s
  <2> QED BY <1>1, <2>2, <2>4 DEF n
<1>9. 2 \in DOMAIN WordsOf(m) /\ WordsOf(m)[2] = name
  <2>1. CountedAlike(m)
    BY CompletionCounts
  <2>2. /\ ArgumentNumber(m, i - 1) + 1 \in DOMAIN WordsOf(m)
        /\ WordsOf(m)[ArgumentNumber(m, i - 1) + 1] = s
    BY <1>3, <1>5, <2>1 DEF CountedAlike, f
  <2>3. ArgumentNumber(m, i - 1) + 1 = 2
    BY <1>3
  <2> QED BY <1>8, <2>2, <2>3
<1>10. /\ Len(WordsOf(m)) \in Nat \ {0} /\ (Len(WordsOf(m)) >= 2 <=> More(m, extractTokenSub(m, 1).arg))
       /\ More(m, extractTokenSub(m, 1).arg) =>
            WordsOf(m)[2] = Text(m, extractTokenSub(m, extractTokenSub(m, 1).arg))
  BY WordsTaken
<1>11. Len(WordsOf(m)) >= 2
  <2>1. PICK C : WordsOf(m) = [k \in 1 .. C |-> WordsOf(m)[k]] /\ C \in Nat
    <3> DEFINE C == Cardinality(Begins(m))
               nth(k) == CHOOSE x \in Begins(m) : Number(m, x) = k
               word(k) == SubSeq(m, nth(k), First(m, nth(k), Blanks) - 1)
    <3>1. WordsOf(m) = [k \in 1 .. C |-> word(k)]
      BY DEF WordsOf, Begins, Number, UpTo
    <3>2. C \in Nat
      BY FinitelyMany
    <3> HIDE DEF C, word
    <3> QED BY <3>1, <3>2
  <2>2. Len(WordsOf(m)) = C /\ DOMAIN WordsOf(m) = 1 .. C
    BY <2>1
  <2> QED BY <1>9, <2>1, <2>2
<1> QED BY <1>9, <1>10, <1>11

(* readline completes from the last word break on. *)
StartOf(l, end) == Max({i \in 1 .. end : l[i] \in Blanks \cup Breaks} \cup {0})

(* The text that is completed begins behind a word break. *)
LEMMA StartPlace ==
  ASSUME NEW l \in Seq(Chars), NEW end \in 0 .. Len(l)
  PROVE  /\ StartOf(l, end) \in 0 .. end
         /\ StartOf(l, end) # 0 => l[StartOf(l, end)] \in Blanks \cup Breaks
<1> DEFINE S == {i \in 1 .. end : l[i] \in Blanks \cup Breaks} \cup {0}
<1>1. Len(l) \in Nat /\ end \in Nat
  OBVIOUS
<1>2. S \in SUBSET (0 .. end) /\ S # {}
  BY <1>1
<1>3. Max(S) \in S
  <2> HIDE DEF S
  <2> QED BY <1>1, <1>2, GreatestNumber
<1>4. StartOf(l, end) = Max(S)
  BY DEF StartOf
<1> QED BY <1>1, <1>3, <1>4

(* The characters of what is offered. *)
LEMMA NamesAreChars ==
  ASSUME devices \in Seq(Device)
  PROVE  /\ Range(NameOf) \subseteq Seq(Chars)
         /\ \A row \in Commands : row.devarg # "none" =>
              \A d \in ToSet(devices) : d[row.devarg] \in Seq(Chars)
         /\ \A row \in Commands : row.autofunc # "none" =>
              \A d \in ToSet(devices) : ToSet(d[row.autofunc]) \subseteq Seq(Chars)
<1>1. Range(NameOf) \subseteq Seq(Chars)
  <2> SUFFICES ASSUME NEW does \in DOMAIN NameOf
               PROVE  NameOf[does] \in Seq(Chars)
    BY DEF Range
  <2>1. PICK row \in Commands : row.does = does
    BY PromptAssumption
  <2> QED BY <2>1, NamesOfRows
<1>2. \A row \in Commands : row.devarg # "none" =>
        \A d \in ToSet(devices) : d[row.devarg] \in Seq(Chars)
  BY RowKinds, DevicesIn
<1>3. \A row \in Commands : row.autofunc # "none" =>
        \A d \in ToSet(devices) : ToSet(d[row.autofunc]) \subseteq Seq(Chars)
  <2> SUFFICES ASSUME NEW row \in Commands, row.autofunc # "none", NEW d \in ToSet(devices)
               PROVE  ToSet(d[row.autofunc]) \subseteq Seq(Chars)
    OBVIOUS
  <2>1. d.commands \in Seq(Texts) /\ d.states \in Seq(Texts)
    BY DevicesIn
  <2>2. d[row.autofunc] \in Seq(Texts)
    BY <2>1, RowKinds
  <2>3. Texts \subseteq Seq(Chars)
    BY PromptAssumption
  <2> DEFINE S == Seq(Chars)
             s == d[row.autofunc]
  <2> HIDE DEF S, s
  <2>4. ToSet(s) \subseteq S
    BY <2>2, <2>3 DEF ToSet, S, s
  <2> QED BY <2>4 DEF S, s
<1> QED BY <1>1, <1>2, <1>3

(* What is offered, by the branches of command_completion(). *)
OfferRow(l, start, o) ==
  o.row # NULL =>
    /\ start \in 1 .. Len(l) /\ o.row \in RowOf(l, extractTokenSub(l, 1)) /\ o.row.devarg # "none"
    /\ o.number = ArgumentNumber(l, start)
    /\ o.number = 1 => o.names \subseteq {d[o.row.devarg] : d \in ToSet(devices)}
    /\ o.number # 1 =>
         /\ o.device = Find(l, extractTokenSub(l, extractTokenSub(l, 1).arg), o.row.devarg)
         /\ o.names # {} => o.device # NULL
Offered(l, start, o) ==
  /\ o.null = FALSE /\ o.row \in Commands \cup {NULL} /\ o.number \in Nat
  /\ o.device \in Device \cup {NULL} /\ o.names \subseteq Seq(Chars)
  /\ OfferRow(l, start, o)

(* Without a row there is only a list of names. *)
LEMMA NoOfferIs ==
  ASSUME NEW l, NEW start, NEW names, names \subseteq Seq(Chars)
  PROVE  Offered(l, start, [NoOffer EXCEPT !.names = names])
BY DEF NoOffer, Offered, OfferRow

(* The branch of the second argument. *)
LEMMA OfferItemsIs ==
  ASSUME devices \in Seq(Device), NEW l \in Seq(Chars),
         NEW row \in RowOf(l, extractTokenSub(l, 1)), row.devarg # "none", row.autofunc # "none",
         NEW start \in 1 .. Len(l), l[start] \in Blanks \cup Breaks, ArgumentNumber(l, start) # 1, NEW text
  PROVE  Offered(l, start, OfferItems(l, row, text, ArgumentNumber(l, start)))
<1>1. PICK arg : arg = extractTokenSub(l, 1).arg
  OBVIOUS
<1>2. PICK number : number = ArgumentNumber(l, start)
  OBVIOUS
<1>3. PICK d : d = Find(l, extractTokenSub(l, arg), row.devarg)
  OBVIOUS
<1>4. arg # 0 /\ number \in Nat \ {0} /\ number # 1
  BY <1>1, <1>2, CompletionPlace
<1>5. PICK names : names = IF d = NULL THEN {} ELSE Prefixed(text, ToSet(d[row.autofunc]))
  OBVIOUS
<1>6. OfferItems(l, row, text, number) = [row |-> row, number |-> number, device |-> d, null |-> FALSE, names |-> names]
  BY <1>1, <1>3, <1>4, <1>5 DEF OfferItems
<1>7. row \in Commands
  BY DEF RowOf
<1>8. d \in ToSet(devices) \cup {NULL}
  BY <1>3, FindNamed, NamedIsDevice
<1>9. d \in Device \cup {NULL}
  BY <1>8, DevicesIn
<1>10. names \subseteq Seq(Chars) /\ (names # {} => d # NULL)
  <2>1. d # NULL => ToSet(d[row.autofunc]) \subseteq Seq(Chars)
    BY <1>7, <1>8, NamesAreChars
  <2> DEFINE S == Seq(Chars)
  <2> HIDE DEF S
  <2> QED BY <1>5, <2>1 DEF Prefixed, S
<1> DEFINE o == OfferItems(l, row, text, number)
<1>11. o.row = row /\ o.number = number /\ o.device = d /\ o.null = FALSE /\ o.names = names
  BY <1>6
<1> HIDE DEF o
<1>12. OfferRow(l, start, o)
  BY <1>1, <1>2, <1>3, <1>4, <1>10, <1>11 DEF OfferRow
<1>13. Offered(l, start, o)
  BY <1>4, <1>7, <1>9, <1>10, <1>11, <1>12 DEF Offered
<1> QED BY <1>2, <1>13 DEF o

(* command_completion() offers what Offered says, on every line. *)
LEMMA CompletionOffers ==
  ASSUME devices \in Seq(Device), NEW l \in Seq(Chars), NEW start \in 0 .. Len(l),
         start # 0 => l[start] \in Blanks \cup Breaks, NEW text
  PROVE  Offered(l, start, command_completion(l, start, text))
<1> DEFINE rows   == {r \in RowOf(l, extractTokenSub(l, 1)) : r.devarg # "none"}
           row    == CHOOSE r \in rows : TRUE
           number == ArgumentNumber(l, start)
           named  == Prefixed(text, {d[row.devarg] : d \in ToSet(devices)})
           first  == [NoOffer EXCEPT !.row = row, !.number = 1, !.names = named]
           o == command_completion(l, start, text)
<1>1. o = IF start = 0 THEN [NoOffer EXCEPT !.names = Prefixed(text, Range(NameOf))]
          ELSE IF rows = {} THEN NoOffer
          ELSE IF LeadingSpaceBug(l, start) THEN [NoOffer EXCEPT !.null = TRUE]
          ELSE IF number = 1 THEN first
          ELSE IF row.autofunc # "none" THEN OfferItems(l, row, text, number)
          ELSE NoOffer
  BY DEF command_completion
<1>2. Offered(l, start, NoOffer)
  BY DEF NoOffer, Offered, OfferRow
<1>3. CASE start = 0
  <2> DEFINE names == Prefixed(text, Range(NameOf))
  <2>1. names \subseteq Seq(Chars)
    <3> DEFINE S == Seq(Chars)
    <3>1. Range(NameOf) \subseteq S
      BY NamesAreChars
    <3> HIDE DEF S
    <3> QED BY <3>1 DEF Prefixed, S
  <2> HIDE DEF names
  <2>2. Offered(l, start, [NoOffer EXCEPT !.names = names])
    BY <2>1, NoOfferIs
  <2> HIDE DEF o, rows, row, number, first
  <2> QED BY <1>1, <1>3, <2>2 DEF o, names
<1>4. CASE start # 0 /\ rows = {}
  <2> HIDE DEF o, rows, row, number, first
  <2> QED BY <1>1, <1>2, <1>4 DEF o
<1>5. CASE start # 0 /\ rows # {}
  <2>1. row \in RowOf(l, extractTokenSub(l, 1)) /\ row.devarg # "none"
    BY <1>5
  <2>2. start \in 1 .. Len(l) /\ l[start] \in Blanks \cup Breaks
    BY <1>5
  <2>3. row \in Commands
    BY <2>1 DEF RowOf
  <2> HIDE DEF row
  <2>4. ~LeadingSpaceBug(l, start) /\ number \in Nat
    BY <2>1, <2>2, CompletionPlace
  <2>5. CASE number = 1
    <3>1. named \subseteq {d[row.devarg] : d \in ToSet(devices)}
      BY DEF Prefixed
    <3>2. named \subseteq Seq(Chars)
      <4>1. \A d \in ToSet(devices) : d[row.devarg] \in Seq(Chars)
        BY <2>1, <2>3, NamesAreChars
      <4> DEFINE S == Seq(Chars)
      <4> HIDE DEF S
      <4> QED BY <4>1 DEF Prefixed, S
    <3> HIDE DEF named
    <3>3. /\ first.row = row /\ first.number = 1 /\ first.names = named /\ first.null = FALSE
          /\ first.device = NULL
      BY DEF NoOffer
    <3> HIDE DEF first
    <3>4. OfferRow(l, start, first)
      BY <2>1, <2>2, <2>5, <3>1, <3>3 DEF OfferRow
    <3>5. Offered(l, start, first)
      BY <2>3, <3>2, <3>3, <3>4 DEF Offered
    <3> HIDE DEF rows
    <3> QED BY <1>1, <1>5, <2>4, <2>5, <3>5
  <2>6. CASE number # 1 /\ row.autofunc # "none"
    <3>1. Offered(l, start, OfferItems(l, row, text, number))
      BY <2>1, <2>2, <2>6, OfferItemsIs
    <3> HIDE DEF rows, number
    <3> QED BY <1>1, <1>5, <2>4, <2>6, <3>1
  <2>7. CASE number # 1 /\ row.autofunc = "none"
    <3> HIDE DEF rows, number, o, first
    <3> QED BY <1>1, <1>2, <1>5, <2>4, <2>7 DEF o
  <2> QED BY <2>5, <2>6, <2>7
<1> QED BY <1>3, <1>4, <1>5

(* One sequence behind another. *)
Joins(u, s, t, S) ==
  /\ u \in Seq(S) /\ Len(s) \in Nat /\ Len(t) \in Nat
  /\ Len(u) = Len(s) + Len(t)
  /\ \A j \in 1 .. Len(s) : u[j] = s[j]
  /\ \A j \in 1 .. Len(t) : u[Len(s) + j] = t[j]

(* It has the elements of both. *)
LEMMA Joined ==
  ASSUME NEW S, NEW s \in Seq(S), NEW t \in Seq(S)
  PROVE  Joins(s \o t, s, t, S)
<1>1. s \o t \in Seq(S) /\ Len(s) \in Nat /\ Len(t) \in Nat /\ Len(s \o t) = Len(s) + Len(t)
  OBVIOUS
<1>2. \A j \in 1 .. Len(s) : (s \o t)[j] = s[j]
  OBVIOUS
<1>3. \A j \in 1 .. Len(t) : (s \o t)[Len(s) + j] = t[j]
  OBVIOUS
<1> QED BY <1>1, <1>2, <1>3 DEF Joins

(* The line into which readline puts what is chosen: the name stands between
   what was in front of the text and a blank. *)
PutInto(l, start, end, name) ==
  LET rest == SubSeq(l, end + 1, Len(l))
  IN  SubSeq(l, 1, start) \o name \o (IF rest # <<>> /\ rest[1] = Space THEN <<>> ELSE <<Space>>) \o rest

(* What stands where in the line that was completed. *)
LEMMA PutIntoLine ==
  ASSUME NEW l \in Seq(Chars), NEW end \in 0 .. Len(l), NEW start \in 0 .. end, NEW name \in Seq(Chars)
  PROVE  LET m == PutInto(l, start, end, name)
         IN  /\ m \in Seq(Chars) /\ Common(l, m, start) /\ start <= Len(m)
             /\ start + Len(name) + 1 \in 1 .. Len(m)
             /\ \A j \in 1 .. Len(name) : m[start + j] = name[j]
             /\ m[start + Len(name) + 1] = Space
<1> DEFINE A == SubSeq(l, 1, start)
           rest == SubSeq(l, end + 1, Len(l))
           B == IF rest # <<>> /\ rest[1] = Space THEN <<>> ELSE <<Space>>
           An == A \o name
           AB == An \o B
           m == AB \o rest
           n == Len(name)
           C == Chars
<1>1. Len(l) \in Nat /\ n \in Nat /\ start \in Nat /\ end \in Nat /\ start <= Len(l) /\ end <= Len(l)
  OBVIOUS
<1>2. PutInto(l, start, end, name) = m
  BY DEF PutInto
<1>3. Space \in C
  BY PromptAssumption DEF Chars
<1> HIDE DEF C
<1>4. A \in Seq(C) /\ Len(A) = start /\ \A j \in 1 .. start : A[j] = l[j]
  <2>1. \A j \in 1 .. start : j \in 1 .. Len(l)
    BY <1>1
  <2>2. l \in Seq(C)
    BY DEF C
  <2>3. A \in Seq(C) /\ Len(A) = start
    BY <1>1, <2>1, <2>2
  <2>4. \A j \in 1 .. start : A[j] = l[1 + j - 1] /\ 1 + j - 1 = j
    BY <1>1, <2>1, <2>2
  <2> QED BY <2>3, <2>4
<1>5. rest \in Seq(C) /\ Len(rest) \in Nat
  <2>1. l \in Seq(C)
    BY DEF C
  <2>2. \A j \in end + 1 .. Len(l) : j \in 1 .. Len(l)
    BY <1>1
  <2>3. rest \in Seq(C)
    BY <1>1, <2>1, <2>2
  <2> HIDE DEF rest
  <2> QED BY <2>3
<1> HIDE DEF A, rest
<1>6. /\ B \in Seq(C)
      /\ \/ Len(B) = 0 /\ Len(rest) # 0 /\ rest[1] = Space
         \/ Len(B) = 1 /\ B[1] = Space
  <2>1. <<>> \in Seq(C) /\ Len(<<>>) = 0
    OBVIOUS
  <2>2. <<Space>> \in Seq(C) /\ Len(<<Space>>) = 1 /\ <<Space>>[1] = Space
    BY <1>3
  <2>3. CASE rest # <<>> /\ rest[1] = Space
    <3>1. Len(rest) # 0 /\ B = <<>>
      BY <1>5, <2>3
    <3> QED BY <2>1, <2>3, <3>1
  <2>4. CASE ~ (rest # <<>> /\ rest[1] = Space)
    <3>1. B = <<Space>>
      BY <2>4
    <3> HIDE DEF B
    <3> QED BY <2>2, <3>1
  <2> QED BY <2>3, <2>4
<1> HIDE DEF B
<1>7. /\ An \in Seq(C) /\ Len(An) = start + n
      /\ \A j \in 1 .. start : An[j] = l[j]
      /\ \A j \in 1 .. n : An[start + j] = name[j]
  <2>1. name \in Seq(C)
    BY DEF C
  <2>2. Joins(An, A, name, C)
    BY <1>4, <2>1, Joined
  <2> HIDE DEF An
  <2>3. /\ An \in Seq(C) /\ Len(An) = Len(A) + n
        /\ \A j \in 1 .. Len(A) : An[j] = A[j]
        /\ \A j \in 1 .. n : An[Len(A) + j] = name[j]
    BY <2>2 DEF Joins
  <2> HIDE DEF n
  <2> QED BY <1>4, <2>3
<1> HIDE DEF An, n
<1>8. /\ AB \in Seq(C) /\ Len(AB) = start + n + Len(B) /\ Len(B) \in Nat
      /\ \A j \in 1 .. start + n : AB[j] = An[j]
      /\ \A j \in 1 .. Len(B) : AB[start + n + j] = B[j]
  <2>1. Joins(AB, An, B, C)
    BY <1>6, <1>7, Joined
  <2> HIDE DEF AB
  <2>2. /\ AB \in Seq(C) /\ Len(AB) = Len(An) + Len(B) /\ Len(B) \in Nat
        /\ \A j \in 1 .. Len(An) : AB[j] = An[j]
        /\ \A j \in 1 .. Len(B) : AB[Len(An) + j] = B[j]
    BY <2>1 DEF Joins
  <2> QED BY <1>7, <2>2
<1> HIDE DEF AB
<1>9. /\ m \in Seq(C) /\ Len(m) = start + n + Len(B) + Len(rest)
      /\ \A j \in 1 .. start + n + Len(B) : m[j] = AB[j]
      /\ \A j \in 1 .. Len(rest) : m[start + n + Len(B) + j] = rest[j]
  <2>1. Joins(m, AB, rest, C)
    BY <1>5, <1>8, Joined
  <2> HIDE DEF m
  <2>2. /\ m \in Seq(C) /\ Len(m) = Len(AB) + Len(rest)
        /\ \A j \in 1 .. Len(AB) : m[j] = AB[j]
        /\ \A j \in 1 .. Len(rest) : m[Len(AB) + j] = rest[j]
    BY <2>1 DEF Joins
  <2> QED BY <1>8, <2>2
<1> HIDE DEF m
<1>10. \A j \in 1 .. start : m[j] = l[j]
  <2>1. \A j \in 1 .. start : j \in 1 .. start + n /\ j \in 1 .. start + n + Len(B)
    BY <1>1, <1>8
  <2> QED BY <1>7, <1>8, <1>9, <2>1
<1>11. \A j \in 1 .. n : m[start + j] = name[j]
  <2>1. \A j \in 1 .. n : start + j \in 1 .. start + n /\ start + j \in 1 .. start + n + Len(B)
    BY <1>1, <1>8
  <2> QED BY <1>7, <1>8, <1>9, <2>1
<1>12. start + n + 1 \in 1 .. Len(m) /\ start <= Len(m) /\ m[start + n + 1] = Space
  <2>1. CASE Len(B) = 0 /\ Len(rest) # 0 /\ rest[1] = Space
    <3>1. 1 \in 1 .. Len(rest) /\ start + n + Len(B) + 1 = start + n + 1
      BY <1>1, <1>5, <2>1
    <3>2. m[start + n + 1] = rest[1]
      BY <1>9, <3>1
    <3> QED BY <1>1, <1>5, <1>9, <2>1, <3>2
  <2>2. CASE Len(B) = 1 /\ B[1] = Space
    <3>1. 1 \in 1 .. Len(B) /\ start + n + 1 \in 1 .. start + n + Len(B)
      BY <1>1, <2>2
    <3>2. m[start + n + 1] = Space
      BY <1>8, <1>9, <2>2, <3>1
    <3> QED BY <1>1, <1>5, <1>9, <2>2, <3>2
  <2> QED BY <1>6, <2>1, <2>2
<1>13. Common(l, m, start)
  BY <1>10 DEF Common
<1> QED BY <1>2, <1>9, <1>11, <1>12, <1>13 DEF C, n

-----------------------------------------------------------------------------
(* The line that is edited or was executed. *)
Present == IF ran = NoRun THEN line ELSE ran.line

OfferKinds ==
  [row : Commands \cup {NULL}, number : Nat, device : Device \cup {NULL},
   name : Seq(Chars), null : BOOLEAN, word : BOOLEAN]

(* The command an argument was offered for is still that of the line. *)
ForTheCommand(l, f) ==
  f.row # NULL =>
    /\ l # <<>> /\ l[1] \in Graphs
    /\ f.row.devarg # "none" /\ f.row \in RowOf(l, extractTokenSub(l, 1))

(* What was offered is meant for the device that the command finds. *)
Addressed(l, f) ==
  /\ Plain(l) /\ f.word /\ f.name # <<>> /\ f.row # NULL /\ f.row.devarg = f.row.finds
  =>
      LET d == DeviceAt(l, extractTokenSub(l, 1).arg, f.row)
      IN  IF f.number = 1 THEN IsWord(f.name) => d # NULL /\ d[f.row.devarg] = f.name
          ELSE d # NULL /\ d = f.device

OffersHold ==
  offer # NULL =>
    /\ offer \in OfferKinds /\ ~offer.null
    /\ ForTheCommand(Present, offer) /\ Addressed(Present, offer)

(* What an offer addresses depends on the devices only. *)
LEMMA AddressedStays ==
  ASSUME devices' = devices
  PROVE  \A l, f : Addressed(l, f)' <=> Addressed(l, f)
<1>1. \A l, arg, row : DeviceAt(l, arg, row)' = DeviceAt(l, arg, row)
  BY FindStays DEF DeviceAt
<1> QED BY <1>1 DEF Addressed

(* What is put into a line is meant for the device of its command. *)
LEMMA PutIsAddressed ==
  ASSUME devices \in Seq(Device), NEW l \in Seq(Chars), NEW end \in 0 .. Len(l), NEW start \in 0 .. end,
         start # 0 => l[start] \in Blanks \cup Breaks,
         NEW o, Offered(l, start, o), NEW name \in o.names,
         NEW f, f.row = o.row, f.number = o.number, f.device = o.device, f.name = name,
         f.word => start > 0 /\ l[start] \in Blanks
  PROVE  LET m == PutInto(l, start, end, name)
         IN  m \in Seq(Chars) /\ ForTheCommand(m, f) /\ Addressed(m, f)
<1>0. PICK m : m = PutInto(l, start, end, name)
  OBVIOUS
<1>1. name \in Seq(Chars)
  BY DEF Offered
<1>2. /\ m \in Seq(Chars) /\ Common(l, m, start) /\ start <= Len(m)
      /\ start + Len(name) + 1 \in 1 .. Len(m)
      /\ \A j \in 1 .. Len(name) : m[start + j] = name[j]
      /\ m[start + Len(name) + 1] = Space
  BY <1>0, <1>1, PutIntoLine
<1>3. CASE o.row = NULL
  BY <1>0, <1>2, <1>3 DEF ForTheCommand, Addressed
<1>4. CASE o.row # NULL
  <2>1. /\ start \in 1 .. Len(l) /\ o.row \in RowOf(l, extractTokenSub(l, 1)) /\ o.row.devarg # "none"
        /\ o.number = ArgumentNumber(l, start)
        /\ o.number = 1 => o.names \subseteq {d[o.row.devarg] : d \in ToSet(devices)}
        /\ o.number # 1 =>
             /\ o.device = Find(l, extractTokenSub(l, extractTokenSub(l, 1).arg), o.row.devarg)
             /\ o.names # {} => o.device # NULL
    BY <1>4 DEF Offered, OfferRow
  <2>2. l[start] \in Blanks \cup Breaks
    BY <2>1
  <2>3. o.row \in Commands
    BY <2>1 DEF RowOf
  <2>4. /\ o.row \in RowOf(m, extractTokenSub(m, 1)) /\ m[1] \in Graphs
        /\ WordAt(m, 1) /\ ArgumentNumber(m, start) = ArgumentNumber(l, start)
    BY <1>2, <2>1, <2>2, BeginsInCommon
  <2>5. ForTheCommand(m, f)
    <3>1. m # <<>>
      BY <2>4 DEF WordAt
    <3> QED BY <2>1, <2>4, <3>1 DEF ForTheCommand
  <2>6. Addressed(m, f)
    <3> SUFFICES ASSUME Plain(m), f.word, o.row.devarg = o.row.finds
                 PROVE  LET d == DeviceAt(m, extractTokenSub(m, 1).arg, o.row)
                        IN  IF o.number = 1 THEN IsWord(name) => d # NULL /\ d[o.row.devarg] = name
                            ELSE d # NULL /\ d = o.device
      BY DEF Addressed
    <3>1. PICK text : text = Text(m, extractTokenSub(m, extractTokenSub(m, 1).arg))
      OBVIOUS
    <3>2. DeviceAt(m, extractTokenSub(m, 1).arg, o.row) = Named(text, o.row.devarg)
      BY <2>3, <3>1, DeviceAtIs
    <3>3. CASE o.number = 1
      <4> SUFFICES ASSUME IsWord(name)
                   PROVE  LET d == DeviceAt(m, extractTokenSub(m, 1).arg, o.row)
                          IN  d # NULL /\ d[o.row.devarg] = name
        BY <3>3
      <4>1. PICK d \in ToSet(devices) : d[o.row.devarg] = name
        BY <2>1, <3>3
      <4>3. start \in 1 .. Len(m) /\ m[start] \in Blanks /\ m[start + Len(name) + 1] \in Blanks
        <5>1. Len(m) \in Nat /\ start \in 1 .. Len(m) /\ start \in 1 .. start
          BY <1>2, <2>1
        <5>2. m[start] = l[start]
          BY <1>2, <5>1 DEF Common
        <5>3. Space \in Blanks
          BY PromptAssumption
        <5> QED BY <1>2, <5>1, <5>2, <5>3
      <4>4. ArgumentNumber(m, start) = 1
        BY <2>1, <2>4, <3>3
      <4>5. text = name
        BY <1>1, <1>2, <2>4, <3>1, <4>3, <4>4, PutAsSecond
      <4>6. Named(name, o.row.devarg) # NULL /\ Named(name, o.row.devarg)[o.row.devarg] = name
        BY <4>1, NamedIsDevice
      <4> QED BY <3>2, <3>3, <4>5, <4>6
    <3>4. CASE o.number # 1
      <4>1. o.device = Named(Text(l, extractTokenSub(l, extractTokenSub(l, 1).arg)), o.row.devarg)
        BY <2>1, <3>4, FindNamed
      <4>2. text = Text(l, extractTokenSub(l, extractTokenSub(l, 1).arg))
        BY <1>2, <2>1, <2>2, <3>1, <3>4, SecondInCommon
      <4>3. o.device # NULL
        BY <2>1, <3>4
      <4> QED BY <3>2, <3>4, <4>1, <4>2, <4>3
    <3> QED BY <3>3, <3>4
  <2> QED BY <1>0, <1>2, <2>5, <2>6
<1> QED BY <1>3, <1>4

(* A line that was completed has nothing in front that is stripped. *)
LEMMA NothingStripped ==
  ASSUME NEW l \in Seq(Chars), l # <<>>, l[1] \in Graphs
  PROVE  Stripped(l) = l
<1>1. Len(l) \in Nat \ {0} /\ 1 \in 1 .. Len(l) + 1
  OBVIOUS
<1>2. First(l, 1, Graphs) = 1
  <2>1. /\ First(l, 1, Graphs) \in 1 .. Len(l) + 1
        /\ \A j \in 1 .. First(l, 1, Graphs) - 1 : l[j] \notin Graphs
    BY <1>1, FirstFinds
  <2> QED BY <1>1, <2>1
<1>3. SubSeq(l, 1, Len(l)) = l
  OBVIOUS
<1> QED BY <1>2, <1>3 DEF Stripped

(* A line begins with one command at most. *)
LEMMA OneCommand ==
  ASSUME NEW l, NEW token, NEW row \in RowOf(l, token), NEW other \in RowOf(l, token)
  PROVE  row = other
<1>1. row \in Commands /\ other \in Commands /\ NameOf[row.does] = NameOf[other.does]
  BY DEF RowOf, Same
<1> QED BY <1>1, NamesOfRows

(* The bound on completions admits none. *)
LEMMA TabsFromZero == MaxTabs \in Nat /\ 0 \in 0 .. MaxTabs
<1>1. MaxTabs \in Nat
  BY PromptAssumption
<1> QED BY <1>1

(* The inductive invariant. *)
PromptInv == Known /\ OneLine /\ Executed /\ OffersHold

(* It holds when the program starts. *)
LEMMA PromptBegins == PromptInit => PromptInv
<1> SUFFICES ASSUME PromptInit PROVE PromptInv
  OBVIOUS
<1>1. devices \in Seq(Device) /\ line \in Seq(Chars)
  <2> DEFINE D == Device
             C == Chars
  <2> HIDE DEF D, C
  <2>1. devices \in Seq(D) /\ line \in Seq(C)
    BY DEF PromptInit
  <2> QED BY <2>1 DEF D, C
<1>2. tabs \in 0 .. MaxTabs
  BY TabsFromZero DEF PromptInit
<1> QED BY <1>1, <1>2 DEF PromptInit, PromptInv, Known, OneLine, Executed, OffersHold

(* A new prompt has no offer. *)
LEMMA NextPromptKeeps == PromptInv /\ NextPrompt => PromptInv'
<1> SUFFICES ASSUME PromptInv, NextPrompt PROVE PromptInv'
  OBVIOUS
<1>1. tabs' \in 0 .. MaxTabs
  BY TabsFromZero DEF NextPrompt
<1> QED BY <1>1 DEF NextPrompt, PromptInv, Known, OneLine, Executed, OffersHold

(* A line is typed where nothing was offered for a command. *)
LEMMA TypeLineKeeps ==
  ASSUME PromptInv, NEW l \in Lines, TypeLine(l)
  PROVE  PromptInv'
<1>1. Known'
  BY PromptAssumption DEF TypeLine, PromptInv, Known
<1>2. OneLine' /\ Executed'
  BY DEF TypeLine, OneLine, Executed
<1>3. OffersHold'
  <2> SUFFICES ASSUME offer # NULL
               PROVE  (offer \in OfferKinds /\ ~offer.null /\ ForTheCommand(Present, offer)
                       /\ Addressed(Present, offer))'
    BY DEF OffersHold, TypeLine
  <2>1. offer \in OfferKinds /\ ~offer.null /\ ForTheCommand(<<>>, offer)
    BY DEF TypeLine, PromptInv, OffersHold, Present
  <2>2. offer.row = NULL
    BY <2>1 DEF ForTheCommand
  <2>3. offer' = offer
    BY DEF TypeLine
  <2>4. ForTheCommand(Present, offer)' /\ Addressed(Present, offer)'
    BY <2>2, <2>3 DEF ForTheCommand, Addressed
  <2> QED BY <2>1, <2>3, <2>4 DEF OfferKinds
<1> QED BY <1>1, <1>2, <1>3 DEF PromptInv

(* TAB: what is put into the line addresses the device that the command finds. *)
LEMMA CompleteKeeps ==
  ASSUME PromptInv, NEW end \in 0 .. Len(line), Complete(end)
  PROVE  PromptInv'
<1>1. PICK l : l = line
  OBVIOUS
<1>2. PICK start : start = StartOf(l, end)
  OBVIOUS
<1>3. PICK o : o = command_completion(l, start, SubSeq(l, start + 1, end))
  OBVIOUS
<1>4. /\ l \in Seq(Chars) /\ end \in 0 .. Len(l) /\ devices \in Seq(Device)
      /\ Len(l) \in Nat
  BY <1>1 DEF PromptInv, Known
<1>5. start \in 0 .. end /\ (start # 0 => l[start] \in Blanks \cup Breaks)
  BY <1>2, <1>4, StartPlace
<1>6. Offered(l, start, o)
  <2>1. start \in 0 .. Len(l)
    BY <1>4, <1>5
  <2> QED BY <1>3, <1>4, <1>5, <2>1, CompletionOffers
<1>7. /\ ran = NoRun /\ ran' = NoRun /\ devices' = devices /\ crashed' = crashed
      /\ tabs < MaxTabs /\ tabs' = tabs + 1
  BY DEF Complete
<1> DEFINE rest == SubSeq(l, end + 1, Len(l))
           word == /\ start > 0 /\ l[start] \in Blanks
                   /\ rest # <<>> => rest[1] \in Blanks
           Put(name) == /\ line' = PutInto(l, start, end, name)
                        /\ offer' = [row |-> o.row, number |-> o.number, device |-> o.device,
                                     name |-> name, null |-> FALSE, word |-> word]
           Nobody == /\ offer' = [row |-> o.row, number |-> o.number, device |-> o.device,
                                  name |-> <<>>, null |-> o.null, word |-> FALSE]
                     /\ line' = l /\ o.names = {}
<1>8. (\E name \in o.names : Put(name)) \/ Nobody
  <2>1. start = Max({i \in 1 .. end : line[i] \in Blanks \cup Breaks} \cup {0})
    BY <1>1, <1>2 DEF StartOf
  <2>2. o = command_completion(line, start, SubSeq(line, start + 1, end))
    BY <1>1, <1>3
  <2>3. \/ \E name \in o.names :
             /\ line' = SubSeq(line, 1, start) \o name
                        \o (IF SubSeq(line, end + 1, Len(line)) # <<>> /\ SubSeq(line, end + 1, Len(line))[1] = Space
                            THEN <<>> ELSE <<Space>>) \o SubSeq(line, end + 1, Len(line))
             /\ offer' = [row |-> o.row, number |-> o.number, device |-> o.device,
                          name |-> name, null |-> FALSE,
                          word |-> /\ start > 0 /\ line[start] \in Blanks
                                   /\ SubSeq(line, end + 1, Len(line)) # <<>> =>
                                        SubSeq(line, end + 1, Len(line))[1] \in Blanks]
        \/ /\ o.names = {}
           /\ offer' = [row |-> o.row, number |-> o.number, device |-> o.device,
                        name |-> <<>>, null |-> o.null, word |-> FALSE]
           /\ UNCHANGED line
    BY <2>1, <2>2 DEF Complete
  <2> QED BY <1>1, <2>3 DEF PutInto
<1>9. tabs' \in 0 .. MaxTabs
  BY <1>7, TabsFromZero DEF PromptInv, Known
<1>10. OneLine' /\ Executed'
  BY <1>7 DEF OneLine, Executed
<1>11. \A m, f : Addressed(m, f)' <=> Addressed(m, f)
  BY <1>7, AddressedStays
<1>12. ASSUME NEW m \in Seq(Chars), NEW f \in OfferKinds, ~f.null,
              ForTheCommand(m, f), Addressed(m, f), line' = m, offer' = f
       PROVE  PromptInv'
  <2>1. Known'
    BY <1>7, <1>9, <1>12 DEF PromptInv, Known
  <2>2. Present' = m
    BY <1>7, <1>12 DEF Present
  <2>3. Addressed(m, f)'
    BY <1>11, <1>12
  <2>4. Addressed(Present, offer)'
    <3>1. Addressed(m, f)' = Addressed(Present, offer)'
      BY <1>12, <2>2 DEF Addressed, DeviceAt, Find, SelectInSeq
    <3> QED BY <2>3, <3>1
  <2>5. OffersHold'
    BY <1>12, <2>2, <2>4 DEF OffersHold, ForTheCommand, OfferKinds
  <2> QED BY <1>10, <2>1, <2>5 DEF PromptInv
<1>13. /\ o.null = FALSE /\ o.row \in Commands \cup {NULL} /\ o.number \in Nat
       /\ o.device \in Device \cup {NULL} /\ o.names \subseteq Seq(Chars)
  BY <1>6 DEF Offered
<1> HIDE DEF rest
<1>14. \A name \in Seq(Chars), w \in BOOLEAN :
         [row |-> o.row, number |-> o.number, device |-> o.device,
          name |-> name, null |-> FALSE, word |-> w] \in OfferKinds
  BY <1>13 DEF OfferKinds
<1>15. CASE \E name \in o.names : Put(name)
  <2>1. PICK name \in o.names : Put(name)
    BY <1>15
  <2>2. PICK f : f = [row |-> o.row, number |-> o.number, device |-> o.device,
                      name |-> name, null |-> FALSE, word |-> word]
    OBVIOUS
  <2>3. f \in OfferKinds /\ ~f.null
    <3>1. name \in Seq(Chars) /\ word \in BOOLEAN
      BY <1>13
    <3> HIDE DEF word
    <3> QED BY <1>14, <2>2, <3>1
  <2>4. /\ f.row = o.row /\ f.number = o.number /\ f.device = o.device /\ f.name = name
        /\ f.word => start > 0 /\ l[start] \in Blanks
    BY <2>2
  <2>5. PICK m : m = PutInto(l, start, end, name)
    OBVIOUS
  <2>6. m \in Seq(Chars) /\ ForTheCommand(m, f) /\ Addressed(m, f)
    BY <1>4, <1>5, <1>6, <2>1, <2>4, <2>5, PutIsAddressed
  <2>7. line' = m /\ offer' = f
    BY <2>1, <2>2, <2>5
  <2> QED BY <1>12, <2>3, <2>6, <2>7
<1>16. CASE Nobody
  <2>1. PICK f : f = [row |-> o.row, number |-> o.number, device |-> o.device,
                      name |-> <<>>, null |-> FALSE, word |-> FALSE]
    OBVIOUS
  <2>2. f \in OfferKinds /\ ~f.null
    <3> DEFINE C == Seq(Chars)
    <3>1. <<>> \in C
      OBVIOUS
    <3> HIDE DEF C
    <3> QED BY <1>14, <2>1, <3>1 DEF C
  <2>3. Addressed(l, f)
    BY <2>1 DEF Addressed
  <2>4. ForTheCommand(l, f)
    <3>1. CASE o.row # NULL
      <4>1. start \in 1 .. Len(l) /\ o.row \in RowOf(l, extractTokenSub(l, 1)) /\ o.row.devarg # "none"
        BY <1>6, <3>1 DEF Offered, OfferRow
      <4>2. WordAt(l, 1) /\ l[1] \in Graphs
        BY <1>4, <1>5, <4>1, CompletionPlace
      <4>3. l # <<>>
        BY <4>2 DEF WordAt
      <4> QED BY <2>1, <4>1, <4>2, <4>3 DEF ForTheCommand
    <3>2. CASE o.row = NULL
      BY <2>1, <3>2 DEF ForTheCommand
    <3> QED BY <3>1, <3>2
  <2>5. line' = l /\ offer' = f
    BY <1>13, <1>16, <2>1
  <2> QED BY <1>4, <1>12, <2>2, <2>3, <2>4, <2>5
<1> QED BY <1>8, <1>15, <1>16

(* A line that is no command leaves nothing. *)
LEMMA IgnoreKeeps == PromptInv /\ Ignore => PromptInv'
<1> SUFFICES ASSUME PromptInv, Ignore PROVE PromptInv'
  OBVIOUS
<1>1. ran = NoRun /\ ran' = NoRun
  BY DEF PromptInv, OneLine, Ignore
<1>2. line' \in Seq(Chars)
  <2> DEFINE C == Chars
  <2> HIDE DEF C
  <2>1. line' \in Seq(C)
    BY DEF Ignore
  <2> QED BY <2>1 DEF C
<1>3. tabs' \in 0 .. MaxTabs
  BY TabsFromZero DEF Ignore
<1> QED BY <1>1, <1>2, <1>3 DEF Ignore, PromptInv, Known, OneLine, Executed, OffersHold

(* ENTER: the line was not stripped of anything if there is an offer for its
   command, and that command does not change the devices. *)
LEMMA ExecuteKeeps == PromptInv /\ Execute => PromptInv'
<1> SUFFICES ASSUME PromptInv, Execute PROVE PromptInv'
  OBVIOUS
<1>1. PICK l : l = line
  OBVIOUS
<1>2. line # <<>>
  <2>1. Stripped(<<>>) = <<>>
    BY DEF Stripped, First
  <2> QED BY <2>1 DEF Execute
<1>3. ran = NoRun /\ offer' = offer /\ tabs' = tabs
  BY <1>2 DEF PromptInv, OneLine, Execute
<1>4. /\ (devices \in Seq(Device))' /\ Executed' /\ line' = <<>>
      /\ crashed' \in BOOLEAN
      /\ \E row \in RowOf(Stripped(line), extractTokenSub(Stripped(line), 1)) :
           devices' = devices \/ row.does = "scan_Devices"
  BY ExecuteStep DEF PromptInv
<1>5. ran' # NoRun => ran'.line = Stripped(l)
  BY <1>1 DEF Execute
<1>6. ran' # NoRun
  <2>1. ran'.line # <<>>
    BY DEF Execute
  <2> QED BY <2>1 DEF NoRun
<1>7. Known'
  <2> DEFINE C == Chars
  <2> HIDE DEF C
  <2>1. line' \in Seq(C)
    BY <1>4
  <2> QED BY <1>3, <1>4, <2>1 DEF PromptInv, Known, C
<1>8. OneLine'
  BY <1>4 DEF OneLine
<1>9. OffersHold'
  <2> SUFFICES ASSUME offer # NULL
               PROVE  OffersHold'
    BY <1>3 DEF OffersHold
  <2>1. PICK f : f = offer
    OBVIOUS
  <2>2. f \in OfferKinds /\ ~f.null /\ ForTheCommand(l, f) /\ Addressed(l, f)
    BY <1>1, <1>3, <2>1 DEF PromptInv, OffersHold, Present
  <2>3. CASE f.row = NULL
    <3>1. ForTheCommand(Present, offer)' /\ Addressed(Present, offer)'
      BY <1>3, <2>1, <2>3 DEF ForTheCommand, Addressed
    <3> QED BY <1>3, <2>1, <2>2, <3>1 DEF OffersHold, OfferKinds
  <2>4. CASE f.row # NULL
    <3>1. l # <<>> /\ l[1] \in Graphs /\ f.row.devarg # "none" /\ f.row \in RowOf(l, extractTokenSub(l, 1))
      BY <2>2, <2>4 DEF ForTheCommand
    <3>2. Stripped(l) = l
      BY <1>1, <3>1, NothingStripped DEF PromptInv, Known
    <3>3. Present' = l
      BY <1>5, <1>6, <3>2 DEF Present
    <3>4. devices' = devices
      <4>1. PICK row \in RowOf(l, extractTokenSub(l, 1)) : devices' = devices \/ row.does = "scan_Devices"
        BY <1>1, <1>4, <3>2
      <4>2. row = f.row
        BY <3>1, <4>1, OneCommand
      <4>3. row \in Commands
        BY <4>1 DEF RowOf
      <4>4. row.does # "scan_Devices"
        BY <3>1, <4>2, <4>3, RowKinds
      <4> QED BY <4>1, <4>4
    <3>5. Addressed(l, f)'
      BY <2>2, <3>4, AddressedStays
    <3>6. Addressed(Present, offer)'
      <4>1. Addressed(l, f)' = Addressed(Present, offer)'
        BY <1>3, <2>1, <3>3 DEF Addressed, DeviceAt, Find, SelectInSeq
      <4> QED BY <3>5, <4>1
    <3> QED BY <1>3, <2>1, <2>2, <3>3, <3>6 DEF OffersHold, ForTheCommand, OfferKinds
  <2> QED BY <2>3, <2>4
<1> QED BY <1>4, <1>7, <1>8, <1>9 DEF PromptInv

(* Nothing changes. *)
LEMMA StutterKeeps == PromptInv /\ UNCHANGED promptVars => PromptInv'
<1> SUFFICES ASSUME PromptInv, UNCHANGED promptVars PROVE PromptInv'
  OBVIOUS
<1>1. /\ devices' = devices /\ line' = line /\ tabs' = tabs /\ offer' = offer /\ ran' = ran
      /\ crashed' = crashed
  BY DEF promptVars
<1>2. Known' /\ OneLine'
  BY <1>1 DEF PromptInv, Known, OneLine
<1>3. PICK r : r = ran
  OBVIOUS
<1>4. Executed'
  <2>1. \A row, l, arg, reply, more : Effect(row, l, arg, reply, more)' = Effect(row, l, arg, reply, more)
    BY <1>1, EffectStays
  <2>2. \A more : Effect(ran.row, ran.line, ArgOf(ran.line), ran.reply, more)'
                    = Effect(ran.row, ran.line, ArgOf(ran.line), ran.reply, more)
    BY <1>1, <2>1
  <2>3. HasEffect(ran)' = HasEffect(ran)
    BY <1>1, <2>2 DEF HasEffect
  <2> QED BY <1>1, <2>3 DEF PromptInv, Executed
<1>5. OffersHold'
  <2>1. PICK p, f : p = Present /\ f = offer
    OBVIOUS
  <2>2. Present' = p /\ offer' = f
    BY <1>1, <2>1 DEF Present
  <2>3. Addressed(p, f)' <=> Addressed(p, f)
    BY <1>1, AddressedStays
  <2>4. Addressed(Present, offer)' <=> Addressed(p, f)'
    BY <2>2 DEF Addressed, DeviceAt, Find, SelectInSeq
  <2>5. Addressed(Present, offer) <=> Addressed(p, f)
    BY <2>1
  <2> QED BY <2>1, <2>2, <2>3, <2>4, <2>5 DEF PromptInv, OffersHold, ForTheCommand, OfferKinds
<1> QED BY <1>2, <1>4, <1>5 DEF PromptInv

-----------------------------------------------------------------------------
(* The theorems *)

(* Every state of the prompt satisfies the inductive invariant. *)
THEOREM PromptInvariant == PromptSpec => []PromptInv
<1>1. PromptInv /\ [PromptNext]_promptVars => PromptInv'
  <2> SUFFICES ASSUME PromptInv, [PromptNext]_promptVars
               PROVE  PromptInv'
    OBVIOUS
  <2>1. CASE NextPrompt
    BY <2>1, NextPromptKeeps
  <2>2. CASE \E l \in Lines : TypeLine(l)
    BY <2>2, TypeLineKeeps
  <2>3. CASE \E end \in 0 .. Len(line) : Complete(end)
    BY <2>3, CompleteKeeps
  <2>4. CASE Ignore
    BY <2>4, IgnoreKeeps
  <2>5. CASE Execute
    BY <2>5, ExecuteKeeps
  <2>6. CASE UNCHANGED promptVars
    BY <2>6, StutterKeeps
  <2> QED BY <2>1, <2>2, <2>3, <2>4, <2>5, <2>6 DEF PromptNext
<1> QED BY PromptBegins, <1>1, PTL DEF PromptSpec

(* Whatever scan_Devices is answered, no label that is stored holds a space, *)
(* and everything else has its type.                                        *)
THEOREM PromptTyped == PromptSpec => []PromptTypeOK
<1>1. PromptInv => PromptTypeOK
  BY ExecutedShowsSent DEF PromptInv, PromptTypeOK, Known, OffersHold, OfferKinds
<1> QED BY <1>1, PromptInvariant, PTL

(* Completion counts the words of a line as the commands take them. *)
THEOREM CountedLikeCommands == PromptSpec => []CountsLikeCommands
<1>1. PromptInv => CountsLikeCommands
  BY CompletionCounts DEF PromptInv, Known, CountsLikeCommands
<1> QED BY <1>1, PromptInvariant, PTL

(* Completion never reads a word that is not there. *)
THEOREM NeverWithoutItsWord == PromptSpec => []NeverWithoutWord
<1>1. PromptInv => NeverWithoutWord
  BY DEF PromptInv, OffersHold, NeverWithoutWord
<1> QED BY <1>1, PromptInvariant, PTL

(* What completion puts into a line is meant for the device that the command
   then addresses. *)
THEOREM OfferedAddressesDevice == PromptSpec => []OfferedIsAddressed
<1>1. PromptInv => OfferedIsAddressed
  BY DEF PromptInv, OffersHold, OfferedIsAddressed, Addressed, Present
<1> QED BY <1>1, PromptInvariant, PTL

(* A request is made exactly when the line names a known device and no word
   is missing, and it says what the line says. *)
THEOREM RequestSaysTheLine == PromptSpec => []RequestIsTheLine
<1>1. PromptInv => RequestIsTheLine
  BY ExecutedRequests DEF PromptInv
<1> QED BY <1>1, PromptInvariant, PTL

(* States prints the values of the states that the line names. *)
THEOREM StatesNamed == PromptSpec => []StatesAreTheOnesNamed
<1>1. PromptInv => StatesAreTheOnesNamed
  BY ExecutedStates DEF PromptInv
<1> QED BY <1>1, PromptInvariant, PTL

(* Each value that is printed was sent, or is one of the defaults. *)
THEOREM ShownWasSent == PromptSpec => []ShownIsSent
<1>1. PromptInv => ShownIsSent
  BY ExecutedShowsSent DEF PromptInv, ShownIsSent
<1> QED BY <1>1, PromptInvariant, PTL

(* Current prints beside a URL the label of a device that has it. *)
THEOREM CurrentLabels == PromptSpec => []CurrentNamesDevices
<1>1. PromptInv => CurrentNamesDevices
  BY ExecutedNamesDevices DEF PromptInv
<1> QED BY <1>1, PromptInvariant, PTL
=============================================================================
