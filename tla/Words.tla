------------------------------- MODULE Words -------------------------------
(***************************************************************************)
(* The words of a line, as the two halves of the program see them: the     *)
(* commands, which take one word after the other with extractTokenSub(),   *)
(* and the completion of readline, which counts the blanks before the      *)
(* cursor.  A line is a sequence of characters.  A pointer into a line is  *)
(* a position, 0 for the null pointer; the position after the last         *)
(* character is that of its terminating null.                              *)
(***************************************************************************)
EXTENDS Sequences, FiniteSetsExt

CONSTANTS
  Blanks,  \* space and tab
  Graphs,  \* what isgraph() accepts
  Others   \* control characters, and bytes that are not ASCII

Chars == Blanks \cup Graphs \cup Others

ASSUME CharsAssumption ==
  Blanks \cap Graphs = {} /\ Others \cap (Blanks \cup Graphs) = {}

(* The first position from i on with a character of S, or the end. *)
First(l, i, S) == Min({j \in i .. Len(l) : l[j] \in S} \cup {Len(l) + 1})

(* A token that is followed by the very next character. *)
ExtractNext(l, i) ==
  LET blank == First(l, i, Blanks)
  IN  [s |-> i, len |-> blank - i, arg |-> IF blank > Len(l) THEN 0 ELSE blank + 1]

(* The token at i, and where the next one begins: 0 when nothing, not
   even a blank, ends this one.  What is skipped before the next token is
   all that is not graphic, not only blanks. *)
extractTokenSub(l, i) ==
  LET blank == First(l, i, Blanks)
  IN  [s |-> i, len |-> blank - i,
       arg |-> IF blank > Len(l) THEN 0 ELSE First(l, blank + 1, Graphs)]

Text(l, sub) == SubSeq(l, sub.s, sub.s + sub.len - 1)

(* A comparison that stops at the end of the shorter string. *)
SamePrefix(l, sub, with) ==
  \A i \in 1 .. sub.len : i <= Len(with) => l[sub.s + i - 1] = with[i]

(* substringcmp() returns 0. *)
Same(l, sub, with) == Text(l, sub) = with

(* A pointer at which a command goes on taking words: next && *next. *)
More(l, next) == next # 0 /\ next # Len(l) + 1

(* The words taken from next on, until the end. *)
Remaining(l, next) ==
  LET from[i \in 1 .. Len(l) + 1] ==
        LET token == extractTokenSub(l, i)
        IN  <<Text(l, token)>> \o (IF More(l, token.arg) THEN from[token.arg] ELSE <<>>)
  IN  IF More(l, next) THEN from[next] ELSE <<>>

FirstWord(l) == First(l, 1, Chars \ Blanks)

(* "Should never happen": completion of a leading blank. *)
LeadingSpaceBug(l, start) == FirstWord(l) > start

(* A count that takes each blank for the end of a word. *)
BlanksBefore(l, start) == Cardinality({j \in FirstWord(l) .. start : l[j] \in Blanks})

(* The number of the argument that begins after the first start characters,
   as command_completion() counts it. *)
ArgumentNumber(l, start) ==
  Cardinality({j \in FirstWord(l) .. start : l[j] \in Blanks /\ l[j - 1] \notin Blanks})

(* What main() removes before a line that was typed. *)
Stripped(l) == SubSeq(l, First(l, 1, Graphs), Len(l))

-----------------------------------------------------------------------------
(* Words without regard to the code: maximal runs of what is not blank. *)
WordAt(l, i) ==
  /\ i \in 1 .. Len(l) /\ l[i] \notin Blanks
  /\ i = 1 \/ l[i - 1] \in Blanks

WordsOf(l) ==
  LET begins == {i \in 1 .. Len(l) : WordAt(l, i)}
      nth(n) == CHOOSE i \in begins : Cardinality({j \in begins : j <= i}) = n
  IN  [n \in 1 .. Cardinality(begins) |->
         SubSeq(l, nth(n), First(l, nth(n), Blanks) - 1)]

(* A line of words and blanks only. *)
Plain(l) == \A i \in 1 .. Len(l) : l[i] \notin Others

(* The commands take the words of a line that begins with one, and completion
   counts for each word the number it has among them. *)
CountedAlike(l) ==
  Plain(l) /\ WordAt(l, 1) =>
    /\ Remaining(l, 1) = WordsOf(l)
    /\ \A i \in 2 .. Len(l) : WordAt(l, i) =>
         LET number == ArgumentNumber(l, i - 1)
         IN  /\ number + 1 \in DOMAIN WordsOf(l)
             /\ WordsOf(l)[number + 1] = SubSeq(l, i, First(l, i, Blanks) - 1)
=============================================================================
