--------------------------------- MODULE Grep ---------------------------------
(***************************************************************************)
(* grep.c: the recursive matcher, checked against the meaning of patterns,  *)
(* and the loop that cuts what read() returns into lines.                   *)
(***************************************************************************)
EXTENDS Integers, Sequences, FiniteSets, SequencesExt

CONSTANTS
  Text,      \* characters of a line
  MaxRe,     \* bound: length of the pattern
  MaxInput,  \* bound: characters of the file, "nl" included
  BUFSIZE    \* sizeof(buf)

VARIABLES
  re,        \* the pattern
  input,     \* what read() has still to return
  all,       \* history: the whole file
  buf,       \* buf[0 .. m-1]
  out,       \* the lines written
  dropped    \* history: a part of a line was dropped, because no line ended in buf

vars == <<re, input, all, buf, out, dropped>>

At(s, i) == IF i <= Len(s) THEN s[i] ELSE "nul"
-----------------------------------------------------------------------------
(***************************************************************************)
(* The matcher, on the rest of the pattern r from i and of the text t from j *)
(***************************************************************************)
\* Where the loop of matchstar() tries to match the rest
StarEnds(r, c, t, j) == {k \in j .. Len(t) + 1 : \A l \in j .. k - 1 : t[l] = c \/ c = "."}

RECURSIVE matchhere(_, _, _, _)
matchhere(r, i, t, j) ==
  CASE At(r, i) = "nul" -> TRUE
    [] At(r, i + 1) = "*" -> \E k \in StarEnds(r, r[i], t, j) : matchhere(r, i + 2, t, k)
    [] r[i] = "$" /\ At(r, i + 1) = "nul" -> At(t, j) = "nul"
    [] OTHER -> At(t, j) # "nul" /\ (r[i] = "." \/ r[i] = t[j]) /\ matchhere(r, i + 1, t, j + 1)

match(r, t) ==
  IF At(r, 1) = "^" THEN matchhere(r, 2, t, 1)
  ELSE \E j \in 1 .. Len(t) + 1 : matchhere(r, 1, t, j)
-----------------------------------------------------------------------------
(***************************************************************************)
(* The loop of grep()                                                       *)
(***************************************************************************)
Init ==
  /\ re \in BoundedSeq(Text \cup {"^", ".", "*", "$"}, MaxRe)
  /\ input = <<>> /\ all = <<>> /\ buf = <<>> /\ out = <<>> /\ dropped = FALSE

\* The ends of the lines in b
LineEnds(b) == {k \in 1 .. Len(b) : b[k] = "nl"}
StartOf(b, k) == 1 + Max({0} \cup {l \in LineEnds(b) : l < k})

\* The lines of b that are written, in order
Written(b) ==
  LET ends == SetToSortSeq(LineEnds(b), <)
      lines == [i \in 1 .. Len(ends) |-> SubSeq(b, StartOf(b, ends[i]), ends[i] - 1)]
  IN SelectSeq(lines, LAMBDA l : match(re, l))

\* Mutant: what follows the last line is lost.
RestNone(b) == <<>>

\* memmove() of what follows the last line, none of which is kept if there is
\* no line
Rest(b) == IF LineEnds(b) = {} THEN <<>> ELSE SubSeq(b, StartOf(b, Len(b) + 1), Len(b))

\* The file gets longer; only its length before the first read() matters.
Grow(c) ==
  /\ Len(all) < MaxInput /\ input = all
  /\ buf = <<>> /\ out = <<>> /\ ~dropped
  /\ input' = Append(input, c) /\ all' = Append(all, c)
  /\ UNCHANGED <<re, buf, out, dropped>>

\* read() of n characters, and the lines that end in them
grep(n) ==
  /\ n \in 1 .. Len(input) /\ Len(buf) + n <= BUFSIZE - 1
  /\ LET b == buf \o SubSeq(input, 1, n)
     IN /\ out' = out \o Written(b)
        /\ buf' = Rest(b)
        /\ dropped' = (dropped \/ LineEnds(b) = {})
  /\ input' = SubSeq(input, n + 1, Len(input))
  /\ UNCHANGED <<re, all>>

Next == (\E c \in Text \cup {"nl"} : Grow(c)) \/ (\E n \in 1 .. MaxInput : grep(n))

Spec == Init /\ [][Next]_vars
-----------------------------------------------------------------------------
(***************************************************************************)
(* What a pattern means                                                     *)
(***************************************************************************)
\* Its items from i on: characters, with a star or without, and "$" at the end
RECURSIVE Items(_, _)
Items(r, i) ==
  IF i > Len(r) THEN <<>>
  ELSE IF At(r, i + 1) = "*" THEN <<[c |-> r[i], star |-> TRUE]>> \o Items(r, i + 2)
  ELSE IF r[i] = "$" /\ i = Len(r) THEN <<>>
  ELSE <<[c |-> r[i], star |-> FALSE]>> \o Items(r, i + 1)

AnchoredAtEnd(r, i) == Len(r) >= i /\ Last(r) = "$"

\* Characters s up to e of t can be cut into one piece for each item.
Denotes(items, t, s, e) ==
  \E cut \in [0 .. Len(items) -> s .. e] :
    /\ cut[0] = s /\ cut[Len(items)] = e
    /\ \A i \in 1 .. Len(items) :
         /\ cut[i - 1] <= cut[i]
         /\ ~items[i].star => cut[i] = cut[i - 1] + 1
         /\ \A k \in cut[i - 1] .. cut[i] - 1 : items[i].c \in {".", t[k]}

\* Some part of the line is as the pattern says, at its start and at its end if
\* the pattern is anchored there.
LineMatches(r, t) ==
  LET i == IF At(r, 1) = "^" THEN 2 ELSE 1
  IN \E s \in 1 .. Len(t) + 1, e \in 1 .. Len(t) + 1 :
       /\ s <= e
       /\ i = 2 => s = 1
       /\ AnchoredAtEnd(r, i) => e = Len(t) + 1
       /\ Denotes(Items(r, i), t, s, e)

MatchingLines(b) ==
  LET ends == SetToSortSeq(LineEnds(b), <)
      lines == [i \in 1 .. Len(ends) |-> SubSeq(b, StartOf(b, ends[i]), ends[i] - 1)]
  IN SelectSeq(lines, LAMBDA l : LineMatches(re, l))
-----------------------------------------------------------------------------
(***************************************************************************)
(* Properties                                                               *)
(***************************************************************************)
\* The buffer has room for the zero grep() writes behind it, and what is left in
\* it is the beginning of a line.
TypeOK == Len(buf) < BUFSIZE /\ LineEnds(buf) = {}

\* The backtracking of matchhere() and matchstar() finds exactly the lines the
\* pattern means.
MatcherCorrect == input = all /\ LineEnds(all) = {} => match(re, all) = LineMatches(re, all)

\* grep() writes the lines that match, once and in order, wherever read() stops;
\* except that it drops the part of a line that fills what was read.
GrepWritesMatches == ~dropped => out \o MatchingLines(buf \o input) = MatchingLines(all)
==============================================================================
