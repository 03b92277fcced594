---------------------------- MODULE LineDiscipline ----------------------------
(***************************************************************************)
(* What the console promises to those who read from it: a line can be       *)
(* edited until it is finished, finished input is delivered once and in     *)
(* order, and a read gets at most one line, or the end of file.             *)
(***************************************************************************)
EXTENDS Naturals, Sequences, SequencesExt

CONSTANTS Proc, Letter, Capacity

VARIABLES
  ready,   \* finished input nobody has read
  line,    \* the line that is being typed
  got      \* what the current or last read of each process has received

vars == <<ready, line, got>>

Init == ready = <<>> /\ line = <<>> /\ got = [p \in Proc |-> <<>>]

Room == Len(ready) + Len(line) < Capacity

Type(c) == /\ Room /\ line' = Append(line, c) /\ UNCHANGED <<ready, got>>
Finish(c) == /\ Room /\ ready' = ready \o Append(line, c) /\ line' = <<>> /\ UNCHANGED got
Erase == /\ line # <<>> /\ line' \in {Front(line), <<>>} /\ UNCHANGED <<ready, got>>

\* A line ends what a read receives.
OneLine(s) == \A i \in 1 .. Len(s) : s[i] \in Letter \/ (s[i] = "newline" /\ i = Len(s))

Call(p) == got' = [got EXCEPT ![p] = <<>>] /\ UNCHANGED <<ready, line>>

Read(p) ==
  \E k \in 1 .. Len(ready) :
    /\ got' = [got EXCEPT ![p] = @ \o SubSeq(ready, 1, k)] /\ OneLine(got'[p])
    /\ ready' = SubSeq(ready, k + 1, Len(ready))
    /\ UNCHANGED line

\* The end of file is given to a read that has received nothing.
EndOfFile(p) ==
  /\ ready # <<>> /\ Head(ready) = "eof" /\ got[p] = <<>>
  /\ ready' = Tail(ready)
  /\ UNCHANGED <<line, got>>

Next ==
  \/ \E c \in Letter : Type(c)
  \/ \E c \in Letter \cup {"newline", "eof"} : Finish(c)
  \/ Erase
  \/ \E p \in Proc : Call(p) \/ Read(p) \/ EndOfFile(p)

Spec == Init /\ [][Next]_vars
==============================================================================
