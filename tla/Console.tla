------------------------------- MODULE Console --------------------------------
(***************************************************************************)
(* The console (console.c): keyboard input edited in a ring buffer by the   *)
(* interrupt handler, processes that read it, and the cursor of the screen. *)
(* cons.lock makes a handler or a call one step, except where a reader      *)
(* tests that there is no input and goes to sleep.                          *)
(***************************************************************************)
EXTENDS Integers, Sequences, FiniteSets, FiniteSetsExt

CONSTANTS
  Proc, Letter,
  INPUT_BUF, WIDTH,   \* size of the ring; the indices count modulo WIDTH
  COLS, ROWS,         \* of the screen: 80 and 25
  Sizes               \* how many bytes a read asks for

VARIABLES buf, r, w, e, pos, call, killed

vars == <<buf, r, w, e, pos, call, killed>>

Ends == {"newline", "eof"}
None == "none"

\* The bytes between two indices of the ring
Bytes(from, to) == [i \in 1 .. (to - from) % WIDTH |-> buf[(from + i - 1) % INPUT_BUF]]

TypeOK ==
  /\ buf \in [0 .. INPUT_BUF - 1 -> Letter \cup Ends \cup {None}]
  /\ {r, w, e} \subseteq 0 .. WIDTH - 1
  /\ (e - r) % WIDTH <= INPUT_BUF /\ (w - r) % WIDTH <= (e - r) % WIDTH
  /\ call \in [Proc -> [st : {"idle", "ready", "testing", "asleep"}, n : Nat, got : Seq(Letter \cup Ends)]]
  /\ killed \in [Proc -> BOOLEAN]

Init ==
  /\ buf = [i \in 0 .. INPUT_BUF - 1 |-> None]
  /\ r = 0 /\ w = 0 /\ e = 0
  /\ pos \in 0 .. COLS * ROWS - 1   \* where the BIOS has left it
  /\ call = [p \in Proc |-> [st |-> "idle", n |-> 0, got |-> <<>>]]
  /\ killed = [p \in Proc |-> FALSE]

\* A reader between its test and sleep() has cons.lock.
Unlocked == \A p \in Proc : call[p].st # "testing"

WakeupReaders ==
  [p \in Proc |-> [call[p] EXCEPT !.st = IF @ = "asleep" THEN "ready" ELSE @]]
-----------------------------------------------------------------------------
(***************************************************************************)
(* cgaputc(): the cursor, as a character, a newline or a backspace moves it *)
(***************************************************************************)
Scroll(x) == IF x \div COLS >= ROWS - 1 THEN x - COLS ELSE x

cgaputc(x, c) ==
  LET col == x % COLS
  IN  Scroll(IF c = "newline" THEN x + COLS - col
             ELSE IF c = "backspace" THEN Max({x - 1, 0}) ELSE x + 1)

\* k backspaces, one after the other
Backspaces(x, k) ==
  LET back[i \in 0 .. k] == IF i = 0 THEN x ELSE cgaputc(back[i - 1], "backspace") IN back[k]
-----------------------------------------------------------------------------
(***************************************************************************)
(* consoleintr(), for one character                                         *)
(***************************************************************************)
HasRoomOne(n) == n <= INPUT_BUF
HasRoom(n) == n < INPUT_BUF

Commits(c) == c \in Ends \/ (e + 1) % WIDTH = (r + INPUT_BUF) % WIDTH

typed(c) ==
  /\ Unlocked /\ HasRoom((e - r) % WIDTH)
  /\ buf' = [buf EXCEPT ![e % INPUT_BUF] = c]
  /\ e' = (e + 1) % WIDTH
  /\ pos' = cgaputc(pos, c)
  /\ IF Commits(c) THEN w' = e' /\ call' = WakeupReaders ELSE UNCHANGED <<w, call>>
  /\ UNCHANGED <<r, killed>>

\* Control-U goes back to the last newline, or to what is finished.
KillLength ==
  Max({k \in 0 .. (e - w) % WIDTH :
         \A i \in 1 .. k : buf[(e - i) % INPUT_BUF] # "newline"})

Editable == e # w

killline ==
  /\ Unlocked /\ Editable
  /\ e' = (e - KillLength) % WIDTH
  /\ pos' = Backspaces(pos, KillLength)
  /\ UNCHANGED <<buf, r, w, call, killed>>

erase ==
  /\ Unlocked /\ Editable
  /\ e' = (e - 1) % WIDTH
  /\ pos' = cgaputc(pos, "backspace")
  /\ UNCHANGED <<buf, r, w, call, killed>>

consoleintr == (\E c \in Letter \cup Ends : typed(c)) \/ killline \/ erase
-----------------------------------------------------------------------------
(***************************************************************************)
(* consoleread() and consolewrite()                                         *)
(***************************************************************************)
enter(p, n) ==
  /\ call[p].st = "idle" /\ ~killed[p]
  /\ call' = [call EXCEPT ![p] = [st |-> "ready", n |-> n, got |-> <<>>]]
  /\ UNCHANGED <<buf, r, w, e, pos, killed>>

\* How far the loop gets: to a newline, an end of file, all bytes asked for,
\* or the end of the input.
Reach(s, n) == Min({i \in 1 .. Len(s) : s[i] \in Ends} \cup {n, Len(s)})

\* The end of file is left in the ring by a read that has received something.
KeepsEof(m) == m > 0

consoleread(p) ==
  LET c == call[p]
      s == Bytes(r, w)
      k == Reach(s, c.n)
      eof == k > 0 /\ s[k] = "eof"
      m == IF eof THEN k - 1 ELSE k
      got == c.got \o SubSeq(s, 1, m)
      done == k > 0 /\ (s[k] \in Ends \/ m = c.n)
  IN  /\ Unlocked /\ c.st = "ready"
      /\ r' = (r + IF eof /\ KeepsEof(Len(got)) THEN m ELSE k) % WIDTH
      /\ call' = [call EXCEPT ![p] =
                    [st |-> IF done \/ killed[p] THEN "idle" ELSE "testing",
                     n |-> IF done \/ killed[p] THEN 0 ELSE c.n - m, got |-> got]]
      /\ UNCHANGED <<buf, w, e, pos, killed>>

sleep(p) ==
  /\ call[p].st = "testing"
  /\ call' = [call EXCEPT ![p].st = "asleep"]
  /\ UNCHANGED <<buf, r, w, e, pos, killed>>

\* kill() takes ptable.lock only.
kill(p) ==
  /\ ~killed[p] /\ call[p].st # "idle"
  /\ killed' = [killed EXCEPT ![p] = TRUE]
  /\ call' = [call EXCEPT ![p].st = IF @ = "asleep" THEN "ready" ELSE @]
  /\ UNCHANGED <<buf, r, w, e, pos>>

\* One character of a consolewrite()
consolewrite(c) ==
  /\ Unlocked
  /\ pos' = cgaputc(pos, c)
  /\ UNCHANGED <<buf, r, w, e, call, killed>>

Next ==
  \/ consoleintr
  \/ \E p \in Proc : (\E n \in Sizes : enter(p, n)) \/ consoleread(p) \/ sleep(p) \/ kill(p)
  \/ \E c \in {"char", "newline"} : consolewrite(c)

Spec == Init /\ [][Next]_vars
-----------------------------------------------------------------------------
(***************************************************************************)
(* Properties                                                               *)
(***************************************************************************)
Lines == INSTANCE LineDiscipline WITH
           Capacity <- INPUT_BUF, ready <- Bytes(r, w), line <- Bytes(w, e),
           got <- [p \in Proc |-> call[p].got]

DeliverStep == Lines!Next \/ UNCHANGED Lines!vars

\* The ring buffer, with its three wrapping indices, is a line discipline: only
\* the unfinished line can be edited, and every byte of a finished one reaches
\* exactly one reader, in order, whatever keys, readers and kills interleave.
ConsoleDelivers == Lines!Spec

\* A reader asleep has nothing to read: the wakeup of consoleintr() reaches
\* every reader that has found the input empty.
ReaderHasCause == \A p \in Proc : call[p].st = "asleep" => r = w

\* The cursor stays on the screen, so that cgaputc() neither panics nor writes
\* behind the screen's memory, wherever the BIOS has left it.
CursorOnScreen == pos \in 0 .. COLS * ROWS - 1
==============================================================================
