--------------------------------- MODULE Args ---------------------------------
(***************************************************************************)
(* How a system call gets its arguments (syscall.c): words from the user    *)
(* stack, blocks of memory and strings, all tested against the size of the  *)
(* process.  Addresses and ints are words of the machine, and sums wrap.    *)
(***************************************************************************)
EXTENDS Integers

CONSTANTS
  WORD,       \* values of a word (2^32)
  KERNBASE,   \* where user memory ends at the latest (2^31)
  NARGS       \* bound: arguments of a system call

Word == 0 .. WORD - 1

VARIABLES
  sz,         \* size of the process
  esp,        \* its stack pointer
  nul,        \* the addresses that hold a zero byte
  got         \* the bytes the kernel was told it may use

vars == <<sz, esp, nul, got>>

Nothing == [from |-> 0, size |-> 0, ok |-> FALSE]

\* The word as an int
Int32(x) == IF x >= WORD \div 2 THEN x - WORD ELSE x

\* fetchint(): the test that a word at a is in the process
FetchTest(a) == a < sz /\ (a + 4) % WORD <= sz

\* The address of the nth argument
ArgAddr(n) == (esp + 4 + 4 * n) % WORD

\* argptr(): the test that size bytes at i are in the process
BlockTest(i, size) == Int32(size) >= 0 /\ i < sz /\ (i + size) % WORD <= sz

Init ==
  /\ sz \in 0 .. KERNBASE /\ esp \in Word
  /\ nul \in {{}} \cup {{a} : a \in {0, KERNBASE - 1}}
  /\ got = Nothing

Got(a, n) == got' = [from |-> a, size |-> n, ok |-> TRUE] /\ UNCHANGED <<sz, esp, nul>>

argint(n) == FetchTest(ArgAddr(n)) /\ Got(ArgAddr(n), 4)

\* argptr(), whose argument word is i
argptr(n, i, size) == FetchTest(ArgAddr(n)) /\ BlockTest(i, size) /\ Got(i, size)

\* fetchstr(): the loop stops at a zero byte below the end of the process.
StringEnds(a) == {e \in a .. sz - 1 : e \in nul}

\* argstr(), whose argument word is a
argstr(n, a) ==
  /\ FetchTest(ArgAddr(n)) /\ a < sz
  /\ \E e \in StringEnds(a) : (\A b \in StringEnds(a) : e <= b) /\ Got(a, e - a + 1)

Next ==
  /\ got = Nothing
  /\ \E n \in 0 .. NARGS - 1 :
       \/ argint(n)
       \/ \E i \in Word : argstr(n, i) \/ \E size \in Word : argptr(n, i, size)

Spec == Init /\ [][Next]_vars
-----------------------------------------------------------------------------
\* The process and what it asked for keep their types; the length that the kernel
\* was told fits a word.
TypeOK == sz \in 0 .. KERNBASE /\ esp \in Word /\ got \in [from : Word, size : Word, ok : BOOLEAN]

\* What fetchint(), argptr() and fetchstr() accept lies inside the process,
\* although address plus length may wrap around.
ArgsInside == got.ok => got.from + got.size <= sz
==============================================================================
