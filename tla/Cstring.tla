------------------------------- MODULE Cstring -------------------------------
(***************************************************************************)
(* The byte and string functions of the kernel (string.c) and of user       *)
(* programs (ulib.c), and the conversion of numbers (printint(), atoi()).   *)
(* A behaviour is one call on some contents of memory.  The loops that copy *)
(* go byte by byte, because source and destination may overlap.             *)
(***************************************************************************)
EXTENDS Integers, Sequences, FiniteSets, FiniteSetsExt, SequencesExt

CONSTANTS
  SIZE,    \* bytes of memory
  BYTE,    \* values of a byte (256)
  WIDTH,   \* values of an int (2^32)
  Bases    \* bases printint() is called with

VARIABLES
  mem,     \* memory
  call,    \* the function called, and its arguments
  old,     \* memory before the call
  ret      \* what was returned: a number, or the digits printed

vars == <<mem, call, old, ret>>

Addr == 0 .. SIZE - 1
None == [f |-> "none", d |-> 0, s |-> 0, n |-> 0]

\* Bytes k from src go to dst, one after the other in the order ks.
Copied(m, d, s, ks) == FoldLeft(LAMBDA a, k : [a EXCEPT ![d + k] = a[s + k]], m, ks)

Upwards(n) == [k \in 1 .. n |-> k - 1]
Downwards(n) == [k \in 1 .. n |-> n - k]

\* The order in which the kernel's memmove() copies
MoveOrder(d, s, n) == IF s < d /\ s + n > d THEN Downwards(n) ELSE Upwards(n)

\* memset() writes words if it can; a word repeats the byte.
memset(m, d, c, n) ==
  LET word == d % 4 = 0 /\ n % 4 = 0
      size == IF word THEN n \div 4 ELSE n
  IN [a \in Addr |-> IF d <= a /\ a < d + size * (IF word THEN 4 ELSE 1) THEN c % BYTE ELSE m[a]]

HasNul(m, s) == \E k \in s .. SIZE - 1 : m[k] = 0
strlen(m, s) == Min({k \in 0 .. SIZE - 1 - s : m[s + k] = 0})

\* The second loop of strncpy()
Pad(m, d, from, n) == [a \in Addr |-> IF d + from <= a /\ a < d + n THEN 0 ELSE m[a]]

\* The loops copy the zero too, if n allows.
strncpy(m, d, s, n) ==
  LET k == Min({n, strlen(m, s) + 1})
  IN Pad(Copied(m, d, s, Upwards(k)), d, k, n)

\* How many bytes safestrcpy() copies, the zero of the source included if there
\* is room, before it writes a zero of its own
Room(m, s, n) == Min({n - 1, strlen(m, s) + 1})

safestrcpy(m, d, s, n) ==
  IF n <= 0 THEN m
  ELSE LET k == Room(m, s, n) IN [Copied(m, d, s, Upwards(k)) EXCEPT ![d + k] = 0]

\* The loop of strncmp() and strcmp() stops at this distance.
Stop(m, p, q, n) == Min({n} \cup {k \in 0 .. n : p + k < SIZE /\ q + k < SIZE
                                              /\ (m[p + k] = 0 \/ m[p + k] # m[q + k])})

strncmp(m, p, q, n) == LET k == Stop(m, p, q, n) IN IF k = n THEN 0 ELSE m[p + k] - m[q + k]

\* The digits of x, the last first
RECURSIVE Digits(_, _)
Digits(x, base) ==
  <<x % base>> \o IF x \div base = 0 THEN <<>> ELSE Digits(x \div base, base)

\* The value of a word as an int
Signed(x) == IF x >= WIDTH \div 2 THEN x - WIDTH ELSE x

\* x = -xx wraps for the smallest int and is right as an unsigned value.
Magnitude(x, sgn) == IF sgn /\ Signed(x) < 0 THEN (0 - x) % WIDTH ELSE x

\* What is printed: "-" or nothing, and the digits
printint(x, base, sgn) ==
  [neg |-> sgn /\ Signed(x) < 0, digits |-> Reverse(Digits(Magnitude(x, sgn), base))]

atoi(ds) == FoldLeft(LAMBDA n, c : (n * 10 + c) % WIDTH, 0, ds)
-----------------------------------------------------------------------------
Init ==
  /\ mem \in [Addr -> 0 .. BYTE - 1] /\ old = mem
  /\ call = None /\ ret = [neg |-> FALSE, digits |-> <<>>]

Made(f, d, s, n) == call' = [f |-> f, d |-> d, s |-> s, n |-> n] /\ old' = mem

\* A call that writes memory.  Its arguments name bytes that are there.
Writes(d, s, n) ==
  /\ d + n <= SIZE
  /\ \/ s + n <= SIZE /\ Made("memmove", d, s, n) /\ mem' = Copied(mem, d, s, MoveOrder(d, s, n))
     \/ s + n <= SIZE /\ Made("umemmove", d, s, n) /\ mem' = Copied(mem, d, s, Upwards(n))
     \/ Made("memset", d, s, n) /\ mem' = memset(mem, d, s, n)
     \/ /\ HasNul(mem, s) /\ (d + n <= s \/ s + strlen(mem, s) < d)
        /\ \/ Made("strncpy", d, s, n) /\ mem' = strncpy(mem, d, s, n)
           \/ Made("safestrcpy", d, s, n) /\ mem' = safestrcpy(mem, d, s, n)
  /\ UNCHANGED ret

Compares(p, q, n) ==
  /\ HasNul(mem, p) /\ HasNul(mem, q)
  /\ Made("strncmp", p, q, n)
  /\ ret' = [neg |-> strncmp(mem, p, q, n) < 0,
             digits |-> IF strncmp(mem, p, q, n) = 0 THEN <<>> ELSE <<1>>]
  /\ UNCHANGED mem

Prints(x, base, sgn) ==
  /\ Made(IF sgn THEN "signed" ELSE "unsigned", x, base, 0)
  /\ ret' = printint(x, base, sgn)
  /\ UNCHANGED mem

Next ==
  /\ call = None
  /\ \/ \E d, s \in Addr, n \in 0 .. SIZE : Writes(d, s, n) \/ Compares(d, s, n)
     \/ mem = [a \in Addr |-> 0] /\ \E x \in 0 .. WIDTH - 1, base \in Bases, sgn \in BOOLEAN : Prints(x, base, sgn)

Spec == Init /\ [][Next]_vars
-----------------------------------------------------------------------------
(***************************************************************************)
(* Properties                                                               *)
(***************************************************************************)
\* Memory holds bytes.
TypeOK == mem \in [Addr -> 0 .. BYTE - 1]

To(a) == call.d <= a /\ a < call.d + call.n
Str(m, s) == SubSeq([k \in 1 .. SIZE |-> m[k - 1]], s + 1, s + strlen(m, s))
Cut(t, n) == SubSeq(t, 1, Min({n, Len(t)}))

\* memmove() leaves at its destination what was at its source, even if they
\* overlap.  The one of ulib.c does so if it does not move upwards onto itself.
MovesExact ==
  call.f = "memmove" \/ (call.f = "umemmove" /\ ~(call.s < call.d /\ call.d < call.s + call.n)) =>
    \A a \in Addr : mem[a] = IF To(a) THEN old[call.s + (a - call.d)] ELSE old[a]

\* strncpy() and memset() write n bytes and no other; the copy is filled up with
\* zeroes.  safestrcpy() copies as much as fits, and always ends it.
StringsCopied ==
  LET t == Str(old, call.s) IN
  /\ call.f \in {"strncpy", "safestrcpy", "memset"} => \A a \in Addr : ~To(a) => mem[a] = old[a]
  /\ call.f = "strncpy" =>
       \A a \in Addr : To(a) => mem[a] = IF a - call.d < Len(t) THEN t[a - call.d + 1] ELSE 0
  /\ call.f = "safestrcpy" /\ call.n > 0 =>
       HasNul(mem, call.d) /\ Str(mem, call.d) = Cut(t, call.n - 1)
  /\ call.f = "memset" => \A a \in Addr : To(a) => mem[a] = call.s % BYTE

\* The one is a proper beginning of the other, or smaller where they differ.
Before(t, u) ==
  \E k \in 0 .. Len(u) - 1 : /\ k <= Len(t) /\ SubSeq(t, 1, k) = SubSeq(u, 1, k)
                             /\ k = Len(t) \/ t[k + 1] < u[k + 1]

\* strncmp() orders strings by their first n bytes.
ComparesInOrder ==
  call.f = "strncmp" =>
    LET t == Cut(Str(mem, call.d), call.n)
        u == Cut(Str(mem, call.s), call.n)
    IN ret.neg = Before(t, u) /\ (ret.digits = <<>>) = (t = u)

\* printint() prints the number, the smallest int included, without zeroes in
\* front; atoi() reads it back.
NumbersPrinted ==
  call.f \in {"signed", "unsigned"} =>
    LET v == FoldLeft(LAMBDA n, c : n * call.s + c, 0, ret.digits)
    IN /\ (IF ret.neg THEN -v ELSE v) = (IF call.f = "signed" THEN Signed(call.d) ELSE call.d)
       /\ Len(ret.digits) > 1 => Head(ret.digits) # 0
       /\ call.s = 10 => atoi(ret.digits) = v
==============================================================================
