------------------------------- MODULE Umalloc --------------------------------
(***************************************************************************)
(* The allocator of user programs (umalloc.c).  Memory is counted in        *)
(* headers of UNIT bytes; a header is known by its address, and base, the   *)
(* empty block the ring of free blocks starts from, lies below the heap.    *)
(***************************************************************************)
EXTENDS Integers, FiniteSets, FiniteSetsExt

CONSTANTS
  UNIT, WIDTH,   \* sizeof(Header), and 2^32, where a uint wraps
  MORE,          \* the least morecore() asks for: 4096 headers
  HEAP,          \* where sbrk() fails; below half of WIDTH, as KERNBASE is
  Requests       \* what the program asks for, in bytes

VARIABLES
  ring,    \* the free blocks and base: address -> [size, ptr]
  freep,   \* 0 until the first malloc(), which makes it base
  live,    \* the blocks the program has: address -> [size, asked]
  brk, owned,
  wrapped  \* the request whose size morecore() could not pass to sbrk(), or 0

vars == <<ring, freep, live, brk, owned, wrapped>>

Base == 1
Start == 3
Span(a, n) == a .. a + n - 1

Init ==
  /\ ring = [a \in {Base} |-> [size |-> 0, ptr |-> Base]]
  /\ freep = 0
  /\ live = [a \in {} |-> [size |-> 0, asked |-> 0]]
  /\ brk = Start /\ owned = {} /\ wrapped = 0

TypeOK ==
  /\ freep \in {0} \cup DOMAIN ring
  /\ \A a \in DOMAIN ring : ring[a].ptr \in DOMAIN ring /\ ring[a].size \in 0 .. HEAP
  /\ owned \subseteq Start .. brk - 1
  /\ wrapped \in {0} \cup Requests

\* The i-th block after `from' on the ring f
After(f, from, i) ==
  LET nth[j \in 0 .. i] == IF j = 0 THEN from ELSE f[nth[j - 1]].ptr IN nth[i]

Put(f, a, b) == [x \in DOMAIN f \cup {a} |-> IF x = a THEN b ELSE f[x]]
Drop(f, a) == [x \in DOMAIN f \ {a} |-> f[x]]
-----------------------------------------------------------------------------
(***************************************************************************)
(* free(), on the ring f with the free pointer fp: the place between two    *)
(* blocks, or at the end that wraps, then both neighbours joined            *)
(***************************************************************************)
Place(f, fp, bp) ==
  LET ok(p) == \/ bp > p /\ bp < f[p].ptr
               \/ p >= f[p].ptr /\ (bp > p \/ bp < f[p].ptr)
  IN  After(f, fp, Min({i \in 0 .. Cardinality(DOMAIN f) : ok(After(f, fp, i))}))

JoinUpperOnly(f, p, bp) == [f EXCEPT ![p].ptr = bp]

JoinLower(f, p, bp) ==
  IF p + f[p].size = bp
  THEN Drop([f EXCEPT ![p] = [size |-> @.size + f[bp].size, ptr |-> f[bp].ptr]], bp)
  ELSE [f EXCEPT ![p].ptr = bp]

JoinUpper(f, p, bp, n) ==
  LET q == f[p].ptr
  IN  IF bp + n = q THEN Put(Drop(f, q), bp, [size |-> n + f[q].size, ptr |-> f[q].ptr])
      ELSE Put(f, bp, [size |-> n, ptr |-> q])

Freed(f, fp, bp, n) == LET p == Place(f, fp, bp) IN JoinLower(JoinUpper(f, p, bp, n), p, bp)

free(bp) ==
  /\ bp \in DOMAIN live
  /\ ring' = Freed(ring, freep, bp, live[bp].size)
  /\ freep' = Place(ring, freep, bp)
  /\ live' = Drop(live, bp)
  /\ UNCHANGED <<brk, owned, wrapped>>
-----------------------------------------------------------------------------
(***************************************************************************)
(* malloc(): the first block after freep that is large enough, and its end  *)
(* for the program; morecore() and another round when there is none         *)
(***************************************************************************)
Units(nbytes) == ((nbytes + UNIT - 1) % WIDTH) \div UNIT + 1

Fits(f, fp, n) == {i \in 1 .. Cardinality(DOMAIN f) : f[After(f, fp, i)].size >= n}

Carved(f, prevp, p, n) ==
  IF f[p].size = n THEN Drop([f EXCEPT ![prevp].ptr = f[p].ptr], p)
  ELSE [f EXCEPT ![p].size = @ - n]

\* What is left when the block is taken from the ring f
Take(f, fp, n, nbytes) ==
  LET i == Min(Fits(f, fp, n))
      prevp == After(f, fp, i - 1)
      p == After(f, fp, i)
  IN  /\ ring' = Carved(f, prevp, p, n)
      /\ freep' = prevp
      /\ live' = Put(live, p + f[p].size - n, [size |-> n, asked |-> nbytes])

\* nu * sizeof(Header) as a uint, and as the int that sbrk() takes, in headers
Amount(nu) ==
  LET bytes == (nu * UNIT) % WIDTH
  IN  (IF bytes < WIDTH \div 2 THEN bytes ELSE bytes - WIDTH) \div UNIT

\* growproc(): the new size, or 0 when it fails.  A process cannot give back more
\* than it has: sz + n wraps, and deallocuvm() leaves the size as it was.
Resized(amount) ==
  CASE amount > 0 /\ brk + amount > HEAP -> 0
    [] brk + amount < 0 -> brk
    [] OTHER -> brk + amount

morecore(f, fp, n, nbytes) ==
  LET nu == Max({n, MORE})
      amount == Amount(nu)
      to == Resized(amount)
  IN  /\ IF to = 0
         THEN ring' = f /\ freep' = fp /\ UNCHANGED <<live, brk>>   \* malloc() returns 0
         ELSE Take(Freed(f, fp, brk, nu), Place(f, fp, brk), n, nbytes) /\ brk' = to
      /\ owned' = CASE amount < 0 /\ to < brk -> {a \in owned : a < to}
                    [] to > brk -> owned \cup Span(brk, amount)
                    [] OTHER -> owned
      /\ wrapped' = IF amount = nu THEN 0 ELSE nbytes

malloc(nbytes) ==
  LET n == Units(nbytes)
      fp == IF freep = 0 THEN Base ELSE freep
  IN  IF Fits(ring, fp, n) # {}
      THEN Take(ring, fp, n, nbytes) /\ UNCHANGED <<brk, owned, wrapped>>
      ELSE morecore(ring, fp, n, nbytes)

\* The program may grow its memory itself.
sbrk == brk < HEAP /\ brk' = brk + 1 /\ UNCHANGED <<ring, freep, live, owned, wrapped>>

\* What a program does with a block that has no memory is not followed.
Next ==
  /\ wrapped = 0
  /\ (\E n \in Requests : malloc(n)) \/ (\E a \in DOMAIN live : free(a)) \/ sbrk

Spec == Init /\ [][Next]_vars
-----------------------------------------------------------------------------
(***************************************************************************)
(* Properties                                                               *)
(***************************************************************************)
Blocks == [a \in DOMAIN ring \cup DOMAIN live |->
             IF a \in DOMAIN live THEN Span(a, live[a].size) ELSE Span(a, ring[a].size)]

\* Every unit malloc() has had from sbrk() is in exactly one block, one of the
\* program's or a free one: none is lost, and none is given out twice.
HeapPartitioned ==
  wrapped = 0 =>
  /\ DOMAIN ring \cap DOMAIN live = {}
  /\ UNION {Blocks[a] : a \in DOMAIN Blocks} = owned
  /\ \A a, b \in DOMAIN Blocks : a # b => Blocks[a] \cap Blocks[b] = {}

\* The ring goes through all the free blocks once, upwards from base, so the
\* search of free() ends; and no two neighbours are left unjoined.
RingSorted ==
  wrapped = 0 =>
  \A a \in DOMAIN ring :
    LET above == {b \in DOMAIN ring : b > a}
    IN  /\ ring[a].ptr = (IF above = {} THEN Base ELSE Min(above))
        /\ a + ring[a].size \notin above

\* A block has room for the bytes that were asked for, unless the rounding in
\* malloc() wraps.
RequestFits ==
  \A a \in DOMAIN live : LET l == live[a] IN
    l.asked + UNIT - 1 < WIDTH => (l.size - 1) * UNIT >= l.asked

\* morecore() takes a block that sbrk() has not given it, or gives memory away,
\* only for a request within two headers of half the address space, or above.
OnlyHugeRequestsWrap == wrapped # 0 => wrapped > WIDTH \div 2 - 2 * UNIT
==============================================================================
