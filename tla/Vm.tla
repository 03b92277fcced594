---------------------------------- MODULE Vm ----------------------------------
(***************************************************************************)
(* Physical pages (kalloc.c), address spaces (vm.c) and the calls that make *)
(* and free them: fork, exec, sbrk, exit, wait, and the thread calls of     *)
(* proc.c with thread_creator() of sthread.c.                               *)
(*                                                                          *)
(* Addresses are page numbers.  An address space is laid out by exec():     *)
(* text and data from 0, an inaccessible page, one page of stack, heap.     *)
(* A frame is a physical page that user addresses are mapped to; the pages  *)
(* of page tables and kernel stacks, which nothing ever shares, are only    *)
(* counted.  The steps are system calls: calls of different processes meet  *)
(* only in the free list and in the frames that threads share, and a call   *)
(* that runs out of pages gives back what it took.                          *)
(***************************************************************************)
EXTENDS Naturals, FiniteSets, FiniteSetsExt, Functions

CONSTANTS
  NPROC,
  NPAGE,    \* physical pages kinit1() and kinit2() put on the free list
  KPT,      \* page-table pages of the kernel part of an address space
  Texts,    \* sizes, in pages, of the programs exec() may load
  MaxHeap   \* bound: pages of heap of a process

VARIABLES
  free,      \* length of kmem.freelist
  dangling,  \* frames on the free list that somebody still maps
  proc,      \* ptable.proc
  lost,      \* history: pages no call can free any more, counted where they are lost
  short,     \* history: some getpage() has failed
  panicked

vars == <<free, dangling, proc, lost, short, panicked>>

Slot == 1 .. NPROC
InitProc == 1
MaxSize == Max(Texts) + 2 + MaxHeap
Frame == Slot \X (0 .. MaxSize) \X (1 .. NPROC + 1)
NoFrame == <<0, 0, 0>>

\* first, main: first_pid, and whether it is the process's own pid;
\* sp: the page of tf->esp; threaded: linkuvm() has linked the space;
\* call: how far thread_creator() is; at, hand: what its getpage() and its
\* detachpage() returned
Unused == [state |-> "unused", first |-> 0, main |-> FALSE, parent |-> 0,
           map |-> <<>>, sz |-> 0, sp |-> 0, threaded |-> FALSE,
           call |-> "none", at |-> 0, hand |-> NoFrame]

Used(ps) == {p \in Slot : ps[p].state # "unused"}
Live(p) == proc[p].state = "live"

\* The frames somebody maps, and the stacks on their way from detachpage() to
\* thread_create()
Hands(ps) == {ps[p].hand : p \in {q \in Used(ps) : ps[q].call = "detached"}}
InUse(ps) == Hands(ps) \cup UNION {Range(ps[p].map) : p \in Used(ps)}

TypeOK ==
  /\ free \in 0 .. NPAGE /\ lost \in 0 .. NPAGE /\ dangling \subseteq Frame
  /\ short \in BOOLEAN /\ panicked \in BOOLEAN
  /\ DOMAIN proc = Slot
  /\ \A p \in Used(proc) :
       /\ proc[p].state \in {"live", "zombie"} /\ proc[p].first \in Slot
       /\ Range(proc[p].map) \subseteq Frame
       /\ DOMAIN proc[p].map \subseteq 0 .. proc[p].sz
       /\ proc[p].sz \in 0 .. MaxSize /\ proc[p].sp < Max(Texts) + 2
       /\ proc[p].call \in {"none", "got", "detached"} /\ proc[p].at \in 0 .. MaxSize
       /\ proc[p].hand \in Frame \cup {NoFrame}
-----------------------------------------------------------------------------
(***************************************************************************)
(* kalloc.c and the building of address spaces                              *)
(***************************************************************************)

\* The frame a kalloc() gives to slot p for address a.  Which one does not
\* matter: it is named after the place it is first mapped at, by a name that
\* nobody uses.
NewFrame(p, a) ==
  <<p, a, Min({i \in 1 .. NPROC + 1 : <<p, a, i>> \notin InUse(proc)})>>

\* n new frames mapped from address 0 on
Mapped(p, n) == [a \in 0 .. n - 1 |-> NewFrame(p, a)]

\* setupkvm() takes the directory and the kernel's tables; the first user page
\* makes walkpgdir() take one more (all user addresses here share one table).
TableCount == 1 + KPT + 1

\* kalloc() and kfree() of a call that takes n pages and frees m others and
\* the frames fs, and leaves the process table ps
kmem(n, m, fs, ps) ==
  /\ proc' = ps
  /\ free' = free - n + m + Cardinality(fs)
  /\ dangling' = fs \cap InUse(ps)

\* userinit(), and initcode's exec() of /init
Init ==
  LET t == Min(Texts) IN
    /\ proc = [p \in Slot |->
                IF p = InitProc
                THEN [Unused EXCEPT !.state = "live", !.first = InitProc, !.main = TRUE,
                        !.map = [a \in 0 .. t + 1 |-> <<InitProc, a, 1>>], !.sz = t + 2, !.sp = t + 1]
                ELSE Unused]
    /\ free = NPAGE - (1 + TableCount + t + 2)
    /\ dangling = {} /\ lost = 0 /\ short = FALSE /\ panicked = FALSE

\* Bound: nothing more happens once a frame dangles, because the contents of a
\* frame with two owners are not modelled; a panic stops the kernel.
Sound == dangling = {} /\ ~panicked

\* A process that has given its stack page back faults before its next call.
HasStack(p) == proc[p].sp \in DOMAIN proc[p].map

Calls(p) == Live(p) /\ proc[p].call = "none" /\ HasStack(p) /\ Sound

\* Bounds: programs ask for no more memory once a getpage() has failed; and while
\* there is a process without its stack, the others only exit, wait and join.
AllHaveStacks == \A p \in Used(proc) : HasStack(p)
Asks(p) == Calls(p) /\ p # InitProc /\ ~short /\ AllHaveStacks

\* One of the first n pages is missing: a detachpage() that followed a failed
\* getpage() took it.
Hole(p, n) == ~(0 .. n - 1 \subseteq DOMAIN proc[p].map)

FreeSlots == {p \in Slot : proc[p].state = "unused"}

\* A pid that no process has as its first_pid
NewPid == Min({n \in Slot : \A p \in Used(proc) : proc[p].first # n})
-----------------------------------------------------------------------------
(***************************************************************************)
(* fork(), growproc(), exec()                                               *)
(***************************************************************************)
copyuvm(p, q) == Mapped(q, proc[p].sz)

\* If allocproc() or copyuvm() fails, what was taken is freed again.  A hole is
\* met once allocproc() and setupkvm() have their pages.
fork(p) ==
  /\ Calls(p) /\ AllHaveStacks /\ FreeSlots # {}
  /\ LET n == IF Hole(p, proc[p].sz) THEN TableCount ELSE 1 + TableCount + proc[p].sz IN
       /\ free >= n
       /\ panicked' = Hole(p, proc[p].sz)
       /\ IF Hole(p, proc[p].sz) THEN UNCHANGED <<free, dangling, proc>> ELSE
          kmem(n, 0, {}, [proc EXCEPT ![Min(FreeSlots)] =
                            [Unused EXCEPT !.state = "live", !.first = NewPid, !.main = TRUE,
                               !.parent = p, !.map = copyuvm(p, Min(FreeSlots)),
                               !.sz = proc[p].sz, !.sp = proc[p].sp]])
  /\ UNCHANGED <<lost, short>>

\* mappages() of a new frame at the end of the process, and unmapping of one page
MapAt(p, a) == [b \in DOMAIN proc[p].map \cup {a} |->
                 IF b = a THEN NewFrame(p, a) ELSE proc[p].map[b]]
Unmap(p, a) == Restrict(proc[p].map, DOMAIN proc[p].map \ {a})

\* deallocuvm() from page `to' on: the pages that stay, and the frames it frees
Kept(p, to) == Restrict(proc[p].map, {a \in DOMAIN proc[p].map : a < to})
deallocuvm(p, to) == {proc[p].map[a] : a \in {b \in DOMAIN proc[p].map : b >= to}}

\* sbrk() of one page more, or of any number of pages less, the stack, the
\* inaccessible page and the text included.  A size of 0 is taken for an error
\* of deallocuvm(): the pages are gone, and sz stays.
growproc(p, to) ==
  /\ Asks(p)
  /\ LET sz == proc[p].sz IN
       \/ /\ to = sz + 1 /\ free > 0 /\ sz < proc[p].sp + 1 + MaxHeap
          /\ kmem(1, 0, {}, [proc EXCEPT ![p].map = MapAt(p, sz), ![p].sz = to])
       \/ /\ to < sz
          /\ kmem(0, 0, deallocuvm(p, to),
                  [proc EXCEPT ![p].map = Kept(p, to), ![p].sz = IF to = 0 THEN sz ELSE to])
  /\ UNCHANGED <<lost, short, panicked>>

\* The frames freevm() frees, besides the page tables: all the user part
freevm(p) == Range(proc[p].map)

\* The new space is complete before the old one is freed; a failed exec()
\* frees what it built and leaves the old one.
exec(p, t) ==
  /\ Asks(p)
  /\ free >= TableCount + t + 2
  /\ kmem(TableCount + t + 2, TableCount, freevm(p),
          [proc EXCEPT ![p].map = Mapped(p, t + 2), ![p].sz = t + 2, ![p].sp = t + 1,
                       ![p].threaded = FALSE])
  /\ UNCHANGED <<lost, short, panicked>>
-----------------------------------------------------------------------------
(***************************************************************************)
(* Threads: getpage(), detachpage(), thread_create(), in the order in which *)
(* thread_creator() calls them without looking at what they return          *)
(***************************************************************************)
getpage(p) ==
  /\ Asks(p)
  /\ IF free = 0
     THEN /\ proc' = [proc EXCEPT ![p].call = "got", ![p].at = 0]
          /\ short' = TRUE /\ UNCHANGED <<free, dangling>>
     ELSE /\ kmem(1, 0, {}, [proc EXCEPT ![p].call = "got", ![p].at = proc[p].sz,
                                          ![p].map = MapAt(p, proc[p].sz)])
          /\ UNCHANGED short
  /\ UNCHANGED <<lost, panicked>>

\* unmappages() of the address getpage() returned, which is 0 when it failed
detachpage(p) ==
  /\ Live(p) /\ proc[p].call = "got" /\ Sound
  /\ panicked' = (proc[p].at \notin DOMAIN proc[p].map)
  /\ IF panicked' THEN UNCHANGED proc ELSE
     proc' = [proc EXCEPT ![p].call = "detached", ![p].at = 0,
                          ![p].hand = proc[p].map[proc[p].at],
                          ![p].map = Unmap(p, proc[p].at)]
  /\ UNCHANGED <<free, dangling, lost, short>>

\* linkuvm(): everything below the inaccessible page is shared with the
\* creator, the inaccessible page is new, the stack is the detached page.
linkuvm(p, q) ==
  [a \in 0 .. proc[p].sp |->
    IF a < proc[p].sp - 1 THEN proc[p].map[a]
    ELSE IF a = proc[p].sp - 1 THEN NewFrame(q, a) ELSE proc[p].hand]

\* freevm() of the half-built space, after the text was linked into it
linkuvmBad(p) == {proc[p].map[a] : a \in 0 .. proc[p].sp - 2}

thread_create(p) ==
  /\ Live(p) /\ proc[p].call = "detached" /\ Sound
  /\ LET back == [proc EXCEPT ![p].call = "none", ![p].hand = NoFrame]
         linked == [back EXCEPT ![p].threaded = TRUE]
     IN IF FreeSlots = {} \/ free < TableCount
        THEN kmem(0, 0, {}, back) /\ lost' = lost + 1 /\ UNCHANGED panicked
        ELSE IF Hole(p, proc[p].sp + 1)
        THEN panicked' = TRUE /\ UNCHANGED <<free, dangling, proc, lost>>
        ELSE IF free = TableCount
        THEN kmem(0, 0, {}, back) /\ lost' = lost + 1 /\ UNCHANGED panicked
        ELSE IF free = 1 + TableCount
        THEN kmem(0, 0, linkuvmBad(p), linked) /\ lost' = lost + 1 /\ UNCHANGED panicked
        ELSE /\ kmem(1 + TableCount + 1, 0, {},
                     [linked EXCEPT ![Min(FreeSlots)] =
                        [Unused EXCEPT !.state = "live", !.first = proc[p].first, !.parent = p,
                           !.map = linkuvm(p, Min(FreeSlots)), !.sz = proc[p].sp + 1, !.sp = proc[p].sp,
                           !.threaded = TRUE]])
             /\ UNCHANGED <<lost, panicked>>
  /\ UNCHANGED short
-----------------------------------------------------------------------------
(***************************************************************************)
(* exit(), wait(), thread_join()                                            *)
(***************************************************************************)

\* A killed process exits wherever it is between two calls.
exit(p) ==
  /\ Live(p) /\ p # InitProc /\ Sound
  /\ proc' = [q \in Slot |->
               IF q = p THEN [proc[p] EXCEPT !.state = "zombie", !.call = "none", !.at = 0,
                                              !.hand = NoFrame]
               ELSE IF proc[q].parent = p THEN [proc[q] EXCEPT !.parent = InitProc]
               ELSE proc[q]]
  /\ lost' = lost + (IF proc[p].call = "detached" THEN 1 ELSE 0)
  /\ UNCHANGED <<free, dangling, short, panicked>>

\* diagwait() reaps the first zombie child that is not a thread.
wait(p) ==
  /\ Calls(p)
  /\ LET kids == {q \in Slot : proc[q].main /\ proc[q].parent = p /\ proc[q].state = "zombie"}
         q == Min(kids)
     IN /\ kids # {}
        /\ kmem(0, 1 + TableCount, freevm(q), [proc EXCEPT ![q] = Unused])
  /\ UNCHANGED <<lost, short, panicked>>

freethreadAll(p, q) == Range(proc[q].map)

\* The frames freethread() frees: those of the thread from the page below the
\* JOINER's stack pointer on.
freethread(p, q) ==
  {proc[q].map[a] : a \in {b \in DOMAIN proc[q].map : b >= proc[p].sp - 1}}

\* freethread()'s loop over the directory starts at an index that is an
\* address, so that the directory is freed and no page-table page is.
thread_join(p, q) ==
  /\ Calls(p) /\ q # p
  /\ proc[q].first = proc[p].first /\ ~proc[q].main /\ proc[q].state = "zombie"
  /\ kmem(0, 2, freethread(p, q), [proc EXCEPT ![q] = Unused])
  /\ lost' = lost + TableCount - 1
  /\ UNCHANGED <<short, panicked>>

Next ==
  \E p \in Slot :
    \/ fork(p) \/ (\E to \in 0 .. MaxSize : growproc(p, to)) \/ (\E t \in Texts : exec(p, t))
    \/ getpage(p) \/ detachpage(p) \/ thread_create(p)
    \/ exit(p) \/ wait(p) \/ (\E q \in Slot : thread_join(p, q))

Spec == Init /\ [][Next]_vars
-----------------------------------------------------------------------------
(***************************************************************************)
(* Properties                                                               *)
(***************************************************************************)

\* The frames of p that linkuvm() may have shared: those below its
\* inaccessible page
SharedText(p) ==
  IF proc[p].threaded
  THEN {proc[p].map[a] : a \in {b \in DOMAIN proc[p].map : b < proc[p].sp - 1}}
  ELSE {}

\* A frame of an address space is not on the free list and in no other space,
\* unless it is text that the process shares with its threads: no sequence of
\* fork, exec, sbrk, exit, wait and thread calls gives two processes the same
\* stack or heap, or takes such a frame away from its owner; what linkuvm() shares
\* can be freed under a thread, and nothing else.  (A failed getpage() makes
\* thread_creator() give page 0 of its program away.)
PagesPrivate ==
  short \/ \A p \in Used(proc) :
    LET others == Hands(proc) \cup UNION {Range(proc[q].map) : q \in Used(proc) \ {p}}
    IN Range(proc[p].map) \cap (dangling \cup others) \subseteq SharedText(p)

\* Every page is free or belongs to somebody, except for the page tables of
\* joined threads and the stack pages of threads that were never created:
\* no other call of the kernel leaks memory, whichever allocation fails.
PagesAccounted ==
  short \/ NPAGE = free + lost + Cardinality(InUse(proc) \ dangling)
                    + (1 + TableCount) * Cardinality(Used(proc))

\* What a step does if it is none of exec(), wait() and a failing linkuvm()
KeepOthersPages ==
  dangling' # {} => \A p \in Slot :
    /\ ~(fork(p) \/ getpage(p) \/ detachpage(p) \/ \E q \in Slot : thread_join(p, q))
    /\ (\E to \in 0 .. MaxSize : growproc(p, to)) => dangling' \subseteq SharedText(p)

\* Only an exec(), a wait(), a failing thread_create() or an sbrk() that cuts into
\* the text can free a page that another thread still uses; thread_join(), fork()
\* and an sbrk() of the heap, the stack or a process without threads never do.
OthersKeepTheirPages == [][KeepOthersPages]_vars

\* The kernel does not meet a hole in a process's memory (the panics of
\* linkuvm() and copyuvm()), unless a getpage() failed and thread_creator()
\* went on to detach page 0 of its program.
NoPanicElsewhere == panicked => short

\* linkuvm(), copyuvm() and unmappages() never find a page missing that their
\* panics take for granted.
NoPanic == ~panicked
==============================================================================
