------------------------------- MODULE Bcache -------------------------------
(***************************************************************************)
(* The buffer cache (bio.c) over the IDE driver (ide.c).  A step is one     *)
(* critical section: of bcache.lock, of idelock, or the acquisition of a    *)
(* buffer's sleep lock (module SleepLock shows that it is a mutex).         *)
(* A block's data is one bit, which every modification flips.               *)
(***************************************************************************)
EXTENDS Integers, Sequences, FiniteSets, Functions

CONSTANTS
  Proc,       \* a kernel activity that holds one buffer at a time
  Block,      \* disk blocks
  NBUF,       \* number of buffers
  MaxPinned,  \* most buffers the log keeps B_DIRTY: fewer than NBUF, which param.h
              \* makes the same as LOGSIZE (see Log!SpaceSuffices)
  Nobody, NoBlock

ASSUME BcacheAssumption ==
  /\ NBUF \in Nat /\ MaxPinned \in Nat /\ IsFiniteSet(Proc)
  /\ Nobody \notin Proc /\ NoBlock \notin Block

VARIABLES
  buf,      \* bcache.buf: [block, refcnt, valid, dirty, data, holder]
  mru,      \* bcache.head: the buffers, most recently used first
  queue,    \* idequeue
  cmd,      \* the command the disk works on: external
  disk,     \* the disk's blocks: external
  pc, mine, \* where a process is, and its buffer (0: none)
  panicked, \* panic("bget: no buffers") or of iderw()
  content,  \* history: last data put in each block
  bad       \* history: blocks with an I/O error the driver did not report

vars == <<buf, mru, queue, cmd, disk, pc, mine, panicked, content, bad>>

Buf == 1 .. NBUF
NoCmd == [write |-> FALSE, block |-> NoBlock, data |-> 0, state |-> "none"]

TypeOK ==
  /\ buf \in [Buf -> [block : Block \cup {NoBlock}, refcnt : 0 .. Cardinality(Proc),
                      valid : BOOLEAN, dirty : BOOLEAN, data : {0, 1},
                      holder : Proc \cup {Nobody}]]
  /\ mru \in [Buf -> Buf] /\ Range(mru) = Buf
  /\ queue \in Seq(Buf)
  /\ cmd \in [write : BOOLEAN, block : Block \cup {NoBlock}, data : {0, 1},
              state : {"none", "busy", "ok", "error"}]
  /\ disk \in [Block -> {0, 1}] /\ content \in [Block -> {0, 1}] /\ bad \subseteq Block
  /\ pc \in [Proc -> {"out", "lock", "rw", "io", "woken", "hold", "put"}]
  /\ mine \in [Proc -> Buf \cup {0}]
  /\ panicked \in BOOLEAN

\* binit() and ideinit()
Init ==
  /\ buf = [b \in Buf |-> [block |-> NoBlock, refcnt |-> 0, valid |-> FALSE,
                           dirty |-> FALSE, data |-> 0, holder |-> Nobody]]
  /\ mru = [i \in Buf |-> NBUF + 1 - i]
  /\ queue = <<>> /\ cmd = NoCmd
  /\ disk = [k \in Block |-> 0] /\ content = disk /\ bad = {}
  /\ pc = [p \in Proc |-> "out"] /\ mine = [p \in Proc |-> 0]
  /\ panicked = FALSE

Goto(p, l) == pc' = [pc EXCEPT ![p] = l]
-----------------------------------------------------------------------------
(***************************************************************************)
(* bget(): under bcache.lock, find the block or recycle a buffer            *)
(***************************************************************************)
Cached(k) == {i \in Buf : buf[mru[i]].block = k}

RecyclableInvalid ==
  {i \in Buf : buf[mru[i]].refcnt = 0 /\ ~buf[mru[i]].dirty /\ ~buf[mru[i]].valid}

RecyclablePinned == {i \in Buf : buf[mru[i]].refcnt = 0}

\* Least recently used last; a B_DIRTY buffer is pinned by the log.
Recyclable == {i \in Buf : buf[mru[i]].refcnt = 0 /\ ~buf[mru[i]].dirty}

\* The loops over the list end at the first buffer they look for: forwards for a
\* block, backwards for a buffer to recycle.
Foremost(S) == {i \in S : \A j \in S : i <= j}
Hindmost(S) == {i \in S : \A j \in S : i >= j}

bgetHit(p, b) ==
  /\ buf' = [buf EXCEPT ![b].refcnt = @ + 1]
  /\ mine' = [mine EXCEPT ![p] = b]
  /\ Goto(p, "lock")
  /\ UNCHANGED panicked

\* A recycled buffer loses its flags; b->data is left as it was.
bgetRecycle(p, b, k) ==
  /\ buf' = [buf EXCEPT ![b].block = k, ![b].refcnt = 1, ![b].valid = FALSE,
                         ![b].dirty = FALSE]
  /\ mine' = [mine EXCEPT ![p] = b]
  /\ Goto(p, "lock")
  /\ UNCHANGED panicked

bget(p, k) ==
  /\ pc[p] = "out"
  /\ \/ \E i \in Foremost(Cached(k)) : bgetHit(p, mru[i])
     \/ Cached(k) = {} /\ \E i \in Hindmost(Recyclable) : bgetRecycle(p, mru[i], k)
     \/ Cached(k) \cup Recyclable = {} /\ panicked' = TRUE /\ UNCHANGED <<buf, mine, pc>>
  /\ UNCHANGED <<mru, queue, cmd, disk, content, bad>>

\* acquiresleep(&b->lock), then bread()'s test of B_VALID
bread(p) ==
  /\ pc[p] = "lock" /\ buf[mine[p]].holder = Nobody
  /\ buf' = [buf EXCEPT ![mine[p]].holder = p]
  /\ Goto(p, IF buf[mine[p]].valid THEN "hold" ELSE "rw")
  /\ UNCHANGED <<mru, queue, cmd, disk, mine, panicked, content, bad>>
-----------------------------------------------------------------------------
(***************************************************************************)
(* The driver: iderw() and ideintr(), under idelock                         *)
(***************************************************************************)

\* idestart(): a write command takes the data along
idestart(b) ==
  [write |-> buf'[b].dirty, block |-> buf'[b].block,
   data |-> buf'[b].data, state |-> "busy"]

DoneValid(b) == buf[b].valid

Done(b) == buf[b].valid /\ ~buf[b].dirty

StartNextLost(q) == NoCmd

StartNext(q) == IF q = <<>> THEN NoCmd ELSE idestart(Head(q))

\* iderw(): panics, or appends to idequeue, starts an idle disk and sleeps.
iderw(p) ==
  /\ pc[p] = "rw"
  /\ UNCHANGED buf
  /\ IF buf[mine[p]].holder # p \/ Done(mine[p])
     THEN panicked' = TRUE /\ UNCHANGED <<queue, cmd, pc>>
     ELSE /\ queue' = Append(queue, mine[p])
          /\ cmd' = IF queue = <<>> THEN idestart(mine[p]) ELSE cmd
          /\ Goto(p, "io")
          /\ UNCHANGED panicked
  /\ UNCHANGED <<mru, disk, mine, content, bad>>

\* The disk ends its command, well or not, and raises the interrupt: external.
\* Bound: one block with errors.
DiskDone(ok) ==
  /\ cmd.state = "busy" /\ (ok \/ bad = {})
  /\ cmd' = [cmd EXCEPT !.state = IF ok THEN "ok" ELSE "error"]
  /\ disk' = IF ok /\ cmd.write THEN [disk EXCEPT ![cmd.block] = cmd.data] ELSE disk
  /\ bad' = IF ok THEN bad ELSE bad \cup {cmd.block}
  /\ UNCHANGED <<buf, mru, queue, pc, mine, panicked, content>>

\* ideintr(): the head of the queue is the active request.  After a read error
\* the data stays as it was, and B_VALID is set all the same.
ideintr ==
  /\ cmd.state \in {"ok", "error"} /\ queue # <<>>
  /\ LET b == Head(queue) IN
       /\ buf' = [buf EXCEPT ![b].valid = TRUE, ![b].dirty = FALSE,
                    ![b].data = IF ~buf[b].dirty /\ cmd.state = "ok"
                                THEN disk[cmd.block] ELSE @]
       /\ pc' = [p \in Proc |-> IF pc[p] = "io" /\ mine[p] = b THEN "woken" ELSE pc[p]]
  /\ queue' = Tail(queue)
  /\ cmd' = StartNext(queue')
  /\ UNCHANGED <<mru, disk, mine, panicked, content, bad>>

\* Back from sleep() in iderw(): test the flags again.
iderwWakes(p) ==
  /\ pc[p] = "woken"
  /\ Goto(p, IF Done(mine[p]) THEN "hold" ELSE "io")
  /\ UNCHANGED <<buf, mru, queue, cmd, disk, mine, panicked, content, bad>>

\* kill() of a process asleep in iderw()
kill(p) ==
  /\ pc[p] = "io"
  /\ Goto(p, "woken")
  /\ UNCHANGED <<buf, mru, queue, cmd, disk, mine, panicked, content, bad>>
-----------------------------------------------------------------------------
(***************************************************************************)
(* What the holder of a buffer does                                         *)
(***************************************************************************)
\* A block is modified and handed to log_write(), which pins it; begin_op()
\* bounds how many are.
modify(p) ==
  /\ pc[p] = "hold"
  /\ Cardinality({b \in Buf : buf[b].dirty} \cup {mine[p]}) <= MaxPinned
  /\ buf' = [buf EXCEPT ![mine[p]].data = 1 - @, ![mine[p]].dirty = TRUE]
  /\ content' = [content EXCEPT ![buf[mine[p]].block] = buf'[mine[p]].data]
  /\ UNCHANGED <<mru, queue, cmd, disk, pc, mine, panicked, bad>>

\* bwrite(), of changed data or, when the log installs, of what is there.
bwrite(p, d) ==
  /\ pc[p] = "hold"
  /\ buf' = [buf EXCEPT ![mine[p]].data = d, ![mine[p]].dirty = TRUE]
  /\ content' = [content EXCEPT ![buf[mine[p]].block] = d]
  /\ Goto(p, "rw")
  /\ UNCHANGED <<mru, queue, cmd, disk, mine, panicked, bad>>

\* brelse(): releasesleep(), then the reference goes under bcache.lock.
releasesleep(p) ==
  /\ pc[p] = "hold"
  /\ buf' = [buf EXCEPT ![mine[p]].holder = Nobody]
  /\ Goto(p, "put")
  /\ UNCHANGED <<mru, queue, cmd, disk, mine, panicked, content, bad>>

\* The list with b moved to its front: those that were before b move back.
MoveToFront(b) ==
  [i \in Buf |-> IF i = 1 THEN b
                 ELSE IF \E j \in i .. NBUF : mru[j] = b THEN mru[i - 1] ELSE mru[i]]

brelse(p) ==
  /\ pc[p] = "put"
  /\ buf' = [buf EXCEPT ![mine[p]].refcnt = @ - 1]
  /\ mru' = IF buf'[mine[p]].refcnt = 0 THEN MoveToFront(mine[p]) ELSE mru
  /\ mine' = [mine EXCEPT ![p] = 0]
  /\ Goto(p, "out")
  /\ UNCHANGED <<queue, cmd, disk, panicked, content, bad>>
-----------------------------------------------------------------------------
Next ==
  \/ \E p \in Proc, k \in Block : bget(p, k)
  \/ \E p \in Proc : \/ bread(p) \/ iderw(p) \/ iderwWakes(p) \/ kill(p)
                     \/ modify(p) \/ releasesleep(p) \/ brelse(p)
                     \/ \E d \in {0, 1} : bwrite(p, d)
  \/ \E ok \in BOOLEAN : DiskDone(ok)
  \/ ideintr

Spec == Init /\ [][Next]_vars

\* The disk answers, its interrupt is handled, and woken processes run.
Fairness ==
  /\ WF_vars(\E ok \in BOOLEAN : DiskDone(ok)) /\ WF_vars(ideintr)
  /\ \A p \in Proc : WF_vars(iderw(p)) /\ SF_vars(iderwWakes(p))

FairSpec == Spec /\ Fairness
-----------------------------------------------------------------------------
(***************************************************************************)
(* Properties                                                               *)
(***************************************************************************)

\* bget() and brelse() keep one buffer per block and count its users: two
\* processes that read the same block meet at the same sleep lock.
BlockCachedOnce ==
  /\ \A b, c \in Buf : b # c /\ buf[b].block = buf[c].block => buf[b].block = NoBlock
  /\ \A b \in Buf : buf[b].refcnt = Cardinality({p \in Proc : mine[p] = b})

\* The cache and the disk together never lose or mix up data: a valid buffer
\* holds what was last put in its block, and a block that is not cached, or
\* whose buffer is clean, is up to date on disk.  An error the driver ignores
\* spoils the block it happened on and no other.
CacheCoherent ==
  \A k \in Block \ bad :
    /\ \A b \in Buf : buf[b].block = k /\ (buf[b].valid \/ buf[b].dirty)
                        => buf[b].data = content[k]
    /\ (\A b \in Buf : buf[b].block = k => ~buf[b].dirty) => disk[k] = content[k]

\* idequeue holds each locked buffer with work to do once, its process waits in
\* iderw(), and the disk works on the head of the queue whenever there is one.
QueueServed ==
  /\ \A i, j \in 1 .. Len(queue) : queue[i] = queue[j] => i = j
  /\ \A b \in Range(queue) :
       ~Done(b) /\ \E p \in Proc : mine[p] = b /\ buf[b].holder = p /\ pc[p] \in {"io", "woken"}
  /\ IF queue = <<>> THEN cmd = NoCmd
     ELSE cmd.state # "none" /\ cmd.block = buf[Head(queue)].block
                             /\ cmd.write = buf[Head(queue)].dirty

\* A process asleep in iderw() gets its buffer back, whatever is queued before
\* it and whoever kills it meanwhile.
RequestServed == \A p \in Proc : pc[p] = "io" ~> pc[p] = "hold"
-----------------------------------------------------------------------------
(***************************************************************************)
(* The inductive invariant behind the safety properties                     *)
(***************************************************************************)
Inside == {"rw", "io", "woken", "hold"}

\* A process has a buffer, of a block, from bget() to brelse(), and holds its
\* sleep lock in between.
BuffersHeld ==
  /\ \A p \in Proc : /\ mine[p] = 0 <=> pc[p] = "out"
                     /\ mine[p] # 0 => buf[mine[p]].block \in Block
                     /\ pc[p] \in Inside => buf[mine[p]].holder = p
  /\ \A b \in Buf : LET p == buf[b].holder IN
       p # Nobody => mine[p] = b /\ pc[p] \in Inside

\* The flags tell what is left to do: only valid data is changed; whoever goes
\* to iderw() has work for it, and whoever is asleep there has a request queued.
FlagsOK ==
  /\ \A b \in Buf : buf[b].dirty => buf[b].valid
  /\ \A p \in Proc :
       /\ pc[p] = "hold" => buf[mine[p]].valid
       /\ pc[p] = "rw" => ~Done(mine[p])
       /\ pc[p] = "io" => mine[p] \in Range(queue)
       /\ pc[p] = "woken" => mine[p] \in Range(queue) \/ Done(mine[p])

\* What the disk has been told, and has done, agrees with the head of the queue.
CommandOK ==
  /\ cmd.state # "none" /\ cmd.write => cmd.data = buf[Head(queue)].data
  /\ cmd.state = "ok" /\ cmd.write => disk[cmd.block] = cmd.data
  /\ cmd.state = "error" => cmd.block \in bad

\* The buffers that stay B_DIRTY after their users are gone.
Pinned ==
  {b \in Buf : buf[b].dirty /\ \A p \in Proc : mine[p] = b => pc[p] \notin {"rw", "io", "woken"}}

\* bget() panics only if no buffer could be spared: each is pinned by the log or
\* in the hands of a process, none is leaked by brelse() or ideintr().  So at least
\* NBUF - MaxPinned other processes are then inside the cache.  iderw() is never
\* asked to do nothing.
PanicsOnlyWhenFull ==
  [][~panicked /\ panicked' =>
       /\ \A p \in Proc : ~iderw(p)
       /\ NBUF <= Cardinality(Pinned) + Cardinality({p \in Proc : mine[p] # 0})]_vars

\* The inductive invariant of the cache and the driver: references, locks,
\* flags, queue, command and data agree.
CacheInv ==
  /\ TypeOK /\ BlockCachedOnce /\ BuffersHeld /\ FlagsOK /\ QueueServed /\ CommandOK
  /\ CacheCoherent /\ Cardinality(Pinned) <= MaxPinned
==============================================================================
