-------------------------------- MODULE Blocks --------------------------------
(***************************************************************************)
(* The content of files: block allocation (balloc, bfree), the block map of *)
(* an inode (bmap, itrunc), readi, writei (fs.c) and filewrite (file.c), as *)
(* operations of the log, with crashes.                                     *)
(*                                                                          *)
(* A block is BSIZE words, read as bytes of a file or, in an indirect       *)
(* block, as block numbers.  One step is the work on one block: everything  *)
(* in it happens under the inode's lock and the locks of the buffers it     *)
(* uses.  The log commits the operations of a group together, when the last *)
(* of them ends (module Log): what a crash leaves is the file system of the *)
(* last moment at which no operation was running.                           *)
(***************************************************************************)
EXTENDS Naturals, FiniteSets, FiniteSetsExt, Functions

CONSTANTS
  Proc,
  Inode,        \* inode numbers: a byte is the number of the file it was written to
  NBLOCK,       \* data blocks
  NDIRECT, BSIZE, MAXOPBLOCKS,
  Sizes         \* bytes a write may ask for

VARIABLES
  ip,       \* inodes in memory: [addrs, size]
  fs,       \* the blocks with the group's changes: [bitmap, dinode, data]
  call,     \* each process's filewrite() or iput(): [pc, i, off, left, n]
  logged,   \* blocks the process's operation has passed to log_write()
  panicked

vars == <<ip, fs, call, logged, panicked>>

DataBlock == 1 .. NBLOCK
BitmapBlock == 0   \* one bitmap block is enough for FSSIZE blocks
NINDIRECT == BSIZE
MAXFILE == NDIRECT + NINDIRECT
Zero == [k \in 0 .. BSIZE - 1 |-> 0]
Junk == [k \in 0 .. BSIZE - 1 |-> 1]   \* stands for whatever a freed block holds
EmptyFile == [addrs |-> [k \in 0 .. NDIRECT |-> 0], size |-> 0]
Idle == [pc |-> "idle", i |-> 0, off |-> 0, left |-> 0, n |-> 0]

TypeOK ==
  LET inodes == [Inode -> [addrs : [0 .. NDIRECT -> DataBlock \cup {0}], size : 0 .. MAXFILE * BSIZE]]
      states == [bitmap : SUBSET DataBlock, dinode : inodes,
                 data : [DataBlock -> [0 .. BSIZE - 1 -> DataBlock \cup Inode \cup {0}]]]
  IN /\ ip \in inodes /\ fs \in states
     /\ \A p \in Proc : /\ call[p].pc \in {"idle", "chunk", "write", "trunc"}
                         /\ call[p].i \in Inode \cup {0}
                         /\ call[p].off \in 0 .. MAXFILE * BSIZE
                         /\ logged[p] \subseteq DataBlock \cup {BitmapBlock}

\* The file system mkfs makes, with an empty file in every inode
Init ==
  /\ ip = [i \in Inode |-> EmptyFile]
  /\ fs = [bitmap |-> {}, dinode |-> ip, data |-> [b \in DataBlock |-> Junk]]
  /\ call = [p \in Proc |-> Idle] /\ logged = [p \in Proc |-> {}]
  /\ panicked = "no"

Ops == {p \in Proc : call[p].pc \in {"write", "trunc"}}
Locked(i) == \E p \in Ops : call[p].i = i
-----------------------------------------------------------------------------
(***************************************************************************)
(* balloc(), bmap(): a file system v with the inode's addrs in it           *)
(***************************************************************************)
View(i) == [bitmap |-> fs.bitmap, data |-> fs.data, addrs |-> ip[i].addrs, log |-> {}]
FreeBlocks(v) == DataBlock \ v.bitmap

ballocDirty(v) ==
  [v EXCEPT !.bitmap = @ \cup {Min(FreeBlocks(v))},
            !.log = @ \cup {BitmapBlock, Min(FreeBlocks(v))}]

\* balloc() marks the first free block and zeroes it.
balloc(v) ==
  [v EXCEPT !.bitmap = @ \cup {Min(FreeBlocks(v))},
            !.data[Min(FreeBlocks(v))] = Zero,
            !.log = @ \cup {BitmapBlock, Min(FreeBlocks(v))}]

\* bmap() of a block number: the address it finds, and what it allocates first
Addr(v, bn) == IF bn < NDIRECT THEN v.addrs[bn] ELSE v.data[v.addrs[NDIRECT]][bn - NDIRECT]

WithIndirect(v, bn) ==
  IF bn < NDIRECT \/ v.addrs[NDIRECT] # 0 THEN v
  ELSE [balloc(v) EXCEPT !.addrs[NDIRECT] = Min(FreeBlocks(v))]

bmap(v, bn) ==
  LET w == WithIndirect(v, bn)
      b == Min(FreeBlocks(w))
  IN IF Addr(w, bn) # 0 THEN w
     ELSE IF bn < NDIRECT THEN [balloc(w) EXCEPT !.addrs[bn] = b]
     ELSE [balloc(w) EXCEPT !.data[w.addrs[NDIRECT]][bn - NDIRECT] = b,
                            !.log = @ \cup {w.addrs[NDIRECT]}]

\* How many blocks bmap() has to allocate
Wanted(v, bn) ==
  IF bn < NDIRECT THEN IF v.addrs[bn] = 0 THEN 1 ELSE 0
  ELSE IF v.addrs[NDIRECT] = 0 THEN 2
  ELSE IF v.data[v.addrs[NDIRECT]][bn - NDIRECT] = 0 THEN 1 ELSE 0

\* What readi() finds at byte k of the file
readi(i, k) == fs.data[Addr(View(i), k \div BSIZE)][k % BSIZE]
-----------------------------------------------------------------------------
(***************************************************************************)
(* filewrite() and writei()                                                 *)
(***************************************************************************)
MaxChunkAll == MAXFILE * BSIZE

\* max in filewrite()
MaxChunk == ((MAXOPBLOCKS - 1 - 1 - 2) \div 2) * BSIZE

Stay(p, c) == call' = [call EXCEPT ![p] = c]

\* filewrite() of n bytes at f->off.  Bound: a call starts at the end of the
\* file, where it allocates blocks; a second writer may overtake it.  An open
\* file is not being deleted.
filewrite(p, i, n) ==
  /\ call[p] = Idle /\ panicked = "no"
  /\ \A q \in Ops : call[q].i = i => call[q].pc # "trunc"
  /\ Stay(p, [pc |-> "chunk", i |-> i, off |-> ip[i].size, left |-> n, n |-> 0])
  /\ UNCHANGED <<ip, fs, logged, panicked>>

\* begin_op(), ilock() and the tests of writei(); a refused write ends the call.
chunk(p) ==
  /\ call[p].pc = "chunk" /\ panicked = "no" /\ ~Locked(call[p].i)
  /\ LET n1 == Min({call[p].left, MaxChunk}) IN
       Stay(p, IF call[p].off > ip[call[p].i].size \/ call[p].off + n1 > MAXFILE * BSIZE THEN Idle
               ELSE [call[p] EXCEPT !.pc = "write", !.n = n1])
  /\ UNCHANGED <<ip, fs, logged, panicked>>

FillFromStart(old, at, m, x) == [k \in DOMAIN old |-> IF k < m THEN x ELSE old[k]]

\* memmove() of m bytes into a block
Fill(old, at, m, x) == [k \in DOMAIN old |-> IF at <= k /\ k < at + m THEN x ELSE old[k]]

\* One turn of writei()'s loop
writei(p) ==
  /\ call[p].pc = "write" /\ call[p].n > 0 /\ panicked = "no"
  /\ LET c == call[p]
         bn == c.off \div BSIZE
         at == c.off % BSIZE
         m == Min({c.n, BSIZE - at})
         v == bmap(View(c.i), bn)
         b == Addr(v, bn)
     IN IF Cardinality(FreeBlocks(View(c.i))) < Wanted(View(c.i), bn)
        THEN panicked' = "out of blocks" /\ UNCHANGED <<ip, fs, call, logged>>
        ELSE /\ ip' = [ip EXCEPT ![c.i].addrs = v.addrs]
             /\ fs' = [fs EXCEPT !.bitmap = v.bitmap,
                                  !.data = [v.data EXCEPT ![b] = Fill(@, at, m, c.i)]]
             /\ Stay(p, [c EXCEPT !.off = @ + m, !.n = @ - m, !.left = @ - m])
             /\ logged' = [logged EXCEPT ![p] = @ \cup v.log \cup {b}]
             /\ UNCHANGED panicked

\* end_op()
EndOp(p) == logged' = [logged EXCEPT ![p] = {}]

iupdate(i, d) == [fs EXCEPT !.dinode[i] = d]

\* The size grows, with iupdate(), and the operation ends.
written(p) ==
  /\ call[p].pc = "write" /\ call[p].n = 0 /\ panicked = "no"
  /\ LET c == call[p]
         grown == [ip[c.i] EXCEPT !.size = c.off]
     IN /\ IF c.off > ip[c.i].size
           THEN ip' = [ip EXCEPT ![c.i] = grown] /\ fs' = iupdate(c.i, grown)
           ELSE UNCHANGED <<ip, fs>>
        /\ Stay(p, IF c.left > 0 THEN [c EXCEPT !.pc = "chunk"] ELSE Idle)
  /\ EndOp(p)
  /\ UNCHANGED panicked
-----------------------------------------------------------------------------
(***************************************************************************)
(* itrunc(), of an unlinked file that nobody has open; its inode is then    *)
(* given to a new file.  n counts the bfree() calls made so far.            *)
(***************************************************************************)
itrunc(p, i) ==
  /\ call[p] = Idle /\ panicked = "no"
  /\ ip[i] # EmptyFile /\ \A q \in Proc : call[q].i # i
  /\ Stay(p, [Idle EXCEPT !.pc = "trunc", !.i = i])
  /\ UNCHANGED <<ip, fs, logged, panicked>>

\* The k-th block itrunc() looks at: the direct ones, then those the indirect
\* block lists, then the indirect block.
FreeOrder(k) == k

truncVictim(i, k) ==
  LET v == View(i) IN
    IF k < NDIRECT THEN v.addrs[k]
    ELSE IF v.addrs[NDIRECT] = 0 THEN 0
    ELSE IF k < MAXFILE THEN Addr(v, k) ELSE v.addrs[NDIRECT]

bfree(p) ==
  /\ call[p].pc = "trunc" /\ call[p].n <= MAXFILE /\ panicked = "no"
  /\ LET b == truncVictim(call[p].i, FreeOrder(call[p].n)) IN
       IF b = 0 THEN UNCHANGED <<fs, logged, panicked>>
       ELSE /\ panicked' = IF b \in fs.bitmap THEN "no" ELSE "freeing free block"
            /\ fs' = [fs EXCEPT !.bitmap = @ \ {b}, !.data[b] = Junk]
            /\ logged' = [logged EXCEPT ![p] = @ \cup {BitmapBlock}]
  /\ Stay(p, [call[p] EXCEPT !.n = @ + 1])
  /\ UNCHANGED ip

truncated(p) ==
  /\ call[p].pc = "trunc" /\ call[p].n > MAXFILE /\ panicked = "no"
  /\ ip' = [ip EXCEPT ![call[p].i] = EmptyFile]
  /\ fs' = iupdate(call[p].i, EmptyFile)
  /\ Stay(p, Idle)
  /\ EndOp(p)
  /\ UNCHANGED panicked

\* A crash undoes the group that was running, so that it is as good as a crash
\* when the group began: memory is lost, and the inodes are read from disk.
Crash ==
  /\ Ops = {} /\ \E p \in Proc : call[p] # Idle
  /\ ip' = fs.dinode
  /\ call' = [p \in Proc |-> Idle]
  /\ UNCHANGED <<fs, logged, panicked>>

Next ==
  \/ \E p \in Proc :
       \/ \E i \in Inode, n \in Sizes : filewrite(p, i, n)
       \/ chunk(p) \/ writei(p) \/ written(p)
       \/ (\E i \in Inode : itrunc(p, i)) \/ bfree(p) \/ truncated(p)
  \/ Crash

Spec == Init /\ [][Next]_vars
-----------------------------------------------------------------------------
(***************************************************************************)
(* Properties                                                               *)
(***************************************************************************)

\* The places on disk that name block b
Names(b) ==
  {x \in Inode \X (0 .. NDIRECT) : fs.dinode[x[1]].addrs[x[2]] = b}
  \cup {x \in Inode \X (NDIRECT + 1 .. MAXFILE) :
         LET ind == fs.dinode[x[1]].addrs[NDIRECT]
         IN ind # 0 /\ fs.data[ind][x[2] - NDIRECT - 1] = b}

\* Whenever the machine crashes, recovery finds a file system in which every
\* block marked in the bitmap is named by exactly one place of one file, and
\* no other block is named: nothing leaks, nothing is shared.
DiskConsistent ==
  Ops = {} => \A b \in DataBlock : Cardinality(Names(b)) = IF b \in fs.bitmap THEN 1 ELSE 0

\* bfree() never finds its block free already, whatever has been allocated
\* while itrunc() works its way through the file.
FreesOnce == panicked # "freeing free block"

\* Once no operation is running, the inodes on disk are the ones in memory:
\* every path that changes an inode ends in iupdate().
InodesDurable == Ops = {} => fs.dinode = ip

\* A file reads back what was written to it, up to its size and while the
\* writer goes beyond it, however other processes allocate and free blocks
\* meanwhile, and after a crash: no block is in use twice.
ReadsBack ==
  \A i \in Inode : (\A p \in Proc : ~(call[p].pc = "trunc" /\ call[p].i = i)) =>
    \A k \in 0 .. Max({ip[i].size} \cup {call[p].off : p \in {q \in Ops : call[q].i = i}}) - 1 :
      readi(i, k) = i

\* No operation passes more blocks to the log, the inode's block of its last
\* iupdate() included, than begin_op() reserved for it, which is what the log
\* relies on (module Log).
OpFits == \A p \in Proc : Cardinality(logged[p]) + 1 <= MAXOPBLOCKS
==============================================================================
