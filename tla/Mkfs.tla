-------------------------------- MODULE Mkfs ----------------------------------
(***************************************************************************)
(* The program that builds the first file system image (mkfs.c): inodes and *)
(* blocks are handed out in order, files are appended block by block, and   *)
(* the bit map is written last.  A directory entry takes one byte here, and *)
(* a byte of a file is named by the file and its place in it.               *)
(***************************************************************************)
EXTENDS Integers, Sequences, FiniteSets, FiniteSetsExt

CONSTANTS BSIZE, NDIRECT, NINDIRECT, nmeta, BitmapBits, Sizes, MaxFiles

VARIABLES
  dinode,      \* the inodes on the disk, in order: [size, addrs]
  disk,        \* contents of the blocks written so far
  freeblock,
  bitmap,      \* blocks marked used
  phase,       \* "start", "files", "done", or "abort" after a failed assert
  content      \* history: what has been appended to each inode

vars == <<dinode, disk, freeblock, bitmap, phase, content>>

MAXFILE == NDIRECT + NINDIRECT
ROOTINO == 1
Zeroes == [i \in 0 .. BSIZE - 1 |-> 0]
NoBlocks == [i \in 0 .. NDIRECT |-> 0]

TypeOK ==
  /\ phase \in {"start", "files", "done", "abort"}
  /\ \A i \in DOMAIN dinode : dinode[i].size \in Nat /\ dinode[i].addrs \in [0 .. NDIRECT -> Nat]
  /\ DOMAIN disk \subseteq nmeta .. freeblock - 1
  /\ freeblock \in Nat /\ bitmap \subseteq Nat

Init ==
  /\ dinode = <<>> /\ disk = [b \in {} |-> Zeroes]
  /\ freeblock = nmeta /\ bitmap = {}
  /\ phase = "start" /\ content = <<>>

rsect(d, b) == IF b \in DOMAIN d THEN d[b] ELSE Zeroes
wsect(d, b, v) == [x \in DOMAIN d \cup {b} |-> IF x = b THEN v ELSE d[x]]
-----------------------------------------------------------------------------
(***************************************************************************)
(* iappend(), on s = [addrs, off, disk, free, todo, ok]: one round of its   *)
(* loop writes what goes into one block                                     *)
(***************************************************************************)
\* The block of number fbn, with the state that has it allocated
DirectBlock(s, fbn) ==
  IF s.addrs[fbn] # 0 THEN s ELSE [s EXCEPT !.addrs[fbn] = s.free, !.free = @ + 1]

IndirectBlockShared(s, fbn) ==
  LET t == DirectBlock(s, NDIRECT)
      b == t.addrs[NDIRECT]
      a == [rsect(t.disk, b) EXCEPT ![fbn - NDIRECT] = IF @ = 0 THEN t.free ELSE @]
  IN  [t EXCEPT !.disk = wsect(t.disk, b, a)]

IndirectBlock(s, fbn) ==
  LET t == DirectBlock(s, NDIRECT)
      b == t.addrs[NDIRECT]
      a == rsect(t.disk, b)
  IN  IF a[fbn - NDIRECT] # 0 THEN t
      ELSE [t EXCEPT !.disk = wsect(t.disk, b, [a EXCEPT ![fbn - NDIRECT] = t.free]),
                     !.free = @ + 1]

FileBlock(s, fbn) ==
  IF fbn < NDIRECT THEN s.addrs[fbn] ELSE rsect(s.disk, s.addrs[NDIRECT])[fbn - NDIRECT]

Chunk(s, fbn) == Min({Len(s.todo), (fbn + 1) * BSIZE - s.off})

Round(s) ==
  LET fbn == s.off \div BSIZE
      t == IF fbn < NDIRECT THEN DirectBlock(s, fbn) ELSE IndirectBlock(s, fbn)
      x == FileBlock(t, fbn)
      n1 == Chunk(s, fbn)
      start == s.off - fbn * BSIZE
      v == [i \in 0 .. BSIZE - 1 |->
              IF i \in start .. start + n1 - 1 THEN s.todo[i - start + 1]
              ELSE rsect(t.disk, x)[i]]
  IN  IF fbn >= MAXFILE THEN [s EXCEPT !.ok = FALSE, !.todo = <<>>]
      ELSE [t EXCEPT !.disk = wsect(t.disk, x, v), !.off = @ + n1,
                     !.todo = SubSeq(s.todo, n1 + 1, Len(s.todo))]

Rounds(s) ==
  LET st[i \in 0 .. Len(s.todo)] ==
        IF i = 0 THEN s ELSE IF st[i - 1].todo = <<>> THEN st[i - 1] ELSE Round(st[i - 1])
  IN  st[Len(s.todo)]

\* g = [dinode, disk, free, ok] is what mkfs has built so far.
iappend(g, inum, bytes) ==
  LET s == Rounds([addrs |-> g.dinode[inum].addrs, off |-> g.dinode[inum].size,
                   disk |-> g.disk, free |-> g.free, todo |-> bytes, ok |-> g.ok])
  IN  [g EXCEPT !.dinode[inum] = [size |-> s.off, addrs |-> s.addrs],
                !.disk = s.disk, !.free = s.free, !.ok = s.ok]

ialloc(g) == [g EXCEPT !.dinode = Append(@, [size |-> 0, addrs |-> NoBlocks])]
-----------------------------------------------------------------------------
(***************************************************************************)
(* main()                                                                   *)
(***************************************************************************)
Built == [dinode |-> dinode, disk |-> disk, free |-> freeblock, ok |-> TRUE]

Becomes(g, next) ==
  /\ dinode' = g.dinode /\ disk' = g.disk /\ freeblock' = g.free
  /\ phase' = (IF g.ok THEN next ELSE "abort")

makeroot ==
  /\ phase = "start"
  /\ Becomes(iappend(iappend(ialloc(Built), ROOTINO, <<ROOTINO>>), ROOTINO, <<ROOTINO>>), "files")
  /\ content' = << <<ROOTINO, ROOTINO>> >>
  /\ UNCHANGED bitmap

\* A file of n bytes, read from the host in pieces of BSIZE
addfile(n) ==
  LET inum == Len(dinode) + 1
      bytes == [i \in 1 .. n |-> inum * 100 + i]
      g0 == iappend(ialloc(Built), ROOTINO, <<inum>>)
      pieces == (n + BSIZE - 1) \div BSIZE
      piece(k) == SubSeq(bytes, (k - 1) * BSIZE + 1, Min({n, k * BSIZE}))
      g[k \in 0 .. pieces] ==
        IF k = 0 THEN g0 ELSE IF ~g[k - 1].ok THEN g[k - 1] ELSE iappend(g[k - 1], inum, piece(k))
  IN  /\ phase = "files" /\ inum <= MaxFiles + 1
      /\ Becomes(g[pieces], "files")
      /\ content' = Append([content EXCEPT ![ROOTINO] = Append(@, inum)], bytes)
      /\ UNCHANGED bitmap

RoundUp(size) == (size \div BSIZE + 1) * BSIZE

balloc(used) == 0 .. used - 1

finish ==
  /\ phase = "files"
  /\ dinode' = [dinode EXCEPT ![ROOTINO].size = RoundUp(@)]
  /\ phase' = (IF freeblock < BitmapBits THEN "done" ELSE "abort")
  /\ bitmap' = (IF freeblock < BitmapBits THEN balloc(freeblock) ELSE bitmap)
  /\ UNCHANGED <<disk, freeblock, content>>

Next == makeroot \/ (\E n \in Sizes : addfile(n)) \/ finish

Spec == Init /\ [][Next]_vars
-----------------------------------------------------------------------------
(***************************************************************************)
(* Properties                                                               *)
(***************************************************************************)
\* The block that holds byte o of inode i, and all the blocks i names
BlockAt(i, o) == FileBlock([addrs |-> dinode[i].addrs, disk |-> disk], o \div BSIZE)
Places == {<<i, k>> : i \in DOMAIN dinode, k \in 0 .. MAXFILE}
NamedAt(i, k) ==
  IF k = MAXFILE THEN dinode[i].addrs[NDIRECT]
  ELSE IF k >= NDIRECT /\ dinode[i].addrs[NDIRECT] = 0 THEN 0
  ELSE BlockAt(i, k * BSIZE)

\* The finished image is one the kernel's allocator may work on: no block is
\* named twice, and the bit map marks the blocks that are named and the
\* blocks before the first data block, and no others.
ImageConsistent ==
  phase = "done" =>
    LET used == {x \in Places : NamedAt(x[1], x[2]) # 0}
        named == {NamedAt(x[1], x[2]) : x \in used}
    IN  /\ Cardinality(named) = Cardinality(used)
        /\ bitmap = 0 .. nmeta - 1 \cup named

\* Reading a file of the image gives the bytes that were put into it, and the
\* root directory the entries: also across block boundaries and in the blocks
\* behind the indirect block.
ImageReadsBack ==
  phase = "done" =>
    \A i \in DOMAIN content : \A o \in 0 .. Len(content[i]) - 1 :
      o < dinode[i].size /\ rsect(disk, BlockAt(i, o))[o % BSIZE] = content[i][o + 1]

\* The rest of the root directory reads as free entries.  Its rounded size may
\* reach one block further than the blocks it names, and only when its entries
\* fill all of those.
RootTailFree ==
  phase = "done" =>
    LET n == Len(content[ROOTINO])
    IN  \A o \in n .. dinode[ROOTINO].size - 1 :
          IF BlockAt(ROOTINO, o) = 0 THEN n % BSIZE = 0 /\ o < n + BSIZE
          ELSE rsect(disk, BlockAt(ROOTINO, o))[o % BSIZE] = 0
==============================================================================
