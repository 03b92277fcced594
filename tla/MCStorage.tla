------------------------------ MODULE MCStorage -------------------------------
(***************************************************************************)
(* The buffer cache and the contents of files, explored in one run: a       *)
(* behaviour is one of module Bcache, or one of module Blocks while the     *)
(* cache rests in its initial state.                                        *)
(***************************************************************************)
EXTENDS Bcache, TLC

CONSTANT Inode

VARIABLES part, ip, fs, call, logged, stopped

Content == INSTANCE Blocks WITH
             NBLOCK <- 5, NDIRECT <- 2, BSIZE <- 2, MAXOPBLOCKS <- 6, Sizes <- {5, 7},
             panicked <- stopped

Sym == Permutations(Proc) \cup Permutations(Block) \cup Permutations(Inode)

FilesRest == ip = 0 /\ fs = 0 /\ call = 0 /\ logged = 0 /\ stopped = 0

StorageInit ==
  /\ Init
  /\ (part = "cache" /\ FilesRest) \/ (part = "content" /\ Content!Init)

StorageNext ==
  /\ UNCHANGED part
  /\ \/ part = "cache" /\ Next /\ UNCHANGED <<ip, fs, call, logged, stopped>>
     \/ part = "content" /\ Content!Next /\ UNCHANGED vars

StorageSpec == StorageInit /\ [][StorageNext]_<<part, vars, ip, fs, call, logged, stopped>>

\* Bounds: nothing follows a panic; what follows an I/O error is explored while few
\* blocks are cached, and few differ from their initial contents at a time.
Focus ==
  /\ ~panicked
  /\ bad = {} \/ Cardinality({buf[b].block : b \in Buf}) <= 2
  /\ Cardinality({k \in Block : content[k] = 1 \/ disk[k] = 1}) <= 1
-----------------------------------------------------------------------------
\* Blocks!DiskConsistent: after a crash every block in use is named once.  On the
\* way there bfree() never finds its block free already (Blocks!FreesOnce), and
\* when no operation runs, disk and memory agree on inodes (Blocks!InodesDurable).
DiskConsistent ==
  part = "content" => Content!TypeOK /\ Content!FreesOnce /\ Content!InodesDurable
                                     /\ Content!DiskConsistent

\* Blocks!ReadsBack: a file reads back what was written to it.
ReadsBack == part = "content" => Content!ReadsBack

\* Blocks!OpFits: no operation logs more blocks than begin_op() reserves.
OpFits == part = "content" => Content!OpFits
==============================================================================
