-------------------------------- MODULE Files --------------------------------
(***************************************************************************)
(* The file table (file.c), the descriptor calls of sysfile.c, and pipes    *)
(* (pipe.c), under processes that fork, are killed and exit.                *)
(*                                                                          *)
(* A step is one critical section of ftable.lock or of a pipe's lock, with  *)
(* the process-local code around it; the sleep of a pipe call is a step of  *)
(* its own, because kill() does not take the pipe's lock.                   *)
(* A byte in a pipe tells how far from its end a write() had it.            *)
(***************************************************************************)
EXTENDS Integers, Sequences, FiniteSets, FiniteSetsExt, SequencesExt

CONSTANTS
  Proc,       \* process slots
  InitProc,   \* the one that runs first
  NFILE, NOFILE,
  Page,       \* pages kalloc() can give to a pipe; 0 is none
  PIPESIZE,   \* divides WIDTH, as 512 divides 2^32
  WIDTH,      \* number of values of the counters nread and nwrite (2^32)
  MaxInodes,  \* bound: files open on an inode at any time
  Reads, Writes   \* how many bytes a read and a write may ask for

VARIABLES
  file,     \* ftable.file: [ref, type, writable, pipe]
  pipe,     \* the page of each pipe: [used, readopen, writeopen, nread, nwrite, data]
  ofile,    \* each process's descriptors (0: closed)
  pc,       \* where each process is
  fresh,    \* files filealloc() gave to a call that has no descriptor for them yet
  todo,     \* files a call or exit() still has to fileclose()
  ff,       \* fileclose()'s copy of the file whose pipe end it still has to close
  io,       \* the pipe call in progress: [pipe, left, want, got], with what it has left to
            \* write, or what it wants to read and has been given
  killed,   \* p->killed
  late,     \* history: killed between the test of p->killed and the sleep
  quiet,    \* history: pipes whose last bytes were left without a wakeup
  panicked

vars == <<file, pipe, ofile, pc, fresh, todo, ff, io, killed, late, quiet, panicked>>

File == 1 .. NFILE
Fd == 0 .. NOFILE - 1
NoFile == [ref |-> 0, type |-> "none", writable |-> FALSE, pipe |-> 0]
NoByte == 0
Byte == 1 .. Max(Writes)
NoPipe == [used |-> FALSE, readopen |-> FALSE, writeopen |-> FALSE,
           nread |-> 0, nwrite |-> 0, data |-> [i \in 0 .. PIPESIZE - 1 |-> NoByte]]
NoIo == [pipe |-> 0, left |-> 0, want |-> 0, got |-> <<>>]
Asleep == {"rasleep", "wasleep"}
HoldsPipeLock == {"rsleep", "wsleep"}

TypeOK ==
  /\ file \in [File -> [ref : Nat, type : {"none", "pipe", "inode"},
                        writable : BOOLEAN, pipe : Page \cup {0}]]
  /\ pipe \in [Page -> [used : BOOLEAN, readopen : BOOLEAN, writeopen : BOOLEAN,
                        nread : 0 .. WIDTH - 1, nwrite : 0 .. WIDTH - 1,
                        data : [0 .. PIPESIZE - 1 -> Byte \cup {NoByte}]]]
  /\ ofile \in [Proc -> [Fd -> File \cup {0}]]
  /\ pc \in [Proc -> {"unused", "user", "pipe", "close", "exit", "read", "copied", "write"}
                     \cup Asleep \cup HoldsPipeLock]
  /\ fresh \in [Proc -> Seq(File)] /\ todo \in [Proc -> Seq(File)]
  /\ ff \in [Proc -> {NoFile} \cup [ref : {1}, type : {"pipe"}, writable : BOOLEAN, pipe : Page]]
  /\ quiet \subseteq Page
  /\ io \in [Proc -> [pipe : Page \cup {0}, left : Nat, want : Nat, got : Seq(Byte)]]
  /\ killed \in [Proc -> BOOLEAN] /\ late \in [Proc -> BOOLEAN] /\ panicked \in BOOLEAN

Init ==
  /\ file = [f \in File |-> NoFile] /\ pipe = [g \in Page |-> NoPipe]
  /\ ofile = [p \in Proc |-> [fd \in Fd |-> 0]]
  /\ pc = [p \in Proc |-> IF p = InitProc THEN "user" ELSE "unused"]
  /\ fresh = [p \in Proc |-> <<>>] /\ todo = [p \in Proc |-> <<>>]
  /\ ff = [p \in Proc |-> NoFile] /\ io = [p \in Proc |-> NoIo] /\ quiet = {}
  /\ killed = [p \in Proc |-> FALSE] /\ late = killed
  /\ panicked = FALSE

Goto(p, l) == pc' = [pc EXCEPT ![p] = l]

\* A process starts a call in user mode; trap() lets no killed process do so.
Calls(p) == pc[p] = "user" /\ ~killed[p]
-----------------------------------------------------------------------------
(***************************************************************************)
(* filealloc(), fdalloc(), filedup()                                        *)
(***************************************************************************)
FreeFiles == {f \in File : file[f].ref = 0}
FreeFds(p) == {fd \in Fd : ofile[p][fd] = 0}

\* fdalloc() for two files one after the other
FdAlloc2(p, f0, f1) ==
  LET fd0 == Min(FreeFds(p))
      fd1 == Min(FreeFds(p) \ {fd0})
  IN ofile' = [ofile EXCEPT ![p][fd0] = f0, ![p][fd1] = f1]

sys_dup(p, fd) ==
  /\ Calls(p) /\ ofile[p][fd] # 0 /\ FreeFds(p) # {}
  /\ panicked' = (panicked \/ file[ofile[p][fd]].ref < 1)
  /\ file' = [file EXCEPT ![ofile[p][fd]].ref = @ + 1]
  /\ ofile' = [ofile EXCEPT ![p][Min(FreeFds(p))] = ofile[p][fd]]
  /\ UNCHANGED <<pipe, pc, fresh, todo, ff, io, killed, late, quiet>>

\* sys_open(): the inode is module Fs's; the file is typed once it has a
\* descriptor, or closed again when the process has none left.
sys_open(p) ==
  /\ Calls(p) /\ FreeFiles # {}
  /\ Cardinality({f \in File : file[f].type = "inode"}) < MaxInodes
  /\ LET f == Min(FreeFiles) IN
       IF FreeFds(p) = {}
       THEN /\ file' = [file EXCEPT ![f].ref = 1]
            /\ todo' = [todo EXCEPT ![p] = <<f>>] /\ Goto(p, "close")
            /\ UNCHANGED ofile
       ELSE /\ file' = [file EXCEPT ![f] = [ref |-> 1, type |-> "inode",
                                            writable |-> FALSE, pipe |-> 0]]
            /\ ofile' = [ofile EXCEPT ![p][Min(FreeFds(p))] = f]
            /\ UNCHANGED <<todo, pc>>
  /\ UNCHANGED <<pipe, fresh, ff, io, killed, late, quiet, panicked>>

\* fork() and thread_create() give the child every open file.
fork(p, q) ==
  /\ Calls(p) /\ pc[q] = "unused"
  /\ ofile' = [ofile EXCEPT ![q] = ofile[p]]
  /\ file' = [f \in File |->
               [file[f] EXCEPT !.ref = @ + Cardinality({fd \in Fd : ofile[p][fd] = f})]]
  /\ pc' = [pc EXCEPT ![q] = "user"]
  /\ UNCHANGED <<pipe, fresh, todo, ff, io, killed, late, quiet, panicked>>
-----------------------------------------------------------------------------
(***************************************************************************)
(* sys_pipe() and pipealloc()                                               *)
(***************************************************************************)

\* The two filealloc() calls are separate critical sections of ftable.lock;
\* on failure what was allocated is closed.
PipeFile(p) ==
  /\ Calls(p) \/ (pc[p] = "pipe" /\ Len(fresh[p]) < 2)
  /\ IF FreeFiles = {}
     THEN /\ todo' = [todo EXCEPT ![p] = fresh[p]]
          /\ fresh' = [fresh EXCEPT ![p] = <<>>]
          /\ Goto(p, IF fresh[p] = <<>> THEN "user" ELSE "close")
          /\ UNCHANGED file
     ELSE /\ file' = [file EXCEPT ![Min(FreeFiles)].ref = 1]
          /\ fresh' = [fresh EXCEPT ![p] = Append(@, Min(FreeFiles))]
          /\ Goto(p, "pipe")
          /\ UNCHANGED todo
  /\ UNCHANGED <<pipe, ofile, ff, io, killed, late, quiet, panicked>>

\* The failure paths fileclose() both ends.
CloseBoth(fs) == fs

\* kalloc() gives a page or not; then the descriptors, or both files closed.
PipePage(p, ok) ==
  /\ pc[p] = "pipe" /\ Len(fresh[p]) = 2
  /\ LET free == {g \in Page : ~pipe[g].used}
         g == Min(free)
         f0 == fresh[p][1]
         f1 == fresh[p][2]
         given == ok /\ free # {}
     IN /\ IF given
           THEN /\ pipe' = [pipe EXCEPT ![g] = [NoPipe EXCEPT !.used = TRUE,
                                                  !.readopen = TRUE, !.writeopen = TRUE]]
                /\ file' = [file EXCEPT
                     ![f0] = [ref |-> 1, type |-> "pipe", writable |-> FALSE, pipe |-> g],
                     ![f1] = [ref |-> 1, type |-> "pipe", writable |-> TRUE, pipe |-> g]]
           ELSE UNCHANGED <<pipe, file>>
        /\ IF given /\ Cardinality(FreeFds(p)) >= 2
           THEN FdAlloc2(p, f0, f1) /\ Goto(p, "user") /\ UNCHANGED todo
           ELSE todo' = [todo EXCEPT ![p] = CloseBoth(fresh[p])] /\ Goto(p, "close")
                /\ UNCHANGED ofile
  /\ fresh' = [fresh EXCEPT ![p] = <<>>]
  /\ UNCHANGED <<ff, io, killed, late, quiet, panicked>>
-----------------------------------------------------------------------------
(***************************************************************************)
(* sys_close(), exit() and fileclose()                                      *)
(***************************************************************************)
\* fileclose(), under ftable.lock.  The last reference copies the file first,
\* because the slot may be somebody else's once the lock is free.
Drop(p, f) ==
  /\ panicked' = (panicked \/ file[f].ref < 1)
  /\ IF file[f].ref > 1
     THEN file' = [file EXCEPT ![f].ref = @ - 1] /\ UNCHANGED ff
     ELSE /\ file' = [file EXCEPT ![f] = NoFile]
          /\ ff' = [ff EXCEPT ![p] = IF file[f].type = "pipe" THEN file[f] ELSE NoFile]

\* Where the closing process goes on from woken, a value of pc: it has more to
\* close, or its call returns, or it is dead and module Proc reaps it.
GoOn(p, place, woken) ==
  LET done == ff'[p] = NoFile /\ todo'[p] = <<>>
      dead == done /\ place = "exit"
  IN /\ pc' = [woken EXCEPT ![p] = IF dead THEN "unused" ELSE IF done THEN "user" ELSE place]
     /\ killed' = [killed EXCEPT ![p] = @ /\ ~dead]
     /\ late' = [late EXCEPT ![p] = @ /\ ~dead]

sys_close(p, fd) ==
  /\ Calls(p) /\ ofile[p][fd] # 0
  /\ ofile' = [ofile EXCEPT ![p][fd] = 0]
  /\ Drop(p, ofile[p][fd])
  /\ UNCHANGED todo
  /\ GoOn(p, "close", pc)
  /\ UNCHANGED <<pipe, fresh, io, quiet>>

\* exit(), by the process's own call or because it was killed
exit(p) ==
  /\ pc[p] = "user" /\ p # InitProc
  /\ ofile' = [ofile EXCEPT ![p] = [fd \in Fd |-> 0]]
  /\ todo' = [todo EXCEPT ![p] = SelectSeq([i \in 1 .. NOFILE |-> ofile[p][i - 1]],
                                          LAMBDA f : f # 0)]
  /\ UNCHANGED ff
  /\ GoOn(p, "exit", pc)
  /\ UNCHANGED <<file, pipe, fresh, io, quiet, panicked>>

\* The next fileclose() of exit() or of a failed call
fileclose(p) ==
  /\ pc[p] \in {"close", "exit"} /\ ff[p] = NoFile /\ todo[p] # <<>>
  /\ Drop(p, Head(todo[p]))
  /\ todo' = [todo EXCEPT ![p] = Tail(@)]
  /\ GoOn(p, pc[p], pc)
  /\ UNCHANGED <<pipe, ofile, fresh, io, quiet>>

\* Nobody is between a test and the sleep, where a pipe call holds p->lock.
PipeLockFree(g) == \A p \in Proc : pc[p] \in HoldsPipeLock => io[p].pipe # g

\* wakeup(&p->nread) and wakeup(&p->nwrite)
WakeReaders(g) ==
  [p \in Proc |-> IF pc[p] = "rasleep" /\ io[p].pipe = g THEN "read" ELSE pc[p]]
WakeWriters(g) ==
  [p \in Proc |-> IF pc[p] = "wasleep" /\ io[p].pipe = g THEN "write" ELSE pc[p]]

\* The last close of one end; the page goes with the last end.
EndClosed(g, write) ==
  LET left == IF write THEN [pipe[g] EXCEPT !.writeopen = FALSE]
                       ELSE [pipe[g] EXCEPT !.readopen = FALSE]
  IN IF left.readopen \/ left.writeopen THEN left ELSE NoPipe

pipecloseNoWakeup(p) ==
  /\ ff[p].type = "pipe" /\ PipeLockFree(ff[p].pipe)
  /\ pipe' = [pipe EXCEPT ![ff[p].pipe] = EndClosed(ff[p].pipe, ff[p].writable)]
  /\ ff' = [ff EXCEPT ![p] = NoFile] /\ UNCHANGED todo
  /\ GoOn(p, pc[p], pc)
  /\ UNCHANGED <<file, ofile, fresh, io, quiet, panicked>>

pipeclose(p) ==
  /\ ff[p].type = "pipe" /\ PipeLockFree(ff[p].pipe)
  /\ LET g == ff[p].pipe IN
       /\ pipe' = [pipe EXCEPT ![g] = EndClosed(g, ff[p].writable)]
       /\ ff' = [ff EXCEPT ![p] = NoFile] /\ UNCHANGED todo
       /\ GoOn(p, pc[p], IF ff[p].writable THEN WakeReaders(g) ELSE WakeWriters(g))
       /\ quiet' = IF ff[p].writable \/ ~pipe'[g].used THEN quiet \ {g} ELSE quiet
  /\ UNCHANGED <<file, ofile, fresh, io, panicked>>
-----------------------------------------------------------------------------
(***************************************************************************)
(* piperead() and pipewrite()                                               *)
(***************************************************************************)

\* sys_read() and sys_write() of a pipe; an inode's data is module Blocks's.
sys_rw(p, fd, n, write) ==
  /\ Calls(p) /\ ofile[p][fd] # 0
  /\ file[ofile[p][fd]].writable = write
  /\ file[ofile[p][fd]].type # "inode"
  /\ IF file[ofile[p][fd]].type = "none"
     THEN panicked' = TRUE /\ UNCHANGED <<io, pc>>
     ELSE /\ io' = [io EXCEPT ![p] = [pipe |-> file[ofile[p][fd]].pipe, left |-> IF write THEN n ELSE 0,
                                    want |-> IF write THEN 0 ELSE n, got |-> <<>>]]
          /\ Goto(p, IF write THEN "write" ELSE "read")
          /\ UNCHANGED panicked
  /\ UNCHANGED <<file, pipe, ofile, fresh, todo, ff, killed, late, quiet>>

Return(p, woken) ==
  /\ pc' = [woken EXCEPT ![p] = "user"]
  /\ io' = [io EXCEPT ![p] = NoIo]

Waiting(g) == (pipe[g].nwrite - pipe[g].nread) % WIDTH

\* What the reader is given: the last bytes first, and the first ones first
CopiedLast(g, n) == [i \in 1 .. n |-> pipe[g].data[(pipe[g].nwrite - i) % PIPESIZE]]

Copied(g, n) == [i \in 1 .. n |-> pipe[g].data[(pipe[g].nread + i - 1) % PIPESIZE]]

\* A byte that has been read is forgotten: nothing can see it any more.
Taken(g, n) ==
  [pipe[g] EXCEPT !.nread = (@ + n) % WIDTH,
                  !.data = [i \in 0 .. PIPESIZE - 1 |->
                             IF (i - pipe[g].nread) % PIPESIZE < n THEN NoByte ELSE @[i]]]

piperead(p) ==
  /\ pc[p] = "read" /\ PipeLockFree(io[p].pipe)
  /\ LET g == io[p].pipe
         n == Min({io[p].want, Waiting(g)})
     IN IF Waiting(g) = 0 /\ pipe[g].writeopen
        THEN /\ IF killed[p] THEN Return(p, pc) ELSE Goto(p, "rsleep") /\ UNCHANGED io
             /\ UNCHANGED <<pipe, quiet>>
        ELSE /\ pipe' = [pipe EXCEPT ![g] = Taken(g, n)]
             /\ pc' = [WakeWriters(g) EXCEPT ![p] = "copied"]
             /\ io' = [io EXCEPT ![p] = [NoIo EXCEPT !.got = Copied(g, n)]]
             /\ UNCHANGED quiet
  /\ UNCHANGED <<file, ofile, fresh, todo, ff, killed, late, panicked>>

\* piperead() returns to the program, with the lock released.
ReadReturns(p) ==
  /\ pc[p] = "copied"
  /\ Return(p, pc)
  /\ UNCHANGED <<file, pipe, ofile, fresh, todo, ff, killed, late, quiet, panicked>>

\* p->nwrite == p->nread + PIPESIZE ends the copying of addr[0..n).
Room(g) == PIPESIZE - Waiting(g)

Stored(g, n, p) ==
  [pipe[g] EXCEPT !.nwrite = (@ + n) % WIDTH,
                  !.data = [i \in 0 .. PIPESIZE - 1 |->
                             LET k == (i - pipe[g].nwrite) % PIPESIZE
                             IN  IF k < n THEN io[p].left - k ELSE @[i]]]

\* A full pipe: give up if nobody can read it or the writer is killed, and then
\* without waking a reader; else wake the readers and sleep.
pipewrite(p) ==
  /\ pc[p] = "write" /\ PipeLockFree(io[p].pipe)
  /\ LET g == io[p].pipe
         n == Min({io[p].left, Room(g)})
     IN /\ pipe' = [pipe EXCEPT ![g] = Stored(g, n, p)]
        /\ IF n = io[p].left
           THEN Return(p, WakeReaders(g)) /\ quiet' = quiet \ {g}
           ELSE IF ~pipe[g].readopen \/ killed[p]
           THEN Return(p, pc) /\ quiet' = IF n > 0 THEN quiet \cup {g} ELSE quiet
           ELSE /\ pc' = [WakeReaders(g) EXCEPT ![p] = "wsleep"]
                /\ io' = [io EXCEPT ![p].left = @ - n]
                /\ quiet' = quiet \ {g}
  /\ UNCHANGED <<file, ofile, fresh, todo, ff, killed, late, panicked>>

\* sleep(), which lets the pipe's lock go
FallAsleep(p) ==
  /\ pc[p] \in HoldsPipeLock
  /\ Goto(p, IF pc[p] = "rsleep" THEN "rasleep" ELSE "wasleep")
  /\ UNCHANGED <<file, pipe, ofile, fresh, todo, ff, io, killed, late, quiet, panicked>>

killNoWakeup(p) ==
  /\ pc[p] \in {"read", "write"} \cup Asleep \cup HoldsPipeLock
  /\ ~killed[p] /\ p # InitProc
  /\ killed' = [killed EXCEPT ![p] = TRUE]
  /\ late' = [late EXCEPT ![p] = pc[p] \in HoldsPipeLock]
  /\ UNCHANGED <<file, pipe, ofile, pc, fresh, todo, ff, io, quiet, panicked>>

\* kill() of a process in a pipe call; elsewhere it only makes the process exit
\* when it is back in user mode, which exit() allows anyway.
kill(p) ==
  /\ pc[p] \in {"read", "write"} \cup Asleep \cup HoldsPipeLock
  /\ ~killed[p] /\ p # InitProc
  /\ killed' = [killed EXCEPT ![p] = TRUE]
  /\ late' = [late EXCEPT ![p] = pc[p] \in HoldsPipeLock]
  /\ pc' = [pc EXCEPT ![p] = IF @ = "rasleep" THEN "read" ELSE IF @ = "wasleep" THEN "write" ELSE @]
  /\ UNCHANGED <<file, pipe, ofile, fresh, todo, ff, io, quiet, panicked>>
-----------------------------------------------------------------------------
Next ==
  \E p \in Proc :
    \/ \E fd \in Fd : \/ sys_dup(p, fd) \/ sys_close(p, fd)
                      \/ \E n \in Reads : sys_rw(p, fd, n, FALSE)
                      \/ \E n \in Writes : sys_rw(p, fd, n, TRUE)
    \/ sys_open(p)
    \/ \E q \in Proc : fork(p, q)
    \/ PipeFile(p) \/ (\E ok \in BOOLEAN : PipePage(p, ok))
    \/ exit(p) \/ fileclose(p) \/ pipeclose(p)
    \/ piperead(p) \/ ReadReturns(p) \/ pipewrite(p) \/ FallAsleep(p) \/ kill(p)

Spec == Init /\ [][Next]_vars

\* The steps a process takes inside the kernel ...
Runs(p) == \/ (pc[p] = "pipe" /\ PipeFile(p)) \/ (\E ok \in BOOLEAN : PipePage(p, ok))
           \/ fileclose(p) \/ pipeclose(p)
           \/ piperead(p) \/ ReadReturns(p) \/ pipewrite(p) \/ FallAsleep(p)

\* ... are taken again and again: it is scheduled, and gets the spin locks it wants.
Fairness == \A p \in Proc : SF_vars(Runs(p))

FairSpec == Spec /\ Fairness
-----------------------------------------------------------------------------
(***************************************************************************)
(* Properties                                                               *)
(***************************************************************************)
Pending(p, i, f) == \/ i <= Len(fresh[p]) /\ fresh[p][i] = f
                    \/ i <= Len(todo[p]) /\ todo[p][i] = f

\* f->ref counts the descriptors that name the file and the calls that still
\* have to give it a descriptor or to close it: however fork(), dup(), failed
\* pipe() calls and exits interleave, no file leaks and none is closed twice.
RefsCounted ==
  /\ \A f \in File :
       file[f].ref = Cardinality({x \in Proc \X Fd : ofile[x[1]][x[2]] = f})
                     + Cardinality({x \in Proc \X (1 .. NFILE) : Pending(x[1], x[2], f)})
  /\ ~panicked

\* Who can still reach an end of the pipe on page g
HasEnd(g, write) ==
  \/ \E f \in File : /\ file[f].ref > 0 /\ file[f].type = "pipe"
                      /\ file[f].pipe = g /\ file[f].writable = write
  \/ \E p \in Proc : ff[p].type = "pipe" /\ ff[p].pipe = g /\ ff[p].writable = write

\* A pipe's readopen and writeopen say exactly whether a file for that end is
\* still open; its page is freed with the second one, and nobody inside
\* piperead() or pipewrite() is left on a freed page.
PipeEndsMatchFiles ==
  /\ \A g \in Page : /\ pipe[g].readopen = HasEnd(g, FALSE)
                      /\ pipe[g].writeopen = HasEnd(g, TRUE)
                      /\ pipe[g].used = (pipe[g].readopen \/ pipe[g].writeopen)
  /\ \A p \in Proc : io[p].pipe # 0 => pipe[io[p].pipe].used

\* What a writer still has to write, and what waits in a pipe
ToWrite(p) == [i \in 1 .. io[p].left |-> io[p].left + 1 - i]
Contents(g) ==
  [i \in 1 .. IF pipe[g].used THEN Waiting(g) ELSE 0 |->
     pipe[g].data[(pipe[g].nread + i - 1) % PIPESIZE]]

Queue == INSTANCE Fifo WITH
           Client <- Proc, Pipe <- Page, Capacity <- PIPESIZE,
           in <- [p \in Proc |-> ToWrite(p)], open <- [g \in Page |-> pipe[g].used],
           q <- [g \in Page |-> Contents(g)],
           out <- [p \in Proc |-> io[p].got]

\* Each pipe is a bounded first-in first-out queue of bytes: a read() is given
\* what was written, first of all what was written first, although the counters
\* wrap around and writers are interrupted half way by a full pipe.
PipeIsFifo == Queue!Spec

\* A step of such a queue
FifoStep == UNCHANGED <<pipe, io>> \/ UNCHANGED Queue!vars \/ Queue!Next

\* A process asleep on a pipe waits for something that has not happened: no
\* wakeup is lost.  The exception is a reader of bytes whose writer was killed
\* when the pipe filled up, and returned without waking it.
SleeperHasCause ==
  \A p \in Proc : LET g == io[p].pipe IN
    /\ pc[p] = "rasleep" => (Waiting(g) = 0 /\ pipe[g].writeopen) \/ g \in quiet
    /\ pc[p] = "wasleep" => Waiting(g) = PIPESIZE /\ pipe[g].readopen

\* A killed process is not left asleep on a pipe, unless kill() came between
\* its test of p->killed and its sleep, where nothing wakes it.
KilledNotAsleep == \A p \in Proc : pc[p] \in Asleep /\ killed[p] => late[p]

\* A reader with nobody left to write, or a writer with nobody left to read,
\* returns from its call.
PipeCallReturns ==
  \A p \in Proc :
    /\ (pc[p] \in {"read", "rsleep", "rasleep"} /\ ~pipe[io[p].pipe].writeopen) ~> pc[p] = "user"
    /\ (pc[p] \in {"write", "wsleep", "wasleep"} /\ ~pipe[io[p].pipe].readopen) ~> pc[p] = "user"
==============================================================================
