-------------------------------- MODULE Parts ---------------------------------
(***************************************************************************)
(* The parts of the system that are small enough to be explored together.   *)
(* A behaviour is a behaviour of one part in the set Chosen, named by the   *)
(* variable part.  The log (the part "log") has its own variables, which    *)
(* rest in an initial state while another part runs; because only one part  *)
(* is active, all the others have their variables bound to the same         *)
(* x1, x2, ... x13.                                                         *)
(***************************************************************************)
EXTENDS Log, TLC

CONSTANTS
  Chosen,   \* the parts that are explored
  Reader, Cpu, Thread

VARIABLES part, x1, x2, x3, x4, x5, x6, x7, x8, x9, x10, x11, x12, x13

xs == <<x1, x2, x3, x4, x5, x6, x7, x8, x9, x10, x11, x12, x13>>
partsVars == <<part, xs, vars>>

\* Spin locks and interrupts
Spin == INSTANCE Spinlock WITH
          eflags <- x1, ncli <- x2, intena <- x3, holder <- x4, cur <- x5, todo <- x6,
          saved <- x7, state <- x8, panicked <- x9

\* The console, with a ring of two characters on a screen of two lines
Tty == INSTANCE Console WITH
         Proc <- Reader, Letter <- {"a"}, INPUT_BUF <- 2, WIDTH <- 4, COLS <- 2, ROWS <- 2,
         Sizes <- {2}, buf <- x1, r <- x2, w <- x3, e <- x4, pos <- x5, call <- x6, killed <- x7

\* The allocator of user programs
Heap == INSTANCE Umalloc WITH
          UNIT <- 2, WIDTH <- 64, MORE <- 3, HEAP <- 11, Requests <- {1, 4, 28, 29, 50, 62, 63},
          ring <- x1, freep <- x2, live <- x3, brk <- x4, owned <- x5, wrapped <- x6

\* The file system image
Image == INSTANCE Mkfs WITH
           BSIZE <- 3, NDIRECT <- 2, NINDIRECT <- 3, nmeta <- 4, BitmapBits <- 22,
           Sizes <- {0, 3, 10, 16}, MaxFiles <- 5,
           dinode <- x1, disk <- x2, freeblock <- x3, bitmap <- x4, phase <- x5, content <- x6

\* The selection loops of the scheduler
Pick == INSTANCE SchedLoops WITH
          NPROC <- 4, MaxPrio <- 3, MaxTickets <- 2,
          alg <- x1, R <- x2, priority <- x3, ticketCount <- x4, last <- x5, winner0 <- x6,
          p <- x7, index <- x8, found <- x9, minPP <- x10, minP <- x11, winner <- x12, done <- x13

\* Address spaces and physical pages
Pages == INSTANCE Vm WITH
           NPROC <- 4, NPAGE <- 26, KPT <- 1, Texts <- {1, 2}, MaxHeap <- 1,
           free <- x1, dangling <- x2, proc <- x3, lost <- x4, short <- x5, panicked <- x6

\* Open files, and one pipe of two bytes between two processes
Open == INSTANCE Files WITH
          Proc <- {1, 2}, InitProc <- 1, MaxInodes <- 1, NFILE <- 2, NOFILE <- 2, Page <- {1},
          PIPESIZE <- 2, WIDTH <- 4, Reads <- {2}, Writes <- {3},
          file <- x1, pipe <- x2, ofile <- x3, pc <- x4, fresh <- x5, todo <- x6, ff <- x7,
          io <- x8, killed <- x9, late <- x10, quiet <- x11, panicked <- x12

\* The shell, with lines of up to four characters
Sh == INSTANCE Shell WITH
        Char <- {"a", "cd", " ", "|", "&", ";", "<", ">", "(", ")"}, MaxLine <- 4, MAXARGS <- 3,
        buf <- x1, procs <- x2, failed <- x3

\* grep, with a buffer for two characters
Grepping == INSTANCE Grep WITH
              Text <- {"a", "b"}, MaxRe <- 3, MaxInput <- 3, BUFSIZE <- 3,
              re <- x1, input <- x2, all <- x3, buf <- x4, out <- x5, dropped <- x6

\* Strings and numbers, with bytes of three values and ints of eight bits
Lib == INSTANCE Cstring WITH
         SIZE <- 4, BYTE <- 3, WIDTH <- 256, Bases <- {10, 16},
         mem <- x1, call <- x2, old <- x3, ret <- x4

\* The arguments of system calls, with words of five bits
Fetch == INSTANCE Args WITH
           WORD <- 32, KERNBASE <- 16, NARGS <- 2, sz <- x1, esp <- x2, nul <- x3, got <- x4
-----------------------------------------------------------------------------
\* Variables that a part does not use
Off10 == x11 = 0 /\ x12 = 0 /\ x13 = 0
Off7 == x8 = 0 /\ x9 = 0 /\ x10 = 0 /\ Off10
Off6 == x7 = 0 /\ Off7
Off4 == x5 = 0 /\ x6 = 0 /\ Off6
tail10 == <<x11, x12, x13>>
tail7 == <<x8, x9, x10, tail10>>
tail6 == <<x7, tail7>>
tail4 == <<x5, x6, tail6>>

PartInit ==
  \/ part = "spin" /\ Spin!Init /\ x10 = 0 /\ Off10
  \/ part = "tty" /\ Tty!Init /\ Off7
  \/ part = "heap" /\ Heap!Init /\ Off6
  \/ part = "image" /\ Image!Init /\ Off6
  \/ part = "pick" /\ Pick!Init
  \/ part = "log" /\ x1 = 0 /\ x2 = 0 /\ x3 = 0 /\ x4 = 0 /\ Off4
  \/ part = "pages" /\ Pages!Init /\ Off6
  \/ part = "open" /\ Open!Init /\ x13 = 0
  \/ part = "shell" /\ Sh!Init /\ x4 = 0 /\ Off4
  \/ part = "grep" /\ Grepping!Init /\ Off6
  \/ part = "lib" /\ Lib!Init /\ Off4
  \/ part = "args" /\ Fetch!Init /\ Off4

PartNext ==
  \/ part = "spin" /\ Spin!Next /\ UNCHANGED <<x10, tail10>>
  \/ part = "tty" /\ Tty!Next /\ UNCHANGED tail7
  \/ part = "heap" /\ Heap!Next /\ UNCHANGED tail6
  \/ part = "image" /\ Image!Next /\ UNCHANGED tail6
  \/ part = "pick" /\ Pick!Next
  \/ part = "pages" /\ Pages!Next /\ UNCHANGED tail6
  \/ part = "open" /\ Open!Next /\ UNCHANGED x13
  \/ part = "shell" /\ Sh!Next /\ UNCHANGED <<x4, tail4>>
  \/ part = "grep" /\ Grepping!Next /\ UNCHANGED tail6
  \/ part = "lib" /\ Lib!Next /\ UNCHANGED tail4
  \/ part = "args" /\ Fetch!Next /\ UNCHANGED tail4

LogRests == LET v == CHOOSE v \in Val : TRUE
            IN disk = [b \in Block |-> v] /\ logBlk = [i \in 1 .. SIZE-1 |-> v]

PartsInit ==
  /\ PartInit /\ part \in Chosen
  /\ Init /\ (part = "log" \/ LogRests)

PartsNext ==
  /\ UNCHANGED part
  /\ \/ part = "log" /\ Next /\ UNCHANGED xs
     \/ PartNext /\ UNCHANGED vars

PartsSpec == PartsInit /\ [][PartsNext]_partsVars

Sym == Permutations(Cpu) \cup Permutations(Thread)
-----------------------------------------------------------------------------
(***************************************************************************)
(* The properties of the parts; their modules say more about each           *)
(***************************************************************************)

\* acquire(), release(), popcli() and sched() never panic; a CPU takes interrupts
\* exactly when it neither holds or wants a lock nor is inside an interrupt
\* handler, wherever its thread came from; ncli counts the locks it holds or
\* spins for, across sched(); and the CPUs never all spin for locks that are held.
SpinLocksSound ==
  part = "spin" => /\ Spin!TypeOK /\ Spin!NoPanic /\ Spin!InterruptsMatched
                   /\ Spin!NcliCounts /\ Spin!SomeCpuMoves

\* The console's ring buffer implements the line discipline of module
\* LineDiscipline: finished input is delivered once and in order, and only the
\* unfinished line is edited, although the indices wrap.  A reader asleep in
\* consoleread() has nothing to read, and cgaputc() keeps the cursor on the screen.
TtyDelivers ==
  /\ part = "tty" => Tty!Lines!Init
  /\ [](part = "tty" => Tty!TypeOK /\ Tty!ReaderHasCause /\ Tty!CursorOnScreen)
  /\ [][part = "tty" => Tty!DeliverStep]_partsVars

\* malloc() and free() keep every unit of the heap in exactly one block, the ring
\* of free blocks sorted and joined, and give a block with room for what was
\* asked, unless its rounding wraps.  All of this stops at a request morecore()
\* cannot pass to sbrk(), and only requests of about 2^31 bytes or more are such.
HeapSound ==
  part = "heap" => /\ Heap!TypeOK /\ Heap!HeapPartitioned /\ Heap!RingSorted
                   /\ Heap!RequestFits /\ Heap!OnlyHugeRequestsWrap

\* The files of an image mkfs has made read back as they were put in, its bit
\* map marks exactly the blocks that are named, once, and its root directory
\* ends in free entries.
ImageSound ==
  part = "image" => /\ Image!TypeOK /\ Image!ImageConsistent /\ Image!RootTailFree
                    /\ Image!ImageReadsBack

\* The loops of scheduler() select the slots that SchedPick says; the lottery's
\* finds a process exactly if the winning ticket is below the number of tickets
\* of the RUNNABLE processes.
LoopsSelectThePick ==
  part = "pick" => Pick!LoopsSelectThePick /\ Pick!LotteryFindsWinner

\* No two processes have a frame in common, except for text shared by threads;
\* every page is free or owned, except for those Vm counts as lost; copyuvm(),
\* linkuvm() and unmappages() find every page they take for granted, unless a
\* getpage() has failed; thread_join(), fork() and the calls that hand a stack page
\* over free no page that another process still maps; and an sbrk(), an exec(), a
\* wait() or a failing thread_create() frees none but text shared by threads.
PagesOwned ==
  /\ [](part = "pages" => /\ Pages!TypeOK /\ Pages!PagesPrivate /\ Pages!PagesAccounted
                          /\ Pages!NoPanicElsewhere)
  /\ [][part = "pages" => Pages!KeepOthersPages]_partsVars

\* f->ref counts descriptors and calls in progress exactly; readopen and
\* writeopen tell which ends of a pipe are open; no wakeup of a pipe call is lost
\* but pipewrite()'s own; and kill() wakes a pipe call it does not race with.
FilesSound ==
  part = "open" => /\ Open!TypeOK /\ Open!RefsCounted /\ Open!PipeEndsMatchFiles
                   /\ Open!SleeperHasCause /\ Open!KilledNotAsleep

\* Files!PipeIsFifo: a pipe is a bounded first-in first-out queue of bytes, and
\* what piperead() copies out is what the writers put in, in that order.
PipesAreFifo ==
  /\ part = "open" => Open!Queue!Init
  /\ [][part = "open" => Open!FifoStep]_partsVars

\* parsecmd() accepts the lines of the shell's grammar and reads them as it says;
\* nulterminate() ends every word and cuts none; runcmd() waits for everything
\* that runs in the foreground; and no pipe end is left open, so that a pipeline
\* comes to its end.
ShellRuns ==
  part = "shell" => /\ Sh!TypeOK /\ Sh!ParserFollowsGrammar /\ Sh!WordsTerminated
                    /\ Sh!ForegroundWaitedFor /\ Sh!PipelineMoves

\* grep's matcher finds the lines the pattern means, and grep writes them however
\* read() cuts the file; memmove() is exact although source and destination
\* overlap, strncpy(), safestrcpy() and memset() write what and where they should,
\* strncmp() orders strings by their first n bytes, printint() prints every int
\* and atoi() reads it back; and what a system call accepts as an argument lies
\* inside the process.
StringsSound ==
  /\ part = "grep" => Grepping!TypeOK /\ Grepping!MatcherCorrect /\ Grepping!GrepWritesMatches
  /\ part = "lib" => /\ Lib!TypeOK /\ Lib!MovesExact /\ Lib!StringsCopied
                     /\ Lib!ComparesInOrder /\ Lib!NumbersPrinted
  /\ part = "args" => Fetch!TypeOK /\ Fetch!ArgsInside
==============================================================================
