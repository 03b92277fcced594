--------------------------------- MODULE Live ---------------------------------
(***************************************************************************)
(* The parts of the kernel in which one process waits for another, or for   *)
(* the disk, under the fairness their modules state.  A behaviour is one of *)
(* the sleep lock, of the disk, of the log or of the pipes; the others rest *)
(***************************************************************************)
EXTENDS SleepLock, Integers, Sequences

CONSTANTS Reader, Disk, NoBlock

VARIABLES
  part,
  dbuf, dmru, dqueue, dcmd, ddisk, dpc, dmine, dpanicked, dcontent, dbad,
  ldisk, llogBlk, lhead, lcache, ldirty, llh, lout, lcommitting, lpc, ltail, lbuf, lwrote,
  lpanicked,
  ffile, fpipe, fofile, fpc, ffresh, ftodo, fff, fio, fkilled, flate, fquiet, fpanicked

dvars == <<dbuf, dmru, dqueue, dcmd, ddisk, dpc, dmine, dpanicked, dcontent, dbad>>
lvars == <<ldisk, llogBlk, lhead, lcache, ldirty, llh, lout, lcommitting, lpc, ltail, lbuf,
           lwrote, lpanicked>>
fvars == <<ffile, fpipe, fofile, fpc, ffresh, ftodo, fff, fio, fkilled, flate, fquiet, fpanicked>>

\* The buffer cache over the disk driver, with two buffers for two readers
Ide == INSTANCE Bcache WITH
         Proc <- Reader, Block <- Disk, NBUF <- 2, MaxPinned <- 0,
         buf <- dbuf, mru <- dmru, queue <- dqueue, cmd <- dcmd, disk <- ddisk, pc <- dpc,
         mine <- dmine, panicked <- dpanicked, content <- dcontent, bad <- dbad

\* The log, with room for one call and for two only while it is empty
Logs == INSTANCE Log WITH
          Op <- Reader, Boot <- Nobody, Block <- Disk, Val <- {0}, Absent <- NoBlock,
          LOGSIZE <- 4, MAXOPBLOCKS <- 2, SIZE <- 5, OPBLOCKS <- 1,
          disk <- ldisk, logBlk <- llogBlk, head <- lhead, cache <- lcache, dirty <- ldirty,
          lh <- llh, outstanding <- lout, committing <- lcommitting, pc <- lpc, tail <- ltail,
          buf <- lbuf, wrote <- lwrote, panicked <- lpanicked

\* One pipe of one byte between two processes
Pipes == INSTANCE Files WITH
           Proc <- {1, 2}, InitProc <- 1, NFILE <- 2, NOFILE <- 2, Page <- {1}, PIPESIZE <- 1,
           WIDTH <- 2, Reads <- {2}, Writes <- {2}, MaxInodes <- 0,
           file <- ffile, pipe <- fpipe, ofile <- fofile, pc <- fpc, fresh <- ffresh,
           todo <- ftodo, ff <- fff, io <- fio, killed <- fkilled, late <- flate,
           quiet <- fquiet, panicked <- fpanicked

DiskRests ==
  /\ dbuf = <<>> /\ dmru = <<>> /\ dqueue = <<>> /\ dcmd = Ide!NoCmd /\ ddisk = <<>>
  /\ dpc = [r \in Reader |-> "rests"] /\ dmine = [r \in Reader |-> 0]
  /\ dpanicked = FALSE /\ dcontent = <<>> /\ dbad = {}

PipesRest ==
  /\ ffile = <<>> /\ fpipe = <<>> /\ fofile = <<>> /\ fpc = <<"rests", "rests">>
  /\ ffresh = <<>> /\ ftodo = << <<>>, <<>> >> /\ fff = <<Pipes!NoFile, Pipes!NoFile>>
  /\ fio = <<Pipes!NoIo, Pipes!NoIo>> /\ fkilled = <<>> /\ flate = <<>> /\ fquiet = {}
  /\ fpanicked = FALSE

LiveInit ==
  /\ part \in {"sleeplock", "disk", "log", "pipes"}
  /\ Init /\ Logs!Init
  /\ IF part = "disk" THEN Ide!Init ELSE DiskRests
  /\ IF part = "pipes" THEN Pipes!Init ELSE PipesRest

LiveNext ==
  /\ UNCHANGED part
  /\ \/ part = "sleeplock" /\ Next /\ UNCHANGED <<dvars, lvars, fvars>>
     \/ part = "disk" /\ Ide!Next /\ UNCHANGED <<vars, lvars, fvars>>
     \/ part = "log" /\ Logs!Next /\ UNCHANGED <<vars, dvars, fvars>>
     \/ part = "pipes" /\ Pipes!Next /\ UNCHANGED <<vars, dvars, lvars>>

LiveSpec == LiveInit /\ [][LiveNext]_<<part, vars, dvars, lvars, fvars>>
-----------------------------------------------------------------------------
(***************************************************************************)
(* Properties                                                               *)
(***************************************************************************)

\* SleepLock!LockMovesOn: a process asleep in acquiresleep() gets the lock, or
\* is woken and sees another one get it.
LockPassedOn == part = "sleeplock" /\ Fairness => LockMovesOn

\* Bcache!RequestServed: a process asleep in iderw() gets its buffer back,
\* whatever is queued before it and whoever kills it meanwhile.
DiskServes == part = "disk" /\ Ide!Fairness => Ide!RequestServed

\* Log!SleeperWoken: a call that sleeps in begin_op(), for space in the log or for
\* the end of a commit, is woken.
SleepersWoken == part = "log" /\ Logs!Fairness => Logs!SleeperWoken

\* Files!PipeCallReturns: a pipe call whose other end is closed returns.
PipesReturn == part = "pipes" /\ Pipes!Fairness => Pipes!PipeCallReturns
==============================================================================
