--------------------------------- MODULE Log ---------------------------------
(***************************************************************************)
(* The write-ahead log of log.c on top of the buffer cache: concurrent      *)
(* calls, group commit, a crash at any point and recovery.                  *)
(*                                                                         *)
(* A critical section of log.lock is one step, a block read or written under*)
(* its buffer's sleep-lock is one step, and the disk writes one block (one   *)
(* sector) at a time.  log_write() tests log.lh.n and log.outstanding before *)
(* it takes log.lock, so it is two steps.  A header is the sequence of its   *)
(* first n entries.                                                         *)
(***************************************************************************)
EXTENDS Integers, Sequences, FiniteSets

CONSTANTS
  Op,           \* the processes that make file system calls
  Boot,         \* the first process, in initlog()
  Block,        \* blocks outside the log
  Val,          \* contents of a block
  Absent,       \* no content: the block is not in the cache; no block
  LOGSIZE, MAXOPBLOCKS,
  SIZE,         \* log.size: the blocks of the log, its header included
  OPBLOCKS      \* the most blocks a call really writes

\* filewrite() and the calls of sysfile.c write at most 7 blocks: two fewer
\* than MAXOPBLOCKS make up for the header, which LOGSIZE does not count, and
\* for the test of log_write(), which refuses a full log before absorption.
ASSUME LogAssumption ==
  /\ IsFiniteSet(Op) /\ Boot \notin Op /\ Absent \notin Val \cup Block
  /\ LOGSIZE \in Nat /\ MAXOPBLOCKS \in Nat /\ SIZE \in Nat /\ OPBLOCKS \in Nat
  /\ 0 < MAXOPBLOCKS /\ OPBLOCKS <= MAXOPBLOCKS /\ MAXOPBLOCKS <= LOGSIZE
  /\ SIZE - 1 <= LOGSIZE
  /\ LOGSIZE - (MAXOPBLOCKS - OPBLOCKS) < SIZE - 1

VARIABLES
  disk, logBlk, head,             \* on disk: home blocks, log blocks, header
  cache, dirty,                   \* buffer cache: data, blocks with B_DIRTY
  lh, outstanding, committing,    \* struct log
  pc, tail,                       \* control, and the index of the copy loops
  buf,                            \* the block whose buffer the call has locked
  wrote,                          \* the blocks written by the current call
  panicked

diskVars == <<disk, logBlk, head>>
memVars  == <<cache, dirty, lh, outstanding, committing>>
vars == <<diskVars, memVars, pc, tail, buf, wrote, panicked>>

Process == Op \cup {Boot}
PCs == {"idle", "asleep", "woken", "run", "append", "commit", "write_log",
        "install", "finish", "read_head"}

TypeOK ==
  /\ disk \in [Block -> Val]
  /\ logBlk \in [1..SIZE-1 -> Val]
  /\ head \in Seq(Block) /\ lh \in Seq(Block)
  /\ cache \in [Block -> Val \cup {Absent}]
  /\ dirty \subseteq Block
  /\ outstanding \in Nat /\ committing \in BOOLEAN
  /\ pc \in [Process -> PCs]
  /\ tail \in [Process -> Nat]
  /\ buf \in [Op -> Block \cup {Absent}]
  /\ wrote \in [Op -> SUBSET Block]
  /\ panicked \in BOOLEAN

\* A file system made by mkfs: an empty log.
Init ==
  /\ disk \in [Block -> Val]
  /\ logBlk \in {[i \in 1..SIZE-1 |-> v] : v \in Val}
  /\ head = <<>> /\ lh = <<>>
  /\ cache = [b \in Block |-> Absent] /\ dirty = {}
  /\ outstanding = 0 /\ committing = FALSE
  /\ pc = [p \in Process |-> IF p = Boot THEN "read_head" ELSE "idle"]
  /\ tail = [p \in Process |-> 0]
  /\ buf = [o \in Op |-> Absent]
  /\ wrote = [o \in Op |-> {}]
  /\ panicked = FALSE

Logged(h) == {h[i] : i \in DOMAIN h}
Up == pc[Boot] = "idle"
Held(b) == \E o \in Op : buf[o] = b

-----------------------------------------------------------------------------
(* The buffer cache.                                                        *)

\* What bread() returns.
Content == [b \in Block |-> IF cache[b] = Absent THEN disk[b] ELSE cache[b]]

Read(b) ==
  /\ ~panicked /\ Up /\ cache[b] = Absent
  /\ cache' = [cache EXCEPT ![b] = disk[b]]
  /\ UNCHANGED <<diskVars, dirty, lh, outstanding, committing, pc, tail, buf,
                 wrote, panicked>>

\* bget() reuses a buffer nobody refers to, unless B_DIRTY is set.
Recycle(b) ==
  /\ ~panicked
  /\ cache[b] # Absent /\ b \notin dirty /\ ~Held(b)
  /\ cache' = [cache EXCEPT ![b] = Absent]
  /\ UNCHANGED <<diskVars, dirty, lh, outstanding, committing, pc, tail, buf,
                 wrote, panicked>>

-----------------------------------------------------------------------------
(* begin_op(), log_write(), end_op().                                       *)
Goto(p, l) == pc' = [pc EXCEPT ![p] = l]

\* wakeup(&log), by p, which goes on at l.
WakeAll(p, l) ==
  pc' = [[q \in Process |-> IF pc[q] = "asleep" THEN "woken" ELSE pc[q]]
           EXCEPT ![p] = l]

\* Mutant: no space is reserved for the calls that are running.
MustWaitForCommit == committing

MustWait ==
  committing \/ Len(lh) + (outstanding + 1) * MAXOPBLOCKS > LOGSIZE

begin_op(o) ==
  /\ ~panicked /\ Up /\ pc[o] \in {"idle", "woken"}
  /\ \/ /\ MustWait
        /\ Goto(o, "asleep")
        /\ UNCHANGED outstanding
     \/ /\ ~MustWait
        /\ outstanding' = outstanding + 1
        /\ Goto(o, "run")
  /\ UNCHANGED <<diskVars, cache, dirty, lh, committing, tail, buf, wrote,
                 panicked>>

\* The caller has changed b, whose buffer it has locked; log_write() looks at
\* log.lh.n and log.outstanding without the lock ...
log_write(o, b, v) ==
  /\ ~panicked /\ pc[o] = "run" /\ ~Held(b)
  /\ b \in wrote[o] \/ Cardinality(wrote[o]) < OPBLOCKS
  /\ cache' = [cache EXCEPT ![b] = v]
  /\ buf' = [buf EXCEPT ![o] = b]
  /\ panicked' = \/ Len(lh) >= LOGSIZE \/ Len(lh) >= SIZE - 1
                 \/ outstanding < 1
  /\ Goto(o, "append")
  /\ UNCHANGED <<diskVars, dirty, lh, outstanding, committing, tail, wrote>>

\* Mutant: no absorption.
append_again(o) ==
  /\ ~panicked /\ pc[o] = "append"
  /\ lh' = Append(lh, buf[o])
  /\ dirty' = dirty \cup {buf[o]}
  /\ wrote' = [wrote EXCEPT ![o] = @ \cup {buf[o]}]
  /\ buf' = [buf EXCEPT ![o] = Absent]
  /\ Goto(o, "run")
  /\ UNCHANGED <<diskVars, cache, outstanding, committing, tail, panicked>>

\* ... and records the block with it, once.
append(o) ==
  /\ ~panicked /\ pc[o] = "append"
  /\ lh' = IF buf[o] \in Logged(lh) THEN lh ELSE Append(lh, buf[o])
  /\ dirty' = dirty \cup {buf[o]}
  /\ wrote' = [wrote EXCEPT ![o] = @ \cup {buf[o]}]
  /\ buf' = [buf EXCEPT ![o] = Absent]
  /\ Goto(o, "run")
  /\ UNCHANGED <<diskVars, cache, outstanding, committing, tail, panicked>>

end_op(o) ==
  /\ ~panicked /\ pc[o] = "run"
  /\ outstanding' = outstanding - 1
  /\ panicked' = committing
  /\ wrote' = [wrote EXCEPT ![o] = {}]
  /\ \/ outstanding = 1 /\ committing' = TRUE /\ Goto(o, "commit")
     \/ outstanding # 1 /\ WakeAll(o, "idle") /\ UNCHANGED committing
  /\ UNCHANGED <<diskVars, cache, dirty, lh, tail, buf>>

-----------------------------------------------------------------------------
(* commit(), and recovery in initlog().                                     *)
commit(o) ==
  /\ ~panicked /\ pc[o] = "commit"
  /\ Goto(o, IF Len(lh) > 0 THEN "write_log" ELSE "finish")
  /\ UNCHANGED <<diskVars, memVars, tail, buf, wrote, panicked>>

\* One block of write_log(): from the cache to the log.
write_log(o) ==
  LET t == tail[o] + 1 IN
  /\ ~panicked /\ pc[o] = "write_log" /\ t <= Len(lh)
  /\ logBlk' = [logBlk EXCEPT ![t] = Content[lh[t]]]
  /\ cache' = [cache EXCEPT ![lh[t]] = Content[lh[t]]]
  /\ tail' = [tail EXCEPT ![o] = t]
  /\ UNCHANGED <<disk, head, dirty, lh, outstanding, committing, pc, buf, wrote,
                 panicked>>

\* write_head(): the commit point.
write_head(o) ==
  /\ ~panicked /\ pc[o] = "write_log" /\ tail[o] = Len(lh)
  /\ head' = lh
  /\ tail' = [tail EXCEPT ![o] = 0]
  /\ Goto(o, "install")
  /\ UNCHANGED <<disk, logBlk, memVars, buf, wrote, panicked>>

\* One block of install_trans(): from the log to its home, through the cache.
install_trans(p) ==
  LET t == tail[p] + 1 IN
  /\ ~panicked /\ pc[p] = "install" /\ t <= Len(lh)
  /\ cache' = [cache EXCEPT ![lh[t]] = logBlk[t]]
  /\ disk' = [disk EXCEPT ![lh[t]] = logBlk[t]]
  /\ dirty' = dirty \ {lh[t]}
  /\ tail' = [tail EXCEPT ![p] = t]
  /\ UNCHANGED <<logBlk, head, lh, outstanding, committing, pc, buf, wrote,
                 panicked>>

\* log.lh.n = 0 and write_head(): the transaction is erased.
clear_head(p) ==
  /\ ~panicked /\ pc[p] = "install" /\ tail[p] = Len(lh)
  /\ lh' = <<>> /\ head' = <<>>
  /\ tail' = [tail EXCEPT ![p] = 0]
  /\ Goto(p, IF p = Boot THEN "idle" ELSE "finish")
  /\ UNCHANGED <<disk, logBlk, cache, dirty, outstanding, committing, buf,
                 wrote, panicked>>

\* Mutant: no wakeup after the commit.
finish_silently(o) ==
  /\ ~panicked /\ pc[o] = "finish"
  /\ committing' = FALSE
  /\ Goto(o, "idle")
  /\ UNCHANGED <<diskVars, cache, dirty, lh, outstanding, tail, buf, wrote,
                 panicked>>

\* The end of end_op(), after commit().
finish(o) ==
  /\ ~panicked /\ pc[o] = "finish"
  /\ committing' = FALSE
  /\ WakeAll(o, "idle")
  /\ UNCHANGED <<diskVars, cache, dirty, lh, outstanding, tail, buf, wrote,
                 panicked>>

\* Mutant: recovery erases the log without installing it.
read_head_erasing ==
  /\ ~panicked /\ pc[Boot] = "read_head"
  /\ lh' = <<>> /\ head' = <<>>
  /\ Goto(Boot, "install")
  /\ UNCHANGED <<disk, logBlk, cache, dirty, outstanding, committing, tail, buf,
                 wrote, panicked>>

read_head ==
  /\ ~panicked /\ pc[Boot] = "read_head"
  /\ lh' = head
  /\ Goto(Boot, "install")
  /\ UNCHANGED <<diskVars, cache, dirty, outstanding, committing, tail, buf,
                 wrote, panicked>>

\* The machine stops and boots again: the disk is all that is left.
Crash ==
  /\ cache' = [b \in Block |-> Absent] /\ dirty' = {}
  /\ lh' = <<>> /\ outstanding' = 0 /\ committing' = FALSE
  /\ pc' = [p \in Process |-> IF p = Boot THEN "read_head" ELSE "idle"]
  /\ tail' = [p \in Process |-> 0]
  /\ buf' = [o \in Op |-> Absent]
  /\ wrote' = [o \in Op |-> {}]
  /\ panicked' = FALSE
  /\ UNCHANGED diskVars

-----------------------------------------------------------------------------
\* The steps of end_op() once it commits.
CommitStep(o) ==
  commit(o) \/ write_log(o) \/ write_head(o) \/ install_trans(o)
  \/ clear_head(o) \/ finish(o)

Recover == read_head \/ install_trans(Boot) \/ clear_head(Boot)

Next ==
  \/ \E o \in Op : begin_op(o) \/ append(o) \/ end_op(o) \/ CommitStep(o)
  \/ \E o \in Op, b \in Block, v \in Val : log_write(o, b, v)
  \/ \E b \in Block : Read(b) \/ Recycle(b)
  \/ Recover
  \/ Crash

Spec == Init /\ [][Next]_vars

\* The disk answers, so recovery and commits go on; a call writes finitely
\* often and then ends.
Fairness ==
  /\ WF_vars(Recover)
  /\ \A o \in Op : /\ WF_vars(CommitStep(o)) /\ WF_vars(append(o))
                   /\ SF_vars(end_op(o))

FairSpec == Spec /\ Fairness

-----------------------------------------------------------------------------
(* Properties.                                                              *)
Active == {o \in Op : pc[o] \in {"run", "append"}}

\* What recovery makes of the disk as it is now.
Durable ==
  [b \in Block |-> IF b \in Logged(head)
                   THEN logBlk[CHOOSE i \in DOMAIN head : head[i] = b]
                   ELSE disk[b]]

\* What calls read; during recovery, what they will read.
Current == IF Up THEN Content ELSE Durable

Abs == INSTANCE AtomicLog WITH durable <- Durable, current <- Current,
                               active <- Active

\* Transactions are atomic, survive crashes (also during recovery) and are
\* durable when the last end_op() returns: log.c implements AtomicLog.
TransactionsAtomic == Abs!ASpec

\* The log never runs out of space: the reservation of begin_op() is enough
\* although log_write() tests for it without the lock, so no panic of log.c is
\* reached and write_log() stays within the blocks of the log.
SpaceSuffices == ~panicked /\ Len(lh) <= SIZE - 1

\* No lost wakeup in begin_op(): while a call sleeps there, some other call is
\* running or committing, and will call wakeup(&log).
SleeperHasWaker ==
  (\E o \in Op : pc[o] = "asleep") => committing \/ Active # {}

\* A call that sleeps in begin_op() is eventually woken.
SleeperWoken == \A o \in Op : pc[o] = "asleep" ~> pc[o] # "asleep"

-----------------------------------------------------------------------------
(* The inductive invariant behind the safety properties.                    *)
Committers == {o \in Op : pc[o] \in {"commit", "write_log", "install", "finish"}}

\* Who may be where: nobody before recovery is over; one committer, and then
\* no call is running; outstanding counts the running ones.
ControlOK ==
  /\ pc[Boot] \in {"read_head", "install", "idle"}
  /\ \A o \in Op : pc[o] # "read_head"
  /\ ~Up => \A o \in Op : pc[o] = "idle"
  /\ committing <=> Committers # {}
  /\ committing => Active = {}
  /\ \A o, q \in Committers : o = q
  /\ outstanding = Cardinality(Active)
  /\ \A o \in Op : /\ pc[o] = "append" <=> buf[o] # Absent
                   /\ pc[o] \notin {"run", "append"} => wrote[o] = {}
                   /\ \A q \in Op : buf[o] = buf[q] /\ buf[o] # Absent => o = q

\* A block is logged once; what a call wrote is logged; the log is empty when
\* nobody is running or committing, and once the transaction is erased.
LoggedOK ==
  /\ \A i, j \in DOMAIN lh : lh[i] = lh[j] => i = j
  /\ \A o \in Op : wrote[o] \subseteq Logged(lh)
  /\ pc[Boot] = "read_head" => lh = <<>>
  /\ Up /\ Active = {} /\ ~committing => lh = <<>>
  /\ \A o \in Op : pc[o] = "finish" => lh = <<>>

\* A buffer that nobody has locked differs from the disk only if it is pinned,
\* and then its block is logged.
CacheOK ==
  /\ dirty \subseteq Logged(lh)
  /\ \A b \in dirty : cache[b] # Absent
  /\ \A b \in Block : b \notin dirty /\ ~Held(b) => cache[b] \in {Absent, disk[b]}
  /\ \A b \in Block : Held(b) => cache[b] # Absent
  /\ ~Up => dirty = {}

\* The header is written only when the log blocks hold the logged contents,
\* and erased only when all of them are at home.
HeaderOK ==
  /\ head # <<>> => \/ pc[Boot] = "read_head"
                    \/ \E p \in Process : pc[p] = "install"
  /\ \A i, j \in DOMAIN head : head[i] = head[j] => i = j
  /\ Len(head) <= SIZE - 1
  /\ \A p \in Process : pc[p] = "install" =>
       /\ head = lh /\ tail[p] <= Len(lh)
       /\ \A i \in 1..tail[p] : lh[i] \notin dirty /\ disk[lh[i]] = logBlk[i]
       /\ p # Boot => \A i \in DOMAIN lh : Content[lh[i]] = logBlk[i]
  /\ \A o \in Op : pc[o] = "write_log" =>
       /\ tail[o] <= Len(lh)
       /\ \A i \in 1..tail[o] : Content[lh[i]] = logBlk[i]
  /\ \A p \in Process : pc[p] \notin {"write_log", "install"} => tail[p] = 0

\* The log entries that the running calls A, having written w, may still add ...
Unused(A, w) == {e \in A \X (1..OPBLOCKS) : e[2] > Cardinality(w[e[1]])}

\* ... fit in the log together with those it has.
ReservationOK ==
  /\ Active # {} =>
       Len(lh) + Cardinality(Unused(Active, wrote))
         + (MAXOPBLOCKS - OPBLOCKS) * Cardinality(Active) <= LOGSIZE
  /\ Len(lh) <= SIZE - 1
  /\ \A o \in Op : IsFiniteSet(wrote[o])
  /\ \A o \in Op : buf[o] # Absent =>
       buf[o] \in wrote[o] \/ Cardinality(wrote[o]) < OPBLOCKS

\* The inductive invariant of the log.
LogInv ==
  /\ TypeOK /\ ~panicked
  /\ ControlOK /\ LoggedOK /\ CacheOK /\ HeaderOK /\ ReservationOK
=============================================================================
