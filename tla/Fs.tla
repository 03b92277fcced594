---------------------------------- MODULE Fs ----------------------------------
(***************************************************************************)
(* Inodes, directories and path names (fs.c) under the system calls that    *)
(* use them (sysfile.c).  A step is what a process does while it holds an   *)
(* inode's sleep lock, or one critical section of icache.lock.              *)
(*                                                                          *)
(* A call runs inside a transaction, so the disk a crash leaves behind is   *)
(* the one of the last moment without a call in progress (module Log): the  *)
(* crash is a step of such moments.  The inode cache is indexed by inode    *)
(* number: iget() never has two entries for one inode, and NINODE is        *)
(* assumed to exceed the number of inodes in use.                           *)
(***************************************************************************)
EXTENDS Integers, Sequences, FiniteSets

CONSTANTS
  Proc,
  NINODES,     \* inodes on disk
  Name,        \* file names other than "." and ".."
  Calls,       \* the calls each process makes: [op, path, new]
  Nobody

Elem == Name \cup {".", ".."}
Path == [abs : BOOLEAN, elems : Seq(Elem)]
Op == {"open", "chdir", "create", "mkdir", "unlink", "link"}

\* new is link()'s second path.
Call == [op : Op, path : Path, new : Path]

ASSUME FsAssumption ==
  /\ NINODES \in Nat \ {0} /\ Nobody \notin Proc /\ {".", ".."} \cap Name = {}
  /\ Calls \in [Proc -> SUBSET Call]

VARIABLES
  dn,       \* disk inodes: [type, nlink, ents, up]; up is the entry ".."
  ic,       \* icache: [ref, valid, type, nlink, lock]
  pc, reg,  \* where each process is, and its local variables
  cwd, fd,  \* its working directory and the inode of its open file (0: none)
  lost,     \* history: inodes named or created in a directory already removed
  orphans,  \* history: inodes that were open without a name at a crash
  raced,    \* history: inodes on which two iput() calls overlapped
  panicked

vars == <<dn, ic, pc, reg, cwd, fd, lost, orphans, raced, panicked>>

Inum == 1 .. NINODES
Root == 1
NoEnts == [n \in Name |-> 0]
FreeInode == [type |-> "none", nlink |-> 0, ents |-> NoEnts, up |-> 0]
NotCached == [ref |-> 0, valid |-> FALSE, type |-> "none", nlink |-> 0, lock |-> Nobody]

\* op: the call; path: what is left of its path; new: link()'s second path;
\* cur: the inode namex() or the call works on; ip: a second one;
\* puts: inodes to iput() next; then: where to go on after that;
\* astray: history, the call has followed ".." out of a removed directory.
NoPath == [abs |-> FALSE, elems |-> <<>>]
NoReg == [op |-> "none", path |-> <<>>, new |-> NoPath, cur |-> 0, ip |-> 0,
          puts |-> <<>>, then |-> "idle", astray |-> FALSE]

TypeOK ==
  /\ \A i \in Inum : /\ dn[i].type \in {"none", "dir", "file"}
                     /\ dn[i].nlink \in Nat
                     /\ dn[i].ents \in [Name -> Inum \cup {0}] /\ dn[i].up \in Inum \cup {0}
                     /\ ic[i].ref \in Nat /\ ic[i].valid \in BOOLEAN
                     /\ ic[i].lock \in Proc \cup {Nobody}
  /\ \A p \in Proc : cwd[p] \in Inum /\ fd[p] \in Inum \cup {0}
  /\ lost \subseteq Inum /\ orphans \subseteq Inum /\ raced \subseteq Inum /\ panicked \in BOOLEAN

\* mkfs's root directory, the working directory of every process
Init ==
  /\ dn = [i \in Inum |-> IF i = Root THEN [type |-> "dir", nlink |-> 1, ents |-> NoEnts, up |-> Root]
                          ELSE FreeInode]
  /\ ic = [i \in Inum |-> IF i = Root THEN [NotCached EXCEPT !.ref = Cardinality(Proc)]
                          ELSE NotCached]
  /\ pc = [p \in Proc |-> "idle"] /\ reg = [p \in Proc |-> NoReg]
  /\ cwd = [p \in Proc |-> Root] /\ fd = [p \in Proc |-> 0]
  /\ lost = {} /\ orphans = {} /\ raced = {} /\ panicked = FALSE
-----------------------------------------------------------------------------
(***************************************************************************)
(* The inode cache                                                          *)
(***************************************************************************)

\* iget() and idup() on a cache entry c; the cache after iget() of inode i
Got(c) == IF c.ref = 0 THEN [NotCached EXCEPT !.ref = 1] ELSE [c EXCEPT !.ref = @ + 1]
iget(cache, i) == [cache EXCEPT ![i] = Got(@)]

Unlocked(i) == ic[i].lock = Nobody

\* The entry once ilock() has read it from disk, if it was not valid
Loaded(i) ==
  IF ic[i].valid THEN ic[i]
  ELSE [ic[i] EXCEPT !.valid = TRUE, !.type = dn[i].type, !.nlink = dn[i].nlink]

\* panic("ilock") and panic("ilock: no type"); what ilock() needs to return
IlockPanics(i) == ic[i].ref < 1 \/ Loaded(i).type = "none"
CanLock(i) == Unlocked(i) /\ ~IlockPanics(i)

\* ip->nlink += d, in a cache entry or, by iupdate(), in the disk inode
Linked(c, d) == [c EXCEPT !.nlink = @ + d]

\* Nothing runs after a panic.
At(p, labels) == pc[p] \in labels /\ ~panicked

Goto(p, l, r) == pc' = [pc EXCEPT ![p] = l] /\ reg' = [reg EXCEPT ![p] = r]

\* The inode that a process calls ilock() for, if any
Locks(p) == CASE pc[p] \in {"exists", "fill", "erase", "linkbad"} -> reg[p].ip
              [] pc[p] = "walk" /\ reg[p].path = <<>> -> 0
              [] pc[p] \in {"walk", "open", "chdir", "create", "mkdir", "unlink", "link", "link2"}
                   -> reg[p].cur
              [] OTHER -> 0

\* The panics of ilock(), and "unlink: nlink < 1"
panic(p) ==
  /\ ~panicked
  /\ LET i == Locks(p) IN
       /\ i # 0 /\ Unlocked(i)
       /\ IlockPanics(i) \/ (pc[p] = "erase" /\ Loaded(i).nlink < 1)
  /\ panicked' = TRUE
  /\ UNCHANGED <<dn, ic, pc, reg, cwd, fd, lost, orphans, raced>>

\* Go on with iput() of the inodes in s, and then at l.
PutThen(p, r, s, l) == Goto(p, "put", [r EXCEPT !.puts = s, !.then = l])

\* Another iput() of the same unlinked inode is between its test and its
\* decrement.
Overlaps(p) ==
  LET i == reg[p].puts[1] IN
    raced' = IF ic[i].nlink = 0 /\ \E q \in Proc : pc[q] = "drop" /\ reg[q].puts[1] = i
             THEN raced \cup {i} ELSE raced

\* iput(): lock the inode; free it if it has no link and no other reference.
PutTestAlways(p) ==
  /\ At(p, {"put"}) /\ Unlocked(reg[p].puts[1])
  /\ LET i == reg[p].puts[1] IN
       IF ic[i].valid /\ ic[i].nlink = 0
       THEN ic' = [ic EXCEPT ![i].lock = p] /\ Goto(p, "free", reg[p])
       ELSE UNCHANGED ic /\ Goto(p, "drop", reg[p])
  /\ Overlaps(p)
  /\ UNCHANGED <<dn, cwd, fd, lost, orphans, panicked>>

PutTestNever(p) ==
  /\ At(p, {"put"}) /\ Unlocked(reg[p].puts[1])
  /\ LET i == reg[p].puts[1] IN
       IF ic[i].valid /\ ic[i].nlink = 0 /\ ic[i].ref = 0
       THEN ic' = [ic EXCEPT ![i].lock = p] /\ Goto(p, "free", reg[p])
       ELSE UNCHANGED ic /\ Goto(p, "drop", reg[p])
  /\ Overlaps(p)
  /\ UNCHANGED <<dn, cwd, fd, lost, orphans, panicked>>

PutTest(p) ==
  /\ At(p, {"put"}) /\ Unlocked(reg[p].puts[1])
  /\ LET i == reg[p].puts[1] IN
       IF ic[i].valid /\ ic[i].nlink = 0 /\ ic[i].ref = 1
       THEN ic' = [ic EXCEPT ![i].lock = p] /\ Goto(p, "free", reg[p])
       ELSE UNCHANGED ic /\ Goto(p, "drop", reg[p])
  /\ Overlaps(p)
  /\ UNCHANGED <<dn, cwd, fd, lost, orphans, panicked>>

\* itrunc(ip); ip->type = 0; iupdate(ip)
PutFree(p) ==
  /\ At(p, {"free"})
  /\ LET i == reg[p].puts[1] IN
       /\ dn' = [dn EXCEPT ![i] = FreeInode]
       /\ ic' = [ic EXCEPT ![i].type = "none"]
  /\ Goto(p, "invalid", reg[p])
  /\ UNCHANGED <<cwd, fd, lost, orphans, raced, panicked>>

\* ip->valid = 0; releasesleep(&ip->lock)
PutRelease(p) ==
  /\ At(p, {"invalid"})
  /\ LET i == reg[p].puts[1] IN ic' = [ic EXCEPT ![i] = [NotCached EXCEPT !.ref = ic[i].ref]]
  /\ Goto(p, "drop", reg[p])
  /\ UNCHANGED <<dn, cwd, fd, lost, orphans, raced, panicked>>

\* ip->ref--, under icache.lock; an entry without references is free.
Dropped(c) == IF c.ref = 1 THEN NotCached ELSE [c EXCEPT !.ref = @ - 1]

PutDrop(p) ==
  /\ At(p, {"drop"})
  /\ LET i == reg[p].puts[1]
         s == Tail(reg[p].puts)
     IN /\ ic' = [ic EXCEPT ![i] = Dropped(@)]
        /\ IF s # <<>> THEN PutThen(p, reg[p], s, reg[p].then)
           ELSE Goto(p, reg[p].then, IF reg[p].then = "idle" THEN NoReg
                                     ELSE [reg[p] EXCEPT !.puts = s, !.then = "idle"])
  /\ UNCHANGED <<dn, cwd, fd, lost, orphans, raced, panicked>>
-----------------------------------------------------------------------------
(***************************************************************************)
(* Path names                                                               *)
(***************************************************************************)

\* dirlookup(): the inode number an entry names (0: no entry)
Lookup(i, n) == CASE n = "." -> i [] n = ".." -> dn[i].up [] OTHER -> dn[i].ents[n]

\* Calls that use nameiparent(), where a call goes on with the inode it found,
\* and where it goes on without one.
Parent(op) == op \in {"create", "mkdir", "unlink", "link2"}
Found(op) == op
NotFound(op) == IF op = "link2" THEN "linkbad" ELSE "idle"

\* namex() starts at the root or in the working directory.
Start(p, path) == IF path.abs THEN Root ELSE cwd[p]

\* begin_op() and the first step of a call.  Bound: no call begins once an inode
\* is lost or raced, which no later call repairs.
Begin(p, c) ==
  /\ At(p, {"idle"}) /\ lost \cup raced = {}
  /\ c.op \in {"open", "create"} => fd[p] = 0
  /\ LET i == Start(p, c.path) IN
       /\ ic' = iget(ic, i)
       /\ Goto(p, "walk", [NoReg EXCEPT !.op = c.op, !.path = c.path.elems, !.new = c.new,
                                        !.cur = i])
  /\ UNCHANGED <<dn, cwd, fd, lost, orphans, raced, panicked>>

\* namex() of a path without elements, "/": the loop has no round.
WalkNothing(p) ==
  /\ At(p, {"walk"}) /\ reg[p].path = <<>>
  /\ LET r == reg[p] IN
       IF Parent(r.op) THEN PutThen(p, [r EXCEPT !.cur = 0], <<r.cur>>, NotFound(r.op))
       ELSE Goto(p, Found(r.op), r)
  /\ UNCHANGED <<dn, ic, cwd, fd, lost, orphans, raced, panicked>>

\* One round of namex(): ilock() the directory, look the next element up,
\* unlock it, and iput() it before the next one is locked.
Walk(p) ==
  /\ At(p, {"walk"}) /\ reg[p].path # <<>> /\ CanLock(reg[p].cur)
  /\ LET r == reg[p]
         i == r.cur
         next == IF Loaded(i).type = "dir" THEN Lookup(i, Head(r.path)) ELSE 0
         last == Len(r.path) = 1
     IN /\ IF Loaded(i).type = "dir" /\ last /\ Parent(r.op)
           THEN ic' = [ic EXCEPT ![i] = Loaded(i)] /\ Goto(p, Found(r.op), r)
           ELSE IF next = 0
           THEN /\ ic' = [ic EXCEPT ![i] = Loaded(i)]
                /\ PutThen(p, [r EXCEPT !.cur = 0], <<i>>, NotFound(r.op))
           ELSE /\ ic' = iget([ic EXCEPT ![i] = Loaded(i)], next)
                /\ PutThen(p, [r EXCEPT !.cur = next, !.path = Tail(@),
                                        !.astray = @ \/ (Head(r.path) = ".." /\ dn[i].nlink = 0)],
                           <<i>>, IF last THEN Found(r.op) ELSE "walk")
  /\ UNCHANGED <<dn, cwd, fd, lost, orphans, raced, panicked>>
-----------------------------------------------------------------------------
(***************************************************************************)
(* open(), close(), chdir()                                                 *)
(***************************************************************************)

\* sys_open() without O_CREATE: a directory only for reading; filealloc() or
\* fdalloc() may fail (module Files).
sys_open(p, rdonly, ok) ==
  /\ At(p, {"open"}) /\ CanLock(reg[p].cur)
  /\ LET i == reg[p].cur IN
       /\ ic' = [ic EXCEPT ![i] = Loaded(i)]
       /\ IF ok /\ (Loaded(i).type = "dir" => rdonly)
          THEN fd' = [fd EXCEPT ![p] = i] /\ Goto(p, "idle", NoReg)
          ELSE PutThen(p, [reg[p] EXCEPT !.cur = 0], <<i>>, "idle") /\ UNCHANGED fd
  /\ UNCHANGED <<dn, cwd, lost, orphans, raced, panicked>>

\* fileclose() of the last descriptor, in a transaction of its own
close(p) ==
  /\ At(p, {"idle"}) /\ fd[p] # 0
  /\ fd' = [fd EXCEPT ![p] = 0]
  /\ PutThen(p, NoReg, <<fd[p]>>, "idle")
  /\ UNCHANGED <<dn, ic, cwd, lost, orphans, raced, panicked>>

sys_chdir(p) ==
  /\ At(p, {"chdir"}) /\ CanLock(reg[p].cur)
  /\ LET i == reg[p].cur
         ok == Loaded(i).type = "dir"
     IN /\ ic' = [ic EXCEPT ![i] = Loaded(i)]
        /\ cwd' = IF ok THEN [cwd EXCEPT ![p] = i] ELSE cwd
        /\ PutThen(p, [reg[p] EXCEPT !.cur = 0], <<IF ok THEN cwd[p] ELSE i>>, "idle")
  /\ UNCHANGED <<dn, fd, lost, orphans, raced, panicked>>
-----------------------------------------------------------------------------
(***************************************************************************)
(* create(), for open(O_CREATE), mkdir() and mknod()                        *)
(***************************************************************************)
FreeInodes == {i \in Inum : dn[i].type = "none"}
TypeOf(op) == IF op = "mkdir" THEN "dir" ELSE "file"

\* Lock the directory; the name exists, or ialloc() marks an inode in use.
\* A full disk ends in panic("ialloc: no inodes"): bound NINODES.
create(p) ==
  /\ At(p, {"create", "mkdir"}) /\ CanLock(reg[p].cur)
  /\ LET r == reg[p]
         d == r.cur
         i == Lookup(d, r.path[1])
     IN /\ IF i # 0
           THEN /\ ic' = iget([ic EXCEPT ![d] = Loaded(d)], i)
                /\ PutThen(p, [r EXCEPT !.cur = 0, !.ip = i], <<d>>, "exists")
                /\ UNCHANGED dn
           ELSE \E new \in FreeInodes :
                     /\ \A j \in FreeInodes : new <= j
                     /\ dn' = [dn EXCEPT ![new] = [FreeInode EXCEPT !.type = TypeOf(r.op)]]
                     /\ ic' = iget([ic EXCEPT ![d] = [Loaded(d) EXCEPT !.lock = p]], new)
                     /\ Goto(p, "fill", [r EXCEPT !.ip = new])
  /\ UNCHANGED <<cwd, fd, lost, orphans, raced, panicked>>

\* The name exists: open(O_CREATE) may go on with a file.
createExists(p, ok) ==
  /\ At(p, {"exists"}) /\ CanLock(reg[p].ip)
  /\ LET r == reg[p]
         i == r.ip
     IN /\ ic' = [ic EXCEPT ![i] = Loaded(i)]
        /\ IF r.op = "create" /\ Loaded(i).type = "file" /\ ok
           THEN fd' = [fd EXCEPT ![p] = i] /\ Goto(p, "idle", NoReg)
           ELSE PutThen(p, [r EXCEPT !.ip = 0], <<i>>, "idle") /\ UNCHANGED fd
  /\ UNCHANGED <<dn, cwd, lost, orphans, raced, panicked>>

\* It does not: ilock() the new inode, link it, and let the directory go.
createFillOneLink(p) ==
  /\ At(p, {"fill"}) /\ CanLock(reg[p].ip)
  /\ LET r == reg[p]
         d == r.cur
         i == r.ip
         dir == r.op = "mkdir"
     IN /\ dn' = [dn EXCEPT ![i].nlink = 1, ![i].up = IF dir THEN d ELSE 0,
                            ![d].ents[r.path[1]] = i]
        /\ ic' = [ic EXCEPT ![i] = [Loaded(i) EXCEPT !.nlink = 1, !.lock = p], ![d].lock = Nobody]
        /\ lost' = IF dn[d].nlink = 0 THEN lost \cup {i} ELSE lost
        /\ PutThen(p, [r EXCEPT !.cur = 0], <<d>>, "created")
  /\ UNCHANGED <<cwd, fd, orphans, raced, panicked>>

createFill(p) ==
  /\ At(p, {"fill"}) /\ CanLock(reg[p].ip)
  /\ LET r == reg[p]
         d == r.cur
         i == r.ip
         dir == r.op = "mkdir"
     IN /\ dn' = [dn EXCEPT ![i].nlink = 1, ![i].up = IF dir THEN d ELSE 0,
                            ![d].ents[r.path[1]] = i,
                            ![d].nlink = IF dir THEN @ + 1 ELSE @]
        /\ ic' = [ic EXCEPT ![i] = [Loaded(i) EXCEPT !.nlink = 1, !.lock = p],
                            ![d].nlink = IF dir THEN @ + 1 ELSE @, ![d].lock = Nobody]
        /\ lost' = IF dn[d].nlink = 0 THEN lost \cup {i} ELSE lost
        /\ PutThen(p, [r EXCEPT !.cur = 0], <<d>>, "created")
  /\ UNCHANGED <<cwd, fd, orphans, raced, panicked>>

\* The new inode is still locked: open it, or unlock and iput() it.
created(p, ok) ==
  /\ At(p, {"created"})
  /\ LET i == reg[p].ip IN
       /\ ic' = [ic EXCEPT ![i].lock = Nobody]
       /\ IF reg[p].op = "create" /\ ok
          THEN fd' = [fd EXCEPT ![p] = i] /\ Goto(p, "idle", NoReg)
          ELSE PutThen(p, [reg[p] EXCEPT !.ip = 0], <<i>>, "idle") /\ UNCHANGED fd
  /\ UNCHANGED <<dn, cwd, lost, orphans, raced, panicked>>
-----------------------------------------------------------------------------
(***************************************************************************)
(* unlink() and link()                                                      *)
(***************************************************************************)

\* Lock the directory and look the name up; "." and ".." cannot be unlinked.
sys_unlink(p) ==
  /\ At(p, {"unlink"}) /\ CanLock(reg[p].cur)
  /\ LET r == reg[p]
         d == r.cur
         i == IF r.path[1] \in Name THEN Lookup(d, r.path[1]) ELSE 0
     IN /\ IF i = 0
           THEN /\ ic' = [ic EXCEPT ![d] = Loaded(d)]
                /\ PutThen(p, [r EXCEPT !.cur = 0], <<d>>, "idle")
           ELSE /\ ic' = iget([ic EXCEPT ![d] = [Loaded(d) EXCEPT !.lock = p]], i)
                /\ Goto(p, "erase", [r EXCEPT !.ip = i])
  /\ UNCHANGED <<dn, cwd, fd, lost, orphans, raced, panicked>>

\* isdirempty()
IsDirEmpty(i) == dn[i].ents = NoEnts

\* Lock the inode too; refuse a directory in use, or erase the entry.
unlinkErase(p) ==
  /\ At(p, {"erase"}) /\ CanLock(reg[p].ip)
  /\ LET r == reg[p]
         d == r.cur
         i == r.ip
         dir == Loaded(i).type = "dir"
     IN /\ Loaded(i).nlink >= 1
        /\ IF dir /\ ~IsDirEmpty(i)
           THEN /\ ic' = [ic EXCEPT ![i] = Loaded(i)]
                /\ PutThen(p, [r EXCEPT !.ip = 0], <<i>>, "unlinkbad")
                /\ UNCHANGED dn
           ELSE /\ dn' = [dn EXCEPT ![d].ents[r.path[1]] = 0,
                                    ![d].nlink = IF dir THEN @ - 1 ELSE @]
                /\ ic' = [ic EXCEPT ![i] = [Loaded(i) EXCEPT !.lock = p],
                                    ![d].nlink = IF dir THEN @ - 1 ELSE @, ![d].lock = Nobody]
                /\ PutThen(p, [r EXCEPT !.cur = 0], <<d>>, "unlinked")
  /\ UNCHANGED <<cwd, fd, lost, orphans, raced, panicked>>

\* The directory was not empty: its own iput() is done with the parent locked.
\* dirlink() leaves link() the same way when the name exists.
PutParentLocked(p) ==
  /\ At(p, {"unlinkbad", "exists2"})
  /\ PutThen(p, [reg[p] EXCEPT !.cur = 0], <<reg[p].cur>>, NotFound(reg[p].op))
  /\ UNCHANGED <<dn, ic, cwd, fd, lost, orphans, raced, panicked>>

UnlockParent(p) ==
  /\ At(p, {"unlinkbad", "exists2"})
  /\ ic' = [ic EXCEPT ![reg[p].cur].lock = Nobody]
  /\ PutThen(p, [reg[p] EXCEPT !.cur = 0], <<reg[p].cur>>, NotFound(reg[p].op))
  /\ UNCHANGED <<dn, cwd, fd, lost, orphans, raced, panicked>>

\* ip->nlink--, iupdate(ip), iunlockput(ip)
unlinked(p) ==
  /\ At(p, {"unlinked"})
  /\ LET i == reg[p].ip IN
       /\ dn' = [dn EXCEPT ![i] = Linked(@, -1)]
       /\ ic' = [ic EXCEPT ![i] = [Linked(@, -1) EXCEPT !.lock = Nobody]]
       /\ PutThen(p, [reg[p] EXCEPT !.ip = 0], <<i>>, "idle")
  /\ UNCHANGED <<cwd, fd, lost, orphans, raced, panicked>>

\* sys_link(): not for directories; count the link first, then walk to the
\* directory of the new name.
sys_link(p) ==
  /\ At(p, {"link"}) /\ CanLock(reg[p].cur)
  /\ LET r == reg[p]
         i == r.cur
         d == Start(p, r.new)
     IN /\ IF Loaded(i).type = "dir"
           THEN /\ ic' = [ic EXCEPT ![i] = Loaded(i)]
                /\ PutThen(p, [r EXCEPT !.cur = 0], <<i>>, "idle")
                /\ UNCHANGED dn
           ELSE /\ dn' = [dn EXCEPT ![i] = Linked(@, 1)]
                /\ ic' = iget([ic EXCEPT ![i] = Linked(Loaded(i), 1)], d)
                /\ Goto(p, "walk", [NoReg EXCEPT !.op = "link2", !.path = r.new.elems,
                                                 !.cur = d, !.ip = i, !.astray = r.astray])
  /\ UNCHANGED <<cwd, fd, lost, orphans, raced, panicked>>

\* dirlink() in the locked directory, or its iput() of what has the name
dirlink(p) ==
  /\ At(p, {"link2"}) /\ CanLock(reg[p].cur)
  /\ LET r == reg[p]
         d == r.cur
         other == Lookup(d, r.path[1])
     IN /\ IF other # 0
           THEN /\ ic' = iget([ic EXCEPT ![d] = [Loaded(d) EXCEPT !.lock = p]], other)
                /\ PutThen(p, r, <<other>>, "exists2")
                /\ UNCHANGED <<dn, lost>>
           ELSE /\ dn' = [dn EXCEPT ![d].ents[r.path[1]] = r.ip]
                /\ ic' = [ic EXCEPT ![d] = Loaded(d)]
                /\ lost' = IF dn[d].nlink = 0 THEN lost \cup {r.ip} ELSE lost
                /\ PutThen(p, [r EXCEPT !.cur = 0, !.ip = 0], <<d, r.ip>>, "idle")
  /\ UNCHANGED <<cwd, fd, orphans, raced, panicked>>

\* The label bad of sys_link() takes the link back.
linkbad(p) ==
  /\ At(p, {"linkbad"}) /\ CanLock(reg[p].ip)
  /\ LET i == reg[p].ip IN
       /\ dn' = [dn EXCEPT ![i] = Linked(@, -1)]
       /\ ic' = [ic EXCEPT ![i] = Linked(Loaded(i), -1)]
       /\ PutThen(p, [reg[p] EXCEPT !.ip = 0], <<i>>, "idle")
  /\ UNCHANGED <<cwd, fd, lost, orphans, raced, panicked>>
-----------------------------------------------------------------------------
\* Everything in memory is gone, and the disk is as the last commit left it.
Crash ==
  /\ \A p \in Proc : At(p, {"idle"})
  /\ ic' = [i \in Inum |-> IF i = Root THEN [NotCached EXCEPT !.ref = Cardinality(Proc)]
                            ELSE NotCached]
  /\ cwd' = [p \in Proc |-> Root] /\ fd' = [p \in Proc |-> 0]
  /\ orphans' = {i \in Inum : dn[i].type # "none" /\ dn[i].nlink = 0}
  /\ UNCHANGED <<dn, pc, reg, lost, raced, panicked>>

Begins(p) == \E c \in Calls[p] : Begin(p, c)

Continues(p) ==
  \/ panic(p) \/ WalkNothing(p) \/ Walk(p)
  \/ PutTest(p) \/ PutFree(p) \/ PutRelease(p) \/ PutDrop(p)
  \/ \E ok \in BOOLEAN : createExists(p, ok) \/ created(p, ok)
                          \/ \E rdonly \in BOOLEAN : sys_open(p, rdonly, ok)
  \/ sys_chdir(p) \/ create(p) \/ createFill(p)
  \/ sys_unlink(p) \/ unlinkErase(p) \/ UnlockParent(p) \/ unlinked(p)
  \/ sys_link(p) \/ dirlink(p) \/ linkbad(p)

Next == Crash \/ \E p \in Proc : Begins(p) \/ close(p) \/ Continues(p)

Spec == Init /\ [][Next]_vars
-----------------------------------------------------------------------------
(***************************************************************************)
(* Properties                                                               *)
(***************************************************************************)

\* ilock() never finds a free inode, and unlink() never an inode without links:
\* whoever holds a reference keeps the inode allocated, however the other calls
\* unlink and iput() it.  The one exception is ".." of a directory that has been
\* removed while it was open or a working directory: it still names the parent,
\* which may be gone as well, or be another inode by now.
NoPanicElsewhere ==
  panicked => \E p \in Proc : reg[p].astray /\ dn[Locks(p)].type = "none"

Put1(s) == IF s # <<>> THEN s[1] ELSE 0
Put2(s) == IF Len(s) = 2 THEN s[2] ELSE 0

\* The inode that process p points to from one of its places (0: none)
Place == {"cwd", "fd", "cur", "ip", "put1", "put2"}
RefAt(p, x) == CASE x = "cwd" -> cwd[p]
                 [] x = "fd" -> fd[p]
                 [] x = "cur" -> reg[p].cur
                 [] x = "ip" -> reg[p].ip
                 [] x = "put1" -> Put1(reg[p].puts)
                 [] x = "put2" -> Put2(reg[p].puts)

\* ip->ref counts the open files, working directories and local variables that
\* point to the inode: no path through a call, failed or not, leaks a
\* reference or drops one twice.
RefsHeld ==
  \A i \in Inum :
    ic[i].ref = Cardinality({x \in Proc \X Place : RefAt(x[1], x[2]) = i})

Entries(i) == {x \in Inum \X Name : dn[x[1]].ents[x[2]] = i}
Subdirs(i) == {j \in Inum \ {Root} : dn[j].type = "dir" /\ dn[j].up = i /\ dn[j].nlink > 0}

\* What a crash leaves behind is a consistent tree: with no call in progress,
\* an inode's nlink is the number of entries that name it plus one for ".." of
\* each subdirectory.
\* What was put in a directory after its removal is lost.
LinksCounted ==
  (\A p \in Proc : pc[p] = "idle") /\ lost = {} =>
    \A i \in Inum : dn[i].type # "none" =>
      dn[i].nlink = Cardinality(Entries(i)) + Cardinality(Subdirs(i)) + IF i = Root THEN 1 ELSE 0

\* No directory entry names a free inode, at any moment of any call.
EntriesLive == \A i \in Inum : \A n \in Name :
                 dn[i].ents[n] # 0 => dn[dn[i].ents[n]].type # "none"

\* The counts and the tree agree: ip->ref with the references held at every
\* moment of every call (RefsHeld), entries with allocated inodes (EntriesLive),
\* and nlink with the entries whenever no call is in progress (LinksCounted).
CountsExact == TypeOK /\ RefsHeld /\ EntriesLive /\ LinksCounted

Unfreed(i) == dn[i].type # "none" /\ dn[i].nlink = 0 /\ ic[i].ref = 0

\* iput() frees an inode when its reference and link counts have fallen to zero;
\* only a crash while it is open, or two iput() calls that both saw the other's
\* reference, leave it allocated.
UnlinkedFreedElsewhere == \A i \in Inum : Unfreed(i) => i \in orphans \cup raced

\* The inode whose lock a process is waiting for, if any
WaitsFor(p) == IF pc[p] = "put" THEN reg[p].puts[1] ELSE Locks(p)

\* Processes that wait for inode locks they hold themselves
Stuck(S) == \A p \in S : WaitsFor(p) # 0 /\ ic[WaitsFor(p)].lock \in S

\* No set of processes waits for inode locks that they hold themselves: pathname
\* lookup holds one lock at a time, and calls lock parents before children.
NoLockCycle == \A S \in (SUBSET Proc) \ {{}} : ~Stuck(S)

\* The only ways to such a cycle are the iput() of the parent in create() and
\* unlink(), which locks the parent while the child is locked, and dirlink()'s
\* iput() of an existing name when link() is given "." or ".." as the new one: it
\* locks the directory itself again, or its parent.
NoLockCycleElsewhere ==
  \A S \in (SUBSET Proc) \ {{}} :
    Stuck(S) => \E p \in S :
      /\ pc[p] = "put"
      /\ \/ reg[p].then \in {"created", "unlinked"}
         \/ reg[p].then = "exists2" /\ reg[p].path[1] \in {".", ".."}
==============================================================================
