----------------------------- MODULE BcacheLemmas -----------------------------
(***************************************************************************)
(* Lemmas for the proofs about the buffer cache: the list of buffers, the   *)
(* disk's queue, reference counts, and the pigeonhole argument of bget().   *)
(***************************************************************************)
EXTENDS Bcache, TLAPS, FiniteSetTheorems

\* The type of a buffer
BufRec == [block : Block \cup {NoBlock}, refcnt : 0 .. Cardinality(Proc),
           valid : BOOLEAN, dirty : BOOLEAN, data : {0, 1}, holder : Proc \cup {Nobody}]

\* Every buffer has a place in the list.
LEMMA InList ==
  ASSUME TypeOK, NEW b \in Buf
  PROVE  \E i \in Buf : mru[i] = b
  BY DEF TypeOK, Range

\* Moving a buffer to the front of the list keeps every buffer in it.
LEMMA MoveToFrontKeeps ==
  ASSUME TypeOK, NEW b \in Buf
  PROVE  MoveToFront(b) \in [Buf -> Buf] /\ Range(MoveToFront(b)) = Buf
  <1> DEFINE new == MoveToFront(b)
  <1>1. NBUF \in Nat /\ 1 \in Buf /\ mru \in [Buf -> Buf]
    <2>1. mru \in [Buf -> Buf]
      BY Zenon DEF TypeOK
    <2>2. NBUF \in Nat /\ b \in 1 .. NBUF
      BY Zenon, BcacheAssumption DEF Buf
    <2> QED BY <2>1, <2>2 DEF Buf
  <1>2. new \in [Buf -> Buf]
    <2>1. ASSUME NEW i \in Buf, i # 1 PROVE i - 1 \in Buf
      BY <1>1, <2>1 DEF Buf
    <2>2. ASSUME NEW i \in Buf
          PROVE  (IF i = 1 THEN b
                  ELSE IF \E j \in i .. NBUF : mru[j] = b THEN mru[i - 1] ELSE mru[i]) \in Buf
      BY Zenon, <1>1, <2>1
    <2> QED BY Zenon, <2>2 DEF MoveToFront
  <1>3. ASSUME NEW c \in Buf PROVE \E i \in Buf : new[i] = c
    <2>1. PICK j \in Buf : mru[j] = c
      BY Zenon, InList
    <2>2. PICK l \in Buf : mru[l] = b
      BY Zenon, InList
    <2>3. CASE c = b
      BY Zenon, <1>1, <2>3 DEF MoveToFront
    <2>4. CASE c # b /\ j < l
      <3>1. j + 1 \in Buf /\ j + 1 # 1 /\ l \in j + 1 .. NBUF /\ (j + 1) - 1 = j
        BY <1>1, <2>4 DEF Buf
      <3>2. new[j + 1] = mru[j]
        BY Zenon, <3>1, <2>2 DEF MoveToFront
      <3> QED BY Zenon, <3>1, <3>2, <2>1
    <2>5. CASE c # b /\ ~(j < l)
      <3>1. CASE \E m \in j .. NBUF : mru[m] = b
        <4>1. PICK m \in j .. NBUF : mru[m] = b
          BY Zenon, <3>1
        <4>2. m # j
          BY Zenon, <4>1, <2>1, <2>5
        <4>3. j + 1 \in Buf /\ j + 1 # 1 /\ m \in j + 1 .. NBUF /\ (j + 1) - 1 = j
          BY <1>1, <4>1, <4>2 DEF Buf
        <4>4. new[j + 1] = mru[j]
          BY Zenon, <4>3, <4>1 DEF MoveToFront
        <4> QED BY Zenon, <4>3, <4>4, <2>1
      <3>2. CASE ~\E m \in j .. NBUF : mru[m] = b
        <4>1. j # 1
          BY Zenon, <2>2, <3>2, <1>1 DEF Buf
        <4>2. new[j] = mru[j]
          BY Zenon, <4>1, <3>2 DEF MoveToFront
        <4> QED BY Zenon, <4>2, <2>1
      <3> QED BY Zenon, <3>1, <3>2
    <2> QED BY Zenon, <2>3, <2>4, <2>5
  <1> QED BY Zenon, <1>2, <1>3 DEF Range

\* The queue after iderw() has appended to it
LEMMA AppendedQueue ==
  ASSUME NEW q \in Seq(Buf), NEW b \in Buf
  PROVE  /\ Append(q, b) \in Seq(Buf) /\ Append(q, b) # <<>>
         /\ Range(Append(q, b)) = Range(q) \cup {b}
         /\ Head(Append(q, b)) = IF q = <<>> THEN b ELSE Head(q)
         /\ (\A i, j \in 1 .. Len(q) : q[i] = q[j] => i = j) /\ b \notin Range(q)
              => \A i, j \in 1 .. Len(Append(q, b)) :
                   Append(q, b)[i] = Append(q, b)[j] => i = j
  <1>1. /\ Append(q, b) \in Seq(Buf) /\ Len(Append(q, b)) = Len(q) + 1
        /\ \A i \in 1 .. Len(q) : Append(q, b)[i] = q[i]
        /\ Append(q, b)[Len(q) + 1] = b
        /\ DOMAIN q = 1 .. Len(q) /\ DOMAIN Append(q, b) = 1 .. Len(q) + 1
        /\ Len(q) \in Nat
    OBVIOUS
  <1>2. Range(Append(q, b)) = Range(q) \cup {b}
    BY <1>1 DEF Range
  <1>3. Head(Append(q, b)) = IF q = <<>> THEN b ELSE Head(q)
    BY <1>1
  <1>4. ASSUME \A i, j \in 1 .. Len(q) : q[i] = q[j] => i = j, b \notin Range(q),
               NEW i \in 1 .. Len(Append(q, b)), NEW j \in 1 .. Len(Append(q, b)),
               Append(q, b)[i] = Append(q, b)[j]
        PROVE  i = j
    BY <1>1, <1>4 DEF Range
  <1> QED BY <1>1, <1>2, <1>3, <1>4

\* The queue after ideintr() has taken its head
LEMMA ShortenedQueue ==
  ASSUME NEW q \in Seq(Buf), q # <<>>, \A i, j \in 1 .. Len(q) : q[i] = q[j] => i = j
  PROVE  /\ Head(q) \in Buf /\ Head(q) \in Range(q) /\ Tail(q) \in Seq(Buf)
         /\ Range(Tail(q)) = Range(q) \ {Head(q)}
         /\ Tail(q) # <<>> => Head(Tail(q)) \in Range(Tail(q))
         /\ \A i, j \in 1 .. Len(Tail(q)) : Tail(q)[i] = Tail(q)[j] => i = j
  <1>1. /\ Tail(q) \in Seq(Buf) /\ Len(Tail(q)) = Len(q) - 1 /\ Len(q) \in Nat \ {0}
        /\ \A i \in 1 .. Len(q) - 1 : Tail(q)[i] = q[i + 1]
        /\ DOMAIN q = 1 .. Len(q) /\ DOMAIN Tail(q) = 1 .. Len(q) - 1
        /\ Head(q) = q[1]
    OBVIOUS
  <1>2. Head(q) \in Buf /\ Head(q) \in Range(q)
    BY <1>1 DEF Range
  <1>3. Range(Tail(q)) = Range(q) \ {Head(q)}
    <2>1. ASSUME NEW x \in Range(Tail(q)) PROVE x \in Range(q) \ {Head(q)}
      <3>1. PICK i \in 1 .. Len(q) - 1 : x = q[i + 1]
        BY <1>1, <2>1 DEF Range
      <3>2. i + 1 \in 1 .. Len(q) /\ 1 \in 1 .. Len(q) /\ i + 1 # 1
        BY <1>1, <3>1
      <3> QED BY Zenon, <1>1, <3>1, <3>2 DEF Range
    <2>2. ASSUME NEW x \in Range(q), x # Head(q) PROVE x \in Range(Tail(q))
      <3>1. PICK i \in 1 .. Len(q) : x = q[i]
        BY Zenon, <1>1, <2>2 DEF Range
      <3>2. i - 1 \in 1 .. Len(q) - 1 /\ Tail(q)[i - 1] = q[i]
        BY <1>1, <2>2, <3>1
      <3> QED BY Zenon, <1>1, <3>1, <3>2 DEF Range
    <2> QED BY Zenon, <2>1, <2>2
  <1>4. Tail(q) # <<>> => Head(Tail(q)) \in Range(Tail(q))
    BY <1>1 DEF Range
  <1>5. \A i, j \in 1 .. Len(Tail(q)) : Tail(q)[i] = Tail(q)[j] => i = j
    BY <1>1
  <1> QED BY Zenon, <1>1, <1>2, <1>3, <1>4, <1>5
-----------------------------------------------------------------------------
\* The processes that have buffer b
Users(b) == {q \in Proc : mine[q] = b}

\* A buffer has at most as many users as there are processes.
LEMMA UsersFinite ==
  ASSUME NEW b
  PROVE  /\ IsFiniteSet(Users(b)) /\ Cardinality(Users(b)) \in 0 .. Cardinality(Proc)
         /\ Cardinality(Proc) \in Nat
  <1>1. Users(b) \subseteq Proc
    BY Zenon DEF Users
  <1> QED BY <1>1, BcacheAssumption, FS_Subset, FS_CardinalityType

\* So has any set of processes.
LEMMA ProcSubset ==
  ASSUME NEW S, S \subseteq Proc
  PROVE  Cardinality(S) \in 0 .. Cardinality(Proc)
  BY BcacheAssumption, FS_Subset, FS_CardinalityType

\* A process that takes a buffer is one user more.
LEMMA UserAdded ==
  ASSUME NEW p \in Proc, NEW b \in Buf, mine \in [Proc -> Buf \cup {0}], mine[p] = 0,
         mine' = [mine EXCEPT ![p] = b]
  PROVE  /\ Cardinality(Users(b)') = Cardinality(Users(b)) + 1
         /\ \A c \in Buf \ {b} : Users(c)' = Users(c)
  <1>1. NBUF \in Nat /\ b # 0
    BY BcacheAssumption DEF Buf
  <1>2. p \notin Users(b) /\ Users(b)' = Users(b) \cup {p}
    BY Zenon, <1>1 DEF Users
  <1>3. Cardinality(Users(b) \cup {p}) = Cardinality(Users(b)) + 1
    BY Zenon, <1>2, UsersFinite, FS_AddElement
  <1>4. ASSUME NEW c \in Buf \ {b} PROVE Users(c)' = Users(c)
    <2>1. c # 0
      BY BcacheAssumption DEF Buf
    <2> QED BY Zenon, <2>1 DEF Users
  <1> QED BY Zenon, <1>2, <1>3, <1>4

\* A process that gives its buffer back is one user less.
LEMMA UserRemoved ==
  ASSUME NEW p \in Proc, NEW b \in Buf, mine \in [Proc -> Buf \cup {0}], mine[p] = b,
         mine' = [mine EXCEPT ![p] = 0]
  PROVE  /\ Cardinality(Users(b)') = Cardinality(Users(b)) - 1
         /\ Cardinality(Users(b)) >= 1
         /\ \A c \in Buf \ {b} : Users(c)' = Users(c)
  <1>1. NBUF \in Nat /\ b # 0
    BY BcacheAssumption DEF Buf
  <1>2. p \in Users(b) /\ Users(b)' = Users(b) \ {p}
    BY Zenon, <1>1 DEF Users
  <1>3. Cardinality(Users(b) \ {p}) = Cardinality(Users(b)) - 1
    BY Zenon, <1>2, UsersFinite, FS_RemoveElement
  <1>4. Cardinality(Users(b)) # 0
    BY Zenon, <1>2, UsersFinite, FS_EmptySet
  <1>5. ASSUME NEW c \in Buf \ {b} PROVE Users(c)' = Users(c)
    <2>1. c # 0
      BY BcacheAssumption DEF Buf
    <2> QED BY Zenon, <2>1 DEF Users
  <1> QED BY <1>2, <1>3, <1>4, <1>5, UsersFinite

\* A buffer without references is nobody's.
LEMMA Unreferenced ==
  ASSUME BlockCachedOnce, NEW b \in Buf, buf[b].refcnt = 0
  PROVE  \A q \in Proc : mine[q] # b
  <1>1. Cardinality(Users(b)) = 0
    BY Zenon DEF BlockCachedOnce, Users
  <1>2. Users(b) = {}
    BY Zenon, <1>1, UsersFinite, FS_EmptySet
  <1> QED BY Zenon, <1>2 DEF Users

\* If no buffer can be recycled, then each is pinned or in the hands of a process:
\* bget() panics only when there are as many of these as buffers.
LEMMA BuffersTaken ==
  ASSUME TypeOK, BlockCachedOnce, Recyclable = {}
  PROVE  NBUF <= Cardinality(Pinned) + Cardinality({q \in Proc : mine[q] # 0})
  <1> DEFINE users == {q \in Proc : mine[q] # 0}
             taken == {mine[q] : q \in users}
  <1>1. NBUF \in Nat /\ IsFiniteSet(Proc)
    BY Zenon, BcacheAssumption
  <1>2. IsFiniteSet(users)
    <2>1. users \subseteq Proc
      BY Zenon
    <2> QED BY Zenon, <1>1, <2>1, FS_Subset
  <1>3. IsFiniteSet(taken) /\ Cardinality(taken) <= Cardinality(users)
    <2> DEFINE f == [q \in users |-> mine[q]]
    <2>1. f \in Surjection(users, taken)
      BY Zenon DEF Surjection
    <2> QED BY Zenon, <1>2, <2>1, FS_Surjection
  <1>4. IsFiniteSet(Buf) /\ Cardinality(Buf) = NBUF
    <2>1. IsFiniteSet(1 .. NBUF) /\ Cardinality(1 .. NBUF) = IF 1 > NBUF THEN 0 ELSE NBUF - 1 + 1
      BY <1>1, FS_Interval
    <2> QED BY <1>1, <2>1 DEF Buf
  <1>5. IsFiniteSet(Pinned) /\ Cardinality(Pinned) \in Nat
    <2>1. Pinned \subseteq Buf
      BY Zenon DEF Pinned
    <2> QED BY Zenon, <1>4, <2>1, FS_Subset, FS_CardinalityType
  <1>6. Buf \subseteq Pinned \cup taken
    <2> SUFFICES ASSUME NEW b \in Buf, b \notin taken PROVE b \in Pinned
      OBVIOUS
    <2>1. b # 0
      BY <1>1 DEF Buf
    <2>2. \A q \in Proc : mine[q] # b
      BY Zenon, <2>1
    <2>3. Cardinality({q \in Proc : mine[q] = b}) = 0
      BY Zenon, <2>2, FS_EmptySet
    <2>4. buf[b].refcnt = 0
      BY Zenon, <2>3 DEF BlockCachedOnce
    <2>5. PICK i \in Buf : mru[i] = b
      BY Zenon, InList
    <2>6. buf[b].dirty
      BY Zenon, <2>4, <2>5 DEF Recyclable
    <2> QED BY Zenon, <2>2, <2>6 DEF Pinned
  <1>7. IsFiniteSet(Pinned \cup taken)
        /\ Cardinality(Pinned \cup taken) <= Cardinality(Pinned) + Cardinality(taken)
    <2>1. Cardinality(Pinned \cup taken)
            = Cardinality(Pinned) + Cardinality(taken) - Cardinality(Pinned \cap taken)
      BY Zenon, <1>3, <1>5, FS_Union
    <2>2. Cardinality(Pinned \cap taken) \in Nat
      BY Zenon, <1>3, <1>5, FS_Intersection, FS_CardinalityType
    <2>3. Cardinality(taken) \in Nat /\ IsFiniteSet(Pinned \cup taken)
      BY Zenon, <1>3, <1>5, FS_Union, FS_CardinalityType
    <2> QED BY <1>5, <2>1, <2>2, <2>3
  <1>8. NBUF <= Cardinality(Pinned \cup taken)
    BY Zenon, <1>4, <1>6, <1>7, FS_Subset
  <1>9. /\ Cardinality(users) \in Nat /\ Cardinality(taken) \in Nat
        /\ Cardinality(Pinned \cup taken) \in Nat
    BY Zenon, <1>2, <1>3, <1>7, FS_CardinalityType
  <1>10. NBUF <= Cardinality(Pinned) + Cardinality(users)
    <2> HIDE DEF taken, users
    <2> QED BY <1>1, <1>3, <1>5, <1>7, <1>8, <1>9
  <1> QED BY Zenon, <1>10
-----------------------------------------------------------------------------
\* A process outside "out" has a buffer of a block.
LEMMA HasBuffer ==
  ASSUME TypeOK, BuffersHeld, NEW p \in Proc, pc[p] # "out"
  PROVE  mine[p] \in Buf /\ buf[mine[p]].block \in Block /\ buf[mine[p]] \in BufRec
  <1>1. mine[p] \in Buf
    BY DEF TypeOK, BuffersHeld
  <1> QED BY Zenon, <1>1, BcacheAssumption DEF TypeOK, BuffersHeld, Buf, BufRec

\* A buffer whose holder is not in iderw() is not in the queue.
LEMMA NotQueued ==
  ASSUME TypeOK, BuffersHeld, QueueServed, NEW p \in Proc, pc[p] \in {"rw", "hold"}
  PROVE  mine[p] \notin Range(queue)
  BY DEF BuffersHeld, QueueServed, Inside

\* The head of the queue is one of its buffers.
LEMMA QueueHead ==
  ASSUME TypeOK, queue # <<>>
  PROVE  Head(queue) \in Range(queue) /\ Head(queue) \in Buf /\ Range(queue) \subseteq Buf
  <1>1. queue \in Seq(Buf)
    BY Zenon DEF TypeOK
  <1>2. 1 \in DOMAIN queue /\ Head(queue) = queue[1]
    BY <1>1
  <1> QED BY <1>1, <1>2 DEF Range

\* The properties' parts that only read buf, mine and pc
LEMMA PinnedShrinks ==
  ASSUME Cardinality(Pinned) <= MaxPinned, Pinned' \subseteq Pinned
  PROVE  Cardinality(Pinned') <= MaxPinned
  <1>1. NBUF \in Nat /\ MaxPinned \in Nat
    BY Zenon, BcacheAssumption
  <1>2. IsFiniteSet(Buf)
    BY <1>1, FS_Interval DEF Buf
  <1>3. IsFiniteSet(Pinned)
    BY Zenon, <1>2, FS_Subset DEF Pinned
  <1>4. Cardinality(Pinned') <= Cardinality(Pinned) /\ IsFiniteSet(Pinned')
    BY Zenon, <1>3, FS_Subset
  <1>5. Cardinality(Pinned) \in Nat /\ Cardinality(Pinned') \in Nat
    BY Zenon, <1>3, <1>4, FS_CardinalityType
  <1> QED BY <1>1, <1>4, <1>5
-----------------------------------------------------------------------------
\* kill() changes where the process is, and nothing it has.
LEMMA KillInv ==
  ASSUME CacheInv, NEW p \in Proc, kill(p)
  PROVE  CacheInv'
  <1> USE DEF kill, Goto
  <1>1. TypeOK'
    BY Zenon DEF CacheInv, TypeOK
  <1>2. pc' \in [Proc -> {"out", "lock", "rw", "io", "woken", "hold", "put"}]
        /\ pc'[p] = "woken" /\ \A q \in Proc \ {p} : pc'[q] = pc[q]
    BY Zenon DEF CacheInv, TypeOK
  <1>3. BlockCachedOnce' /\ CommandOK' /\ CacheCoherent'
    BY Zenon DEF CacheInv, BlockCachedOnce, CommandOK, CacheCoherent
  <1>4. BuffersHeld'
    BY <1>2 DEF CacheInv, BuffersHeld, Inside
  <1>5. FlagsOK'
    BY Zenon, <1>2 DEF CacheInv, FlagsOK, Done
  <1>6. QueueServed'
    BY <1>2 DEF CacheInv, QueueServed, Done
  <1>7. Pinned' \subseteq Pinned
    BY Zenon, <1>2 DEF Pinned
  <1> QED BY Zenon, <1>1, <1>3, <1>4, <1>5, <1>6, <1>7, PinnedShrinks DEF CacheInv

\* A process back in iderw() leaves only when its buffer is done.
LEMMA WakesInv ==
  ASSUME CacheInv, NEW p \in Proc, iderwWakes(p)
  PROVE  CacheInv'
  <1> USE DEF iderwWakes, Goto
  <1>1. TypeOK'
    BY Zenon DEF CacheInv, TypeOK
  <1>2. pc'[p] = (IF Done(mine[p]) THEN "hold" ELSE "io") /\ \A q \in Proc \ {p} : pc'[q] = pc[q]
    BY Zenon DEF CacheInv, TypeOK
  <1>3. BlockCachedOnce' /\ CommandOK' /\ CacheCoherent'
    BY Zenon DEF CacheInv, BlockCachedOnce, CommandOK, CacheCoherent
  <1>4. BuffersHeld'
    BY <1>2 DEF CacheInv, BuffersHeld, Inside
  <1>5. FlagsOK'
    BY <1>2 DEF CacheInv, FlagsOK, Done
  <1>6. QueueServed'
    BY <1>2 DEF CacheInv, QueueServed, Done
  <1>7. Pinned' \subseteq Pinned
    BY Zenon, <1>2 DEF Pinned, Done
  <1> QED BY Zenon, <1>1, <1>3, <1>4, <1>5, <1>6, <1>7, PinnedShrinks DEF CacheInv

\* The disk does what it was told, or fails and spoils the block.
LEMMA DiskInv ==
  ASSUME CacheInv, NEW ok \in BOOLEAN, DiskDone(ok)
  PROVE  CacheInv'
  <1> USE DEF DiskDone
  <1>1. queue # <<>> /\ Head(queue) \in Buf /\ cmd.block = buf[Head(queue)].block
    BY QueueHead DEF CacheInv, QueueServed, NoCmd
  <1>2. cmd.block \in Block
    BY <1>1, QueueHead DEF CacheInv, QueueServed, BuffersHeld
  <1>3. /\ cmd'.write = cmd.write /\ cmd'.block = cmd.block /\ cmd'.data = cmd.data
        /\ cmd'.state = IF ok THEN "ok" ELSE "error"
    BY Zenon DEF CacheInv, TypeOK
  <1>4. TypeOK'
    BY Zenon, <1>2 DEF CacheInv, TypeOK
  <1>5. BlockCachedOnce' /\ BuffersHeld' /\ FlagsOK'
    BY DEF CacheInv, BlockCachedOnce, BuffersHeld, FlagsOK, Done
  <1>6. QueueServed'
    BY <1>1, <1>3 DEF CacheInv, QueueServed, Done
  <1>7. CommandOK'
    BY Zenon, <1>2, <1>3 DEF CacheInv, CommandOK, TypeOK
  <1>8. CacheCoherent'
    BY <1>1, <1>2, <1>3 DEF CacheInv, CommandOK, CacheCoherent, QueueServed, TypeOK
  <1>9. Pinned' \subseteq Pinned
    BY Zenon DEF Pinned
  <1> QED BY Zenon, <1>4, <1>5, <1>6, <1>7, <1>8, <1>9, PinnedShrinks DEF CacheInv
-----------------------------------------------------------------------------
\* A step that leaves the queue and the disk alone, and what the disk wants to
\* know of the buffers in the queue.
LEMMA QueueKept ==
  ASSUME TypeOK, QueueServed, CommandOK, UNCHANGED <<queue, cmd, disk, bad>>,
         \A c \in Range(queue) :
           /\ buf'[c].block = buf[c].block /\ buf'[c].valid = buf[c].valid
           /\ buf'[c].dirty = buf[c].dirty /\ buf'[c].data = buf[c].data
           /\ buf'[c].holder = buf[c].holder,
         \A q \in Proc : pc[q] \in {"io", "woken"} => pc'[q] = pc[q] /\ mine'[q] = mine[q]
  PROVE  QueueServed' /\ CommandOK'
  <1>1. \A b \in Range(queue') :
          ~Done(b)' /\ \E p \in Proc : mine'[p] = b /\ buf'[b].holder = p /\ pc'[p] \in {"io", "woken"}
    BY DEF QueueServed, Done
  <1>2. queue # <<>> => Head(queue) \in Range(queue)
    BY Zenon, QueueHead
  <1>3. IF queue' = <<>> THEN cmd' = NoCmd
        ELSE cmd'.state # "none" /\ cmd'.block = buf'[Head(queue')].block
                                 /\ cmd'.write = buf'[Head(queue')].dirty
    BY Zenon, <1>2 DEF QueueServed
  <1>4. CommandOK'
    BY <1>2 DEF CommandOK, QueueServed, NoCmd
  <1>5. \A i, j \in 1 .. Len(queue') : queue'[i] = queue'[j] => i = j
    BY Zenon DEF QueueServed
  <1> QED BY <1>1, <1>3, <1>4, <1>5 DEF QueueServed

\* A step of process p that touches no buffer but b, and no other process
LEMMA HeldKept ==
  ASSUME TypeOK, BuffersHeld, NEW p \in Proc, NEW b \in Buf,
         \A q \in Proc \ {p} : pc'[q] = pc[q] /\ mine'[q] = mine[q],
         \A c \in Buf \ {b} : buf'[c].holder = buf[c].holder /\ buf'[c].block = buf[c].block,
         buf'[b].block \in Block,
         mine[p] \in {0, b}, mine'[p] = 0 <=> pc'[p] = "out", mine'[p] \in {0, b},
         \A q \in Proc \ {p} : pc[q] \in Inside /\ mine[q] = b => buf'[b].holder = q,
         pc'[p] \in Inside => mine'[p] = b /\ buf'[b].holder = p,
         buf'[b].holder # Nobody =>
           \/ buf'[b].holder = p /\ mine'[p] = b /\ pc'[p] \in Inside
           \/ buf'[b].holder = buf[b].holder /\ buf[b].holder # p
  PROVE  BuffersHeld'
  <1>1. /\ \A q \in Proc : mine[q] \in Buf \cup {0}
        /\ \A c \in Buf : buf[c].holder \in Proc \cup {Nobody}
    BY Zenon DEF TypeOK
  <1>2. ASSUME NEW q \in Proc
        PROVE  /\ mine'[q] = 0 <=> pc'[q] = "out"
               /\ mine'[q] # 0 => buf'[mine'[q]].block \in Block
               /\ pc'[q] \in Inside => buf'[mine'[q]].holder = q
    <2>1. CASE q = p
      BY Zenon, <2>1
    <2>2. CASE q # p /\ mine[q] \in Buf \ {b}
      BY <2>2 DEF BuffersHeld
    <2>3. CASE q # p /\ mine[q] = b
      BY <2>3 DEF BuffersHeld
    <2>4. CASE q # p /\ mine[q] = 0
      BY <2>4 DEF BuffersHeld, Inside
    <2> QED BY Zenon, <1>1, <2>1, <2>2, <2>3, <2>4
  <1>3. ASSUME NEW c \in Buf, buf'[c].holder # Nobody
        PROVE  mine'[buf'[c].holder] = c /\ pc'[buf'[c].holder] \in Inside
    <2>1. CASE c = b /\ buf'[b].holder = p
      BY Zenon, <1>3, <2>1
    <2>2. CASE c = b /\ buf'[b].holder # p
      <3>1. buf'[b].holder = buf[b].holder /\ buf[b].holder # p /\ buf[b].holder \in Proc
        BY Zenon, <1>1, <1>3, <2>2
      <3> QED BY <1>3, <2>2, <3>1 DEF BuffersHeld
    <2>3. CASE c # b
      <3>1. buf'[c].holder = buf[c].holder /\ buf[c].holder \in Proc
        BY Zenon, <1>1, <1>3, <2>3
      <3>2. mine[buf[c].holder] = c /\ pc[buf[c].holder] \in Inside
        BY Zenon, <1>3, <3>1 DEF BuffersHeld
      <3>3. c # 0
        BY BcacheAssumption DEF Buf
      <3>4. buf[c].holder # p
        BY Zenon, <2>3, <3>2, <3>3
      <3> QED BY Zenon, <3>1, <3>2, <3>4
    <2> QED BY Zenon, <2>1, <2>2, <2>3
  <1> QED BY Zenon, <1>2, <1>3 DEF BuffersHeld

\* A step of a process outside iderw() that leaves the flags and the queue alone
LEMMA FlagsKept ==
  ASSUME TypeOK, BuffersHeld, FlagsOK, NEW p \in Proc, UNCHANGED queue,
         pc'[p] \in {"out", "lock", "put"},
         \A q \in Proc \ {p} : pc'[q] = pc[q] /\ mine'[q] = mine[q],
         \A c \in Buf : buf'[c].valid = buf[c].valid /\ buf'[c].dirty = buf[c].dirty
  PROVE  FlagsOK'
  <1>1. \A c \in Buf : buf'[c].dirty => buf'[c].valid
    BY Zenon DEF FlagsOK
  <1>2. ASSUME NEW q \in Proc
        PROVE  /\ pc'[q] = "hold" => buf'[mine'[q]].valid
               /\ pc'[q] = "rw" => ~Done(mine[q])'
               /\ pc'[q] = "io" => mine'[q] \in Range(queue')
               /\ pc'[q] = "woken" => mine'[q] \in Range(queue') \/ Done(mine[q])'
    <2>1. CASE q = p
      BY Zenon, <2>1
    <2>2. CASE q # p /\ pc[q] # "out"
      <3>1. mine[q] \in Buf /\ mine'[q] = mine[q] /\ pc'[q] = pc[q]
        BY Zenon, <2>2, HasBuffer
      <3> QED BY Zenon, <3>1 DEF FlagsOK, Done
    <2>3. CASE q # p /\ pc[q] = "out"
      BY Zenon, <2>3
    <2> QED BY Zenon, <2>1, <2>2, <2>3
  <1> QED BY Zenon, <1>1, <1>2 DEF FlagsOK, Done

\* releasesleep() gives up the lock of a buffer that needs nothing.
LEMMA ReleaseInv ==
  ASSUME CacheInv, NEW p \in Proc, releasesleep(p)
  PROVE  CacheInv'
  <1> DEFINE b == mine[p]
  <1>0. /\ TypeOK /\ BlockCachedOnce /\ BuffersHeld /\ FlagsOK /\ QueueServed /\ CommandOK
        /\ CacheCoherent /\ Cardinality(Pinned) <= MaxPinned
    BY Zenon DEF CacheInv
  <1>1. b \in Buf /\ buf[b] \in BufRec /\ b \notin Range(queue) /\ buf[b].holder = p
    BY Zenon, <1>0, HasBuffer, NotQueued DEF releasesleep, BuffersHeld, Inside
  <1>2. /\ \A c \in Buf \ {b} : buf'[c] = buf[c]
        /\ buf'[b].block = buf[b].block /\ buf'[b].refcnt = buf[b].refcnt
        /\ buf'[b].valid = buf[b].valid /\ buf'[b].dirty = buf[b].dirty
        /\ buf'[b].data = buf[b].data /\ buf'[b].holder = Nobody
        /\ buf' \in [Buf -> BufRec]
    BY Zenon, <1>0, <1>1 DEF TypeOK, releasesleep, BufRec
  <1>3. pc[p] = "hold" /\ pc'[p] = "put" /\ \A q \in Proc \ {p} : pc'[q] = pc[q]
    BY Zenon, <1>0 DEF TypeOK, releasesleep, Goto
  <1>4. UNCHANGED <<mru, queue, cmd, disk, mine, panicked, content, bad>>
    BY Zenon DEF releasesleep
  <1>5. TypeOK'
    BY Zenon, <1>0, <1>2, <1>4 DEF TypeOK, BufRec, releasesleep, Goto
  <1>6. mine[p] = b /\ \A q \in Proc : mine[q] \in Buf \cup {0}
    BY Zenon, <1>0 DEF TypeOK
  <1> HIDE DEF b
  <1>7. BlockCachedOnce'
    BY <1>0, <1>1, <1>2, <1>4 DEF BlockCachedOnce
  <1>8. BuffersHeld'
    <2>1. \A q \in Proc \ {p} : pc[q] \in Inside => mine[q] # b
      BY Zenon, <1>0, <1>1 DEF BuffersHeld
    <2>2. b # 0 /\ buf[b].block \in Block
      BY <1>0, <1>1, <1>3, <1>6, HasBuffer, BcacheAssumption DEF Buf
    <2> QED BY <1>0, <1>1, <1>2, <1>3, <1>4, <1>6, <2>1, <2>2, HeldKept DEF Inside
  <1>9. FlagsOK'
    <2>1. \A c \in Buf : buf'[c].valid = buf[c].valid /\ buf'[c].dirty = buf[c].dirty
      BY Zenon, <1>1, <1>2
    <2> QED BY <1>0, <1>3, <1>4, <2>1, FlagsKept
  <1>10. QueueServed' /\ CommandOK'
    <2>1. queue \in Seq(Buf) /\ Range(queue) \subseteq Buf
      BY <1>0 DEF TypeOK, Range
    <2> QED BY Zenon, <1>0, <1>1, <1>2, <1>3, <1>4, <2>1, QueueKept
  <1>11. CacheCoherent'
    BY <1>0, <1>1, <1>2, <1>4 DEF CacheCoherent
  <1>12. Pinned' \subseteq Pinned
    BY Zenon, <1>1, <1>2, <1>3, <1>4 DEF Pinned
  <1> QED
    BY Zenon, <1>0, <1>5, <1>7, <1>8, <1>9, <1>10, <1>11, <1>12, PinnedShrinks DEF CacheInv

\* bread() takes the lock of a buffer nobody holds.
LEMMA BreadInv ==
  ASSUME CacheInv, NEW p \in Proc, bread(p)
  PROVE  CacheInv'
  <1> DEFINE b == mine[p]
  <1>0. /\ TypeOK /\ BlockCachedOnce /\ BuffersHeld /\ FlagsOK /\ QueueServed /\ CommandOK
        /\ CacheCoherent /\ Cardinality(Pinned) <= MaxPinned
    BY Zenon DEF CacheInv
  <1>1. /\ b \in Buf /\ buf[b] \in BufRec /\ buf[b].block \in Block /\ buf[b].holder = Nobody
        /\ pc[p] = "lock"
    BY Zenon, <1>0, HasBuffer DEF bread
  <1>2. /\ \A c \in Buf \ {b} : buf'[c] = buf[c]
        /\ buf'[b].block = buf[b].block /\ buf'[b].refcnt = buf[b].refcnt
        /\ buf'[b].valid = buf[b].valid /\ buf'[b].dirty = buf[b].dirty
        /\ buf'[b].data = buf[b].data /\ buf'[b].holder = p
        /\ buf' \in [Buf -> BufRec]
    BY Zenon, <1>0, <1>1 DEF TypeOK, bread, BufRec
  <1>3. pc'[p] = (IF buf[b].valid THEN "hold" ELSE "rw") /\ \A q \in Proc \ {p} : pc'[q] = pc[q]
    BY Zenon, <1>0 DEF TypeOK, bread, Goto
  <1>4. UNCHANGED <<mru, queue, cmd, disk, mine, panicked, content, bad>>
    BY Zenon DEF bread
  <1>5. TypeOK'
    BY Zenon, <1>0, <1>2, <1>4 DEF TypeOK, BufRec, bread, Goto
  <1>6. mine[p] = b /\ b # 0 /\ p # Nobody
    BY <1>1, BcacheAssumption DEF Buf
  <1>7. \A q \in Proc : mine[q] = b => pc[q] \notin Inside
    BY <1>0, <1>1, BcacheAssumption DEF BuffersHeld
  <1>8. b \notin Range(queue) /\ Range(queue) \subseteq Buf
    <2>0. \A c \in Range(queue) : \E q \in Proc : mine[q] = c /\ pc[q] \in {"io", "woken"}
      BY Zenon, <1>0 DEF QueueServed
    <2>1. b \notin Range(queue)
      BY Zenon, <1>7, <2>0 DEF Inside
    <2>2. queue \in Seq(Buf)
      BY Zenon, <1>0 DEF TypeOK
    <2> QED BY <2>1, <2>2 DEF Range
  <1> HIDE DEF b
  <1>9. BlockCachedOnce'
    BY <1>0, <1>1, <1>2, <1>4 DEF BlockCachedOnce
  <1>10. BuffersHeld'
    BY <1>0, <1>1, <1>2, <1>3, <1>4, <1>6, <1>7, HeldKept DEF Inside
  <1>11. FlagsOK'
    BY <1>0, <1>1, <1>2, <1>3, <1>4, <1>6, HasBuffer DEF FlagsOK, Done
  <1>12. QueueServed' /\ CommandOK'
    BY Zenon, <1>0, <1>1, <1>2, <1>3, <1>4, <1>8, QueueKept
  <1>13. CacheCoherent'
    BY <1>0, <1>1, <1>2, <1>4 DEF CacheCoherent
  <1>14. Pinned' \subseteq Pinned
    <2>1. buf[b].dirty => buf[b].valid
      BY Zenon, <1>0, <1>1 DEF FlagsOK
    <2> QED BY Zenon, <1>1, <1>2, <1>3, <1>4, <1>6, <2>1 DEF Pinned
  <1> QED
    BY Zenon, <1>0, <1>5, <1>9, <1>10, <1>11, <1>12, <1>13, <1>14, PinnedShrinks DEF CacheInv

\* A holder changes the data of its buffer: nobody else has that block, and the
\* disk's copy is not looked at while the buffer is dirty.
LEMMA WriteCoherent ==
  ASSUME TypeOK, BlockCachedOnce, CacheCoherent, NEW b \in Buf, buf[b].block \in Block,
         \A c \in Buf \ {b} : buf'[c] = buf[c],
         buf'[b].block = buf[b].block, buf'[b].dirty, buf'[b].data \in {0, 1},
         content' = [content EXCEPT ![buf[b].block] = buf'[b].data],
         UNCHANGED <<disk, bad>>
  PROVE  CacheCoherent'
  <1> SUFFICES ASSUME NEW k \in Block \ bad'
               PROVE  /\ \A c \in Buf : buf'[c].block = k /\ (buf'[c].valid \/ buf'[c].dirty)
                                          => buf'[c].data = content'[k]
                      /\ (\A c \in Buf : buf'[c].block = k => ~buf'[c].dirty)
                           => disk'[k] = content'[k]
    BY Zenon DEF CacheCoherent
  <1>1. content \in [Block -> {0, 1}]
    BY Zenon DEF TypeOK
  <1>2. CASE k = buf[b].block
    <2>1. \A c \in Buf \ {b} : buf[c].block # k
      BY Zenon, <1>2, BcacheAssumption DEF BlockCachedOnce
    <2>2. content'[k] = buf'[b].data
      BY Zenon, <1>1, <1>2
    <2> QED BY Zenon, <1>2, <2>1, <2>2
  <1>3. CASE k # buf[b].block
    <2>1. content'[k] = content[k]
      BY Zenon, <1>1, <1>3
    <2> QED BY <1>3, <2>1 DEF CacheCoherent
  <1> QED BY Zenon, <1>2, <1>3

\* A modification pins at most one buffer more; its guard is begin_op()'s bound.
LEMMA ModifyInv ==
  ASSUME CacheInv, NEW p \in Proc, modify(p)
  PROVE  CacheInv'
  <1> DEFINE b == mine[p]
  <1>0. /\ TypeOK /\ BlockCachedOnce /\ BuffersHeld /\ FlagsOK /\ QueueServed /\ CommandOK
        /\ CacheCoherent /\ Cardinality(Pinned) <= MaxPinned
    BY Zenon DEF CacheInv
  <1>1. /\ b \in Buf /\ buf[b] \in BufRec /\ buf[b].block \in Block /\ pc[p] = "hold"
        /\ buf[b].holder = p /\ buf[b].valid
    BY Zenon, <1>0, HasBuffer DEF modify, BuffersHeld, Inside, FlagsOK
  <1>2. /\ \A c \in Buf \ {b} : buf'[c] = buf[c]
        /\ buf'[b].block = buf[b].block /\ buf'[b].refcnt = buf[b].refcnt
        /\ buf'[b].valid = buf[b].valid /\ buf'[b].dirty
        /\ buf'[b].holder = p /\ buf'[b].data \in {0, 1}
        /\ buf' \in [Buf -> BufRec]
    <2>1. buf \in [Buf -> BufRec] /\ 1 - buf[b].data \in {0, 1}
      <3>1. buf \in [Buf -> BufRec]
        BY Zenon, <1>0 DEF TypeOK, BufRec
      <3>2. buf[b].data \in {0, 1}
        BY Zenon, <1>1 DEF BufRec
      <3> QED BY <3>1, <3>2
    <2>2. buf' = [buf EXCEPT ![b] = [@ EXCEPT !.data = 1 - buf[b].data, !.dirty = TRUE]]
      <3>1. buf' = [buf EXCEPT ![b].data = 1 - @, ![b].dirty = TRUE]
        BY Zenon DEF modify
      <3> QED BY Zenon, <1>1, <2>1, <3>1 DEF BufRec
    <2>3. b \in Buf /\ buf[b] \in BufRec /\ buf[b].holder = p
      BY Zenon, <1>1
    <2> HIDE DEF b
    <2> QED BY Zenon, <2>1, <2>2, <2>3 DEF BufRec
  <1>3. pc'[p] = pc[p] /\ \A q \in Proc \ {p} : pc'[q] = pc[q]
    BY Zenon, <1>0, <1>1 DEF TypeOK, modify
  <1>4. UNCHANGED <<mru, queue, cmd, disk, mine, panicked, bad>>
    BY Zenon DEF modify
  <1>5. content' = [content EXCEPT ![buf[b].block] = buf'[b].data]
    BY Zenon, <1>0, <1>1 DEF TypeOK, modify, BufRec
  <1>6. TypeOK'
    BY <1>0, <1>1, <1>2, <1>4, <1>5 DEF TypeOK, BufRec, modify
  <1>7. mine[p] = b /\ b # 0 /\ p # Nobody
    BY <1>1, BcacheAssumption DEF Buf
  <1>8. \A q \in Proc \ {p} : mine[q] = b => pc[q] \notin Inside
    BY Zenon, <1>0, <1>1 DEF BuffersHeld
  <1>9. b \notin Range(queue) /\ Range(queue) \subseteq Buf
    <2>1. b \notin Range(queue)
      BY Zenon, <1>0, <1>1, NotQueued
    <2>2. queue \in Seq(Buf)
      BY Zenon, <1>0 DEF TypeOK
    <2> QED BY <2>1, <2>2 DEF Range
  <1>10. CacheCoherent'
    BY Zenon, <1>0, <1>1, <1>2, <1>4, <1>5, WriteCoherent
  <1>11. Cardinality(Pinned') <= MaxPinned
    <2> DEFINE D == {c \in Buf : buf[c].dirty} \cup {b}
    <2>1. Pinned' \subseteq D /\ D \subseteq Buf
      BY Zenon, <1>1, <1>2 DEF Pinned
    <2>2. IsFiniteSet(Buf)
      BY BcacheAssumption, FS_Interval DEF Buf
    <2>3. IsFiniteSet(D)
      BY Zenon, <2>1, <2>2, FS_Subset
    <2>4. Cardinality(Pinned') <= Cardinality(D) /\ IsFiniteSet(Pinned')
      BY Zenon, <2>1, <2>3, FS_Subset
    <2>5. Cardinality(Pinned') \in Nat /\ Cardinality(D) \in Nat
      BY Zenon, <2>3, <2>4, FS_CardinalityType
    <2>6. Cardinality(D) <= MaxPinned
      BY Zenon DEF modify
    <2> HIDE DEF D
    <2> QED BY <2>4, <2>5, <2>6, BcacheAssumption
  <1> HIDE DEF b
  <1>12. BlockCachedOnce'
    BY <1>0, <1>1, <1>2, <1>4 DEF BlockCachedOnce
  <1>13. BuffersHeld'
    BY <1>0, <1>1, <1>2, <1>3, <1>4, <1>7, <1>8, HeldKept DEF Inside
  <1>14. FlagsOK'
    <2>1. \A c \in Buf : buf'[c].dirty => buf'[c].valid
      BY Zenon, <1>0, <1>1, <1>2 DEF FlagsOK
    <2>2. ASSUME NEW q \in Proc
          PROVE  /\ pc'[q] = "hold" => buf'[mine'[q]].valid
                 /\ pc'[q] = "rw" => ~Done(mine[q])'
                 /\ pc'[q] = "io" => mine'[q] \in Range(queue')
                 /\ pc'[q] = "woken" => mine'[q] \in Range(queue') \/ Done(mine[q])'
      <3>1. CASE q = p
        BY Zenon, <1>1, <1>2, <1>3, <1>4, <1>7, <3>1 DEF Done
      <3>2. CASE q # p /\ pc[q] \in Inside
        <4>1. mine[q] \in Buf \ {b}
          BY Zenon, <1>0, <1>8, <3>2, HasBuffer DEF Inside
        <4> QED BY Zenon, <1>0, <1>2, <1>3, <1>4, <3>2, <4>1 DEF FlagsOK, Done
      <3>3. CASE q # p /\ pc[q] \notin Inside
        BY Zenon, <1>3, <3>3 DEF Inside
      <3> QED BY Zenon, <3>1, <3>2, <3>3
    <2> QED BY Zenon, <1>4, <2>1, <2>2 DEF FlagsOK, Done
  <1>15. QueueServed' /\ CommandOK'
    BY Zenon, <1>0, <1>1, <1>2, <1>3, <1>4, <1>9, QueueKept
  <1> QED BY Zenon, <1>6, <1>10, <1>11, <1>12, <1>13, <1>14, <1>15 DEF CacheInv

\* bwrite() marks the buffer dirty on the way to iderw(): it is not pinned.
LEMMA BwriteInv ==
  ASSUME CacheInv, NEW p \in Proc, NEW d \in {0, 1}, bwrite(p, d)
  PROVE  CacheInv'
  <1> DEFINE b == mine[p]
  <1>0. /\ TypeOK /\ BlockCachedOnce /\ BuffersHeld /\ FlagsOK /\ QueueServed /\ CommandOK
        /\ CacheCoherent /\ Cardinality(Pinned) <= MaxPinned
    BY Zenon DEF CacheInv
  <1>1. /\ b \in Buf /\ buf[b] \in BufRec /\ buf[b].block \in Block /\ pc[p] = "hold"
        /\ buf[b].holder = p /\ buf[b].valid
    BY Zenon, <1>0, HasBuffer DEF bwrite, BuffersHeld, Inside, FlagsOK
  <1>2. /\ \A c \in Buf \ {b} : buf'[c] = buf[c]
        /\ buf'[b].block = buf[b].block /\ buf'[b].refcnt = buf[b].refcnt
        /\ buf'[b].valid = buf[b].valid /\ buf'[b].dirty
        /\ buf'[b].holder = p /\ buf'[b].data \in {0, 1}
        /\ buf' \in [Buf -> BufRec]
    BY Zenon, <1>0, <1>1 DEF TypeOK, bwrite, BufRec
  <1>3. pc'[p] = "rw" /\ \A q \in Proc \ {p} : pc'[q] = pc[q]
    BY Zenon, <1>0, <1>1 DEF TypeOK, bwrite, Goto
  <1>4. UNCHANGED <<mru, queue, cmd, disk, mine, panicked, bad>>
    BY Zenon DEF bwrite
  <1>5. content' = [content EXCEPT ![buf[b].block] = buf'[b].data]
    BY Zenon, <1>0, <1>1 DEF TypeOK, bwrite, BufRec
  <1>6. TypeOK'
    BY <1>0, <1>1, <1>2, <1>4, <1>5 DEF TypeOK, BufRec, bwrite, Goto
  <1>7. mine[p] = b /\ b # 0 /\ p # Nobody
    BY <1>1, BcacheAssumption DEF Buf
  <1>8. \A q \in Proc \ {p} : mine[q] = b => pc[q] \notin Inside
    BY Zenon, <1>0, <1>1 DEF BuffersHeld
  <1>9. b \notin Range(queue) /\ Range(queue) \subseteq Buf
    <2>1. b \notin Range(queue)
      BY Zenon, <1>0, <1>1, NotQueued
    <2>2. queue \in Seq(Buf)
      BY Zenon, <1>0 DEF TypeOK
    <2> QED BY <2>1, <2>2 DEF Range
  <1>10. CacheCoherent'
    BY Zenon, <1>0, <1>1, <1>2, <1>4, <1>5, WriteCoherent
  <1>11. Cardinality(Pinned') <= MaxPinned
    <2>1. Pinned' \subseteq Pinned
      BY Zenon, <1>1, <1>2, <1>3, <1>4, <1>7 DEF Pinned
    <2> QED BY Zenon, <1>0, <2>1, PinnedShrinks
  <1> HIDE DEF b
  <1>12. BlockCachedOnce'
    BY <1>0, <1>1, <1>2, <1>4 DEF BlockCachedOnce
  <1>13. BuffersHeld'
    BY <1>0, <1>1, <1>2, <1>3, <1>4, <1>7, <1>8, HeldKept DEF Inside
  <1>14. FlagsOK'
    <2>1. \A c \in Buf : buf'[c].dirty => buf'[c].valid
      BY Zenon, <1>0, <1>1, <1>2 DEF FlagsOK
    <2>2. ASSUME NEW q \in Proc
          PROVE  /\ pc'[q] = "hold" => buf'[mine'[q]].valid
                 /\ pc'[q] = "rw" => ~Done(mine[q])'
                 /\ pc'[q] = "io" => mine'[q] \in Range(queue')
                 /\ pc'[q] = "woken" => mine'[q] \in Range(queue') \/ Done(mine[q])'
      <3>1. CASE q = p
        BY Zenon, <1>1, <1>2, <1>3, <1>4, <1>7, <3>1 DEF Done
      <3>2. CASE q # p /\ pc[q] \in Inside
        <4>1. mine[q] \in Buf \ {b}
          BY Zenon, <1>0, <1>8, <3>2, HasBuffer DEF Inside
        <4> QED BY Zenon, <1>0, <1>2, <1>3, <1>4, <3>2, <4>1 DEF FlagsOK, Done
      <3>3. CASE q # p /\ pc[q] \notin Inside
        BY Zenon, <1>3, <3>3 DEF Inside
      <3> QED BY Zenon, <3>1, <3>2, <3>3
    <2> QED BY Zenon, <1>4, <2>1, <2>2 DEF FlagsOK, Done
  <1>15. QueueServed' /\ CommandOK'
    BY Zenon, <1>0, <1>1, <1>2, <1>3, <1>4, <1>9, QueueKept
  <1> QED BY Zenon, <1>6, <1>10, <1>11, <1>12, <1>13, <1>14, <1>15 DEF CacheInv
=============================================================================
