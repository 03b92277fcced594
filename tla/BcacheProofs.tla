----------------------------- MODULE BcacheProofs -----------------------------
(***************************************************************************)
(* Proofs about the buffer cache and the IDE driver, for any number of      *)
(* processes, blocks and buffers: CacheInv is inductive.                    *)
(***************************************************************************)
EXTENDS BcacheLemmas
-----------------------------------------------------------------------------
\* iderw() finds a locked buffer with work to do, and queues it once.
LEMMA IderwInv ==
  ASSUME CacheInv, NEW p \in Proc, iderw(p)
  PROVE  CacheInv'
  <1> DEFINE b == mine[p]
  <1>0. /\ TypeOK /\ BlockCachedOnce /\ BuffersHeld /\ FlagsOK /\ QueueServed /\ CommandOK
        /\ CacheCoherent /\ Cardinality(Pinned) <= MaxPinned
    BY Zenon DEF CacheInv
  <1>1. /\ b \in Buf /\ buf[b] \in BufRec /\ buf[b].holder = p /\ pc[p] = "rw" /\ ~Done(b)
        /\ b \notin Range(queue)
    BY Zenon, <1>0, HasBuffer, NotQueued DEF iderw, BuffersHeld, Inside, FlagsOK
  <1>2. /\ queue' = Append(queue, b)
        /\ cmd' = IF queue = <<>> THEN idestart(b) ELSE cmd
        /\ pc' = [pc EXCEPT ![p] = "io"]
        /\ UNCHANGED <<buf, mru, disk, mine, panicked, content, bad>>
    BY Zenon, <1>1 DEF iderw, Goto
  <1>3. pc'[p] = "io" /\ \A q \in Proc \ {p} : pc'[q] = pc[q]
    BY Zenon, <1>0, <1>2 DEF TypeOK
  <1>4. /\ queue \in Seq(Buf) /\ \A i, j \in 1 .. Len(queue) : queue[i] = queue[j] => i = j
    BY Zenon, <1>0 DEF TypeOK, QueueServed
  <1>5. /\ queue' \in Seq(Buf) /\ queue' # <<>> /\ Range(queue') = Range(queue) \cup {b}
        /\ Head(queue') = IF queue = <<>> THEN b ELSE Head(queue)
        /\ \A i, j \in 1 .. Len(queue') : queue'[i] = queue'[j] => i = j
    BY Zenon, <1>1, <1>2, <1>4, AppendedQueue
  <1>6. queue = <<>> => /\ cmd'.write = buf[b].dirty /\ cmd'.block = buf[b].block
                        /\ cmd'.data = buf[b].data /\ cmd'.state = "busy"
    BY Zenon, <1>2 DEF idestart
  <1>7. TypeOK'
    <2>1. cmd' \in [write : BOOLEAN, block : Block \cup {NoBlock}, data : {0, 1},
                    state : {"none", "busy", "ok", "error"}]
      <3>1. CASE queue = <<>>
        BY Zenon, <1>1, <1>2, <3>1 DEF idestart, BufRec
      <3>2. CASE queue # <<>>
        BY Zenon, <1>0, <1>2, <3>2 DEF TypeOK
      <3> QED BY Zenon, <3>1, <3>2
    <2>2. pc' \in [Proc -> {"out", "lock", "rw", "io", "woken", "hold", "put"}]
      BY Zenon, <1>0, <1>2 DEF TypeOK
    <2> QED BY Zenon, <1>0, <1>2, <1>5, <2>1, <2>2 DEF TypeOK
  <1>8. mine[p] = b
    OBVIOUS
  <1> HIDE DEF b
  <1>9. BlockCachedOnce' /\ CacheCoherent'
    BY Zenon, <1>0, <1>2 DEF BlockCachedOnce, CacheCoherent
  <1>10. BuffersHeld'
    BY <1>0, <1>1, <1>2, <1>3 DEF BuffersHeld, Inside
  <1>11. FlagsOK'
    BY Zenon, <1>0, <1>2, <1>3, <1>5, <1>8 DEF FlagsOK, Done
  <1>12. QueueServed'
    <2>1. ASSUME NEW c \in Range(queue')
          PROVE  /\ ~Done(c)'
                 /\ \E q \in Proc : mine'[q] = c /\ buf'[c].holder = q /\ pc'[q] \in {"io", "woken"}
      <3>1. CASE c = b
        BY Zenon, <1>1, <1>2, <1>3, <1>8, <3>1 DEF Done
      <3>2. CASE c \in Range(queue)
        <4>1. PICK q \in Proc : mine[q] = c /\ buf[c].holder = q /\ pc[q] \in {"io", "woken"}
          BY Zenon, <1>0, <3>2 DEF QueueServed
        <4>2. q # p /\ ~Done(c)
          BY Zenon, <1>0, <1>1, <3>2, <4>1 DEF QueueServed
        <4> QED BY Zenon, <1>2, <1>3, <4>1, <4>2 DEF Done
      <3> QED BY Zenon, <1>5, <3>1, <3>2
    <2>2. /\ cmd'.state # "none" /\ cmd'.block = buf'[Head(queue')].block
          /\ cmd'.write = buf'[Head(queue')].dirty
      BY Zenon, <1>0, <1>2, <1>5, <1>6 DEF QueueServed
    <2> QED BY Zenon, <1>5, <2>1, <2>2 DEF QueueServed
  <1>13. CommandOK'
    BY Zenon, <1>0, <1>2, <1>5, <1>6 DEF CommandOK
  <1>14. Pinned' \subseteq Pinned
    BY Zenon, <1>1, <1>2, <1>3 DEF Pinned
  <1> QED
    BY Zenon, <1>0, <1>7, <1>9, <1>10, <1>11, <1>12, <1>13, <1>14, PinnedShrinks DEF CacheInv

\* ideintr() marks the head of the queue done, with the block's data in it, wakes
\* the process that waits for it and starts the next request.
LEMMA IntrInv ==
  ASSUME CacheInv, ideintr
  PROVE  CacheInv'
  <1> DEFINE b == Head(queue)
  <1>0. /\ TypeOK /\ BlockCachedOnce /\ BuffersHeld /\ FlagsOK /\ QueueServed /\ CommandOK
        /\ CacheCoherent /\ Cardinality(Pinned) <= MaxPinned
    BY Zenon DEF CacheInv
  <1>1. /\ queue \in Seq(Buf) /\ \A i, j \in 1 .. Len(queue) : queue[i] = queue[j] => i = j
        /\ queue # <<>> /\ buf \in [Buf -> BufRec] /\ disk \in [Block -> {0, 1}]
    BY Zenon, <1>0 DEF TypeOK, QueueServed, ideintr, BufRec
  <1>2. /\ b \in Buf /\ b \in Range(queue) /\ queue' \in Seq(Buf)
        /\ Range(queue') = Range(queue) \ {b} /\ Range(queue') \subseteq Buf
        /\ queue' # <<>> => Head(queue') \in Range(queue')
        /\ \A i, j \in 1 .. Len(queue') : queue'[i] = queue'[j] => i = j
    <2>1. queue' = Tail(queue)
      BY Zenon DEF ideintr
    <2>2. Range(queue) \subseteq Buf
      BY <1>1 DEF Range
    <2> QED BY <1>1, <2>1, <2>2, ShortenedQueue
  <1>3. /\ cmd.state \in {"ok", "error"} /\ cmd.block = buf[b].block /\ cmd.write = buf[b].dirty
        /\ UNCHANGED <<mru, disk, mine, panicked, content, bad>>
    BY Zenon, <1>0, <1>1 DEF QueueServed, ideintr
  <1>4. PICK o \in Proc : mine[o] = b /\ buf[b].holder = o /\ pc[o] \in {"io", "woken"}
    BY Zenon, <1>0, <1>2 DEF QueueServed
  <1>5. buf[b].block \in Block
    BY Zenon, <1>0, <1>4, HasBuffer
  <1>6. /\ \A c \in Buf \ {b} : buf'[c] = buf[c]
        /\ buf'[b].block = buf[b].block /\ buf'[b].refcnt = buf[b].refcnt
        /\ buf'[b].valid /\ ~buf'[b].dirty /\ buf'[b].holder = buf[b].holder
        /\ buf'[b].data = (IF ~buf[b].dirty /\ cmd.state = "ok" THEN disk[cmd.block]
                           ELSE buf[b].data)
        /\ buf' \in [Buf -> BufRec]
    <2>1. disk[cmd.block] \in {0, 1}
      BY Zenon, <1>1, <1>3, <1>5
    <2> DEFINE d == IF ~buf[b].dirty /\ cmd.state = "ok" THEN disk[cmd.block] ELSE buf[b].data
    <2>2. b \in Buf /\ buf[b] \in BufRec /\ buf \in [Buf -> BufRec]
      BY Zenon, <1>1, <1>2
    <2>3. d \in {0, 1}
      BY Zenon, <2>1, <2>2 DEF BufRec
    <2>4. buf' = [buf EXCEPT ![b].valid = TRUE, ![b].dirty = FALSE, ![b].data = d]
      BY Zenon DEF ideintr
    <2>5. buf'[b].data = d => buf'[b].data = IF ~buf[b].dirty /\ cmd.state = "ok"
                                             THEN disk[cmd.block] ELSE buf[b].data
      OBVIOUS
    <2> HIDE DEF b, d
    <2>6. buf' = [buf EXCEPT ![b] = [@ EXCEPT !.valid = TRUE, !.dirty = FALSE, !.data = d]]
      BY Zenon, <2>2, <2>4 DEF BufRec
    <2>7. /\ \A c \in Buf \ {b} : buf'[c] = buf[c]
          /\ buf'[b].block = buf[b].block /\ buf'[b].refcnt = buf[b].refcnt
          /\ buf'[b].valid /\ ~buf'[b].dirty /\ buf'[b].holder = buf[b].holder
          /\ buf'[b].data = d /\ buf' \in [Buf -> BufRec]
      BY Zenon, <2>2, <2>3, <2>6 DEF BufRec
    <2> QED BY Zenon, <2>5, <2>7
  <1>7. \A q \in Proc : pc'[q] = IF pc[q] = "io" /\ mine[q] = b THEN "woken" ELSE pc[q]
    BY Zenon DEF ideintr
  <1>8. queue' # <<>> =>
          /\ Head(queue') \in Buf \ {b} /\ buf'[Head(queue')] \in BufRec
          /\ cmd' = [write |-> buf'[Head(queue')].dirty, block |-> buf'[Head(queue')].block,
                     data |-> buf'[Head(queue')].data, state |-> "busy"]
    BY Zenon, <1>2, <1>6 DEF ideintr, StartNext, idestart
  <1>9. queue' = <<>> => cmd' = NoCmd
    BY Zenon DEF ideintr, StartNext
  <1>10. \A q \in Proc : /\ pc'[q] = "out" <=> pc[q] = "out"
                         /\ pc'[q] \in Inside <=> pc[q] \in Inside
    BY Zenon, <1>7 DEF Inside
  <1> HIDE DEF b
  <1>11. TypeOK'
    <2>1. cmd' \in [write : BOOLEAN, block : Block \cup {NoBlock}, data : {0, 1},
                    state : {"none", "busy", "ok", "error"}]
      <3>1. CASE queue' = <<>>
        <4>1. NoCmd \in [write : BOOLEAN, block : Block \cup {NoBlock}, data : {0, 1},
                         state : {"none", "busy", "ok", "error"}]
          BY Zenon DEF NoCmd
        <4> QED BY Zenon, <1>9, <3>1, <4>1
      <3>2. CASE queue' # <<>>
        BY <1>8, <3>2 DEF BufRec
      <3> QED BY Zenon, <3>1, <3>2
    <2>2. pc' \in [Proc -> {"out", "lock", "rw", "io", "woken", "hold", "put"}]
      BY Zenon, <1>0 DEF TypeOK, ideintr
    <2> QED BY Zenon, <1>0, <1>2, <1>3, <1>6, <2>1, <2>2 DEF TypeOK, BufRec
  <1>12. BlockCachedOnce'
    <2>1. \A c \in Buf : buf'[c].block = buf[c].block /\ buf'[c].refcnt = buf[c].refcnt
      BY Zenon, <1>2, <1>6
    <2> QED BY Zenon, <1>0, <1>3, <2>1 DEF BlockCachedOnce
  <1>13. BuffersHeld'
    <2>1. \A c \in Buf : buf'[c].block = buf[c].block /\ buf'[c].holder = buf[c].holder
      BY Zenon, <1>2, <1>6
    <2>2. \A q \in Proc : mine[q] \in Buf \cup {0}
      BY Zenon, <1>0 DEF TypeOK
    <2>3. ASSUME NEW q \in Proc
          PROVE  /\ mine'[q] = 0 <=> pc'[q] = "out"
                 /\ mine'[q] # 0 => buf'[mine'[q]].block \in Block
                 /\ pc'[q] \in Inside => buf'[mine'[q]].holder = q
      <3>1. CASE mine[q] = 0
        BY Zenon, <1>0, <1>3, <1>10, <3>1 DEF BuffersHeld, Inside
      <3>2. CASE mine[q] \in Buf
        BY Zenon, <1>0, <1>3, <1>10, <2>1, <3>2 DEF BuffersHeld
      <3> QED BY Zenon, <2>2, <3>1, <3>2
    <2>4. ASSUME NEW c \in Buf, buf'[c].holder # Nobody
          PROVE  mine'[buf'[c].holder] = c /\ pc'[buf'[c].holder] \in Inside
      <3>1. buf[c].holder \in Proc
        BY Zenon, <1>1, <2>1, <2>4 DEF BufRec
      <3> QED BY <1>0, <1>3, <1>10, <2>1, <2>4, <3>1 DEF BuffersHeld
    <2> QED BY Zenon, <2>3, <2>4 DEF BuffersHeld
  <1>14. FlagsOK'
    <2>1. \A c \in Buf : buf'[c].dirty => buf'[c].valid
      BY Zenon, <1>0, <1>2, <1>6 DEF FlagsOK
    <2>2. ASSUME NEW q \in Proc
          PROVE  /\ pc'[q] = "hold" => buf'[mine'[q]].valid
                 /\ pc'[q] = "rw" => ~Done(mine[q])'
                 /\ pc'[q] = "io" => mine'[q] \in Range(queue')
                 /\ pc'[q] = "woken" => mine'[q] \in Range(queue') \/ Done(mine[q])'
      <3>1. CASE mine[q] = b
        <4>1. pc[q] # "rw"
          BY <1>0, <1>4, <3>1 DEF BuffersHeld, Inside
        <4>2. Done(mine[q])'
          BY Zenon, <1>3, <1>6, <3>1 DEF Done
        <4> QED BY Zenon, <1>3, <1>6, <1>7, <3>1, <4>1, <4>2 DEF Done
      <3>2. CASE mine[q] # b /\ pc[q] \in Inside
        <4>1. mine[q] \in Buf \ {b}
          BY Zenon, <1>0, <3>2, HasBuffer DEF Inside
        <4> QED BY Zenon, <1>0, <1>2, <1>3, <1>6, <1>7, <3>2, <4>1 DEF FlagsOK, Done
      <3>3. CASE pc[q] \notin Inside
        BY Zenon, <1>7, <3>3 DEF Inside
      <3> QED BY Zenon, <3>1, <3>2, <3>3
    <2> QED BY Zenon, <1>3, <2>1, <2>2 DEF FlagsOK, Done
  <1>15. QueueServed'
    <2>1. ASSUME NEW c \in Range(queue')
          PROVE  /\ ~Done(c)'
                 /\ \E q \in Proc : mine'[q] = c /\ buf'[c].holder = q /\ pc'[q] \in {"io", "woken"}
      <3>1. c \in Range(queue) /\ c # b /\ c \in Buf
        BY Zenon, <1>2
      <3>2. PICK q \in Proc : mine[q] = c /\ buf[c].holder = q /\ pc[q] \in {"io", "woken"}
        BY Zenon, <1>0, <3>1 DEF QueueServed
      <3>3. ~Done(c)
        BY Zenon, <1>0, <3>1 DEF QueueServed
      <3> QED BY Zenon, <1>3, <1>6, <1>7, <3>1, <3>2, <3>3 DEF Done
    <2>2. queue' # <<>> => /\ cmd'.state # "none" /\ cmd'.block = buf'[Head(queue')].block
                           /\ cmd'.write = buf'[Head(queue')].dirty
      BY <1>8
    <2> QED BY Zenon, <1>2, <1>9, <2>1, <2>2 DEF QueueServed, NoCmd
  <1>16. CommandOK'
    <2>1. CASE queue' = <<>>
      BY <1>9, <2>1 DEF CommandOK, NoCmd
    <2>2. CASE queue' # <<>>
      BY <1>8, <2>2 DEF CommandOK
    <2> QED BY Zenon, <2>1, <2>2
  <1>17. CacheCoherent'
    <2> SUFFICES ASSUME NEW k \in Block \ bad'
                 PROVE  /\ \A c \in Buf : buf'[c].block = k /\ (buf'[c].valid \/ buf'[c].dirty)
                                            => buf'[c].data = content'[k]
                        /\ (\A c \in Buf : buf'[c].block = k => ~buf'[c].dirty)
                             => disk'[k] = content'[k]
      BY Zenon DEF CacheCoherent
    <2>1. CASE k = buf[b].block
      <3>1. \A c \in Buf \ {b} : buf[c].block # k
        BY Zenon, <1>0, <1>2, <2>1, BcacheAssumption DEF BlockCachedOnce
      <3>2. cmd.state = "ok"
        BY Zenon, <1>0, <1>3, <2>1 DEF CommandOK
      <3>3. disk[k] = content[k]
        <4>1. CASE buf[b].dirty
          <5>1. disk[k] = buf[b].data
            BY Zenon, <1>0, <1>3, <2>1, <3>2, <4>1 DEF CommandOK, b
          <5> QED BY Zenon, <1>0, <1>2, <1>3, <2>1, <4>1, <5>1 DEF CacheCoherent
        <4>2. CASE ~buf[b].dirty
          BY Zenon, <1>0, <1>3, <2>1, <3>1, <4>2 DEF CacheCoherent
        <4> QED BY Zenon, <4>1, <4>2
      <3>4. buf'[b].data = content[k]
        <4>1. CASE buf[b].dirty
          BY Zenon, <1>0, <1>2, <1>3, <1>6, <2>1, <4>1 DEF CacheCoherent
        <4>2. CASE ~buf[b].dirty
          BY Zenon, <1>3, <1>6, <2>1, <3>2, <3>3, <4>2
        <4> QED BY Zenon, <4>1, <4>2
      <3> QED BY Zenon, <1>3, <1>6, <2>1, <3>1, <3>3, <3>4
    <2>2. CASE k # buf[b].block
      BY <1>0, <1>2, <1>3, <1>6, <2>2 DEF CacheCoherent
    <2> QED BY Zenon, <2>1, <2>2
  <1>18. Pinned' \subseteq Pinned
    BY Zenon, <1>2, <1>3, <1>6, <1>7 DEF Pinned
  <1> QED
    BY Zenon, <1>0, <1>11, <1>12, <1>13, <1>14, <1>15, <1>16, <1>17, <1>18, PinnedShrinks
    DEF CacheInv
-----------------------------------------------------------------------------
\* bget() finds the block: one reference more, whoever holds the buffer.
LEMMA HitInv ==
  ASSUME CacheInv, NEW p \in Proc, NEW b \in Buf, pc[p] = "out", buf[b].block \in Block,
         bgetHit(p, b), UNCHANGED <<mru, queue, cmd, disk, content, bad>>
  PROVE  CacheInv'
  <1>0. /\ TypeOK /\ BlockCachedOnce /\ BuffersHeld /\ FlagsOK /\ QueueServed /\ CommandOK
        /\ CacheCoherent /\ Cardinality(Pinned) <= MaxPinned
    BY Zenon DEF CacheInv
  <1>1. /\ mine[p] = 0 /\ b # 0 /\ mine \in [Proc -> Buf \cup {0}]
        /\ mine' = [mine EXCEPT ![p] = b] /\ mine'[p] = b /\ UNCHANGED panicked
        /\ \A q \in Proc \ {p} : mine'[q] = mine[q] /\ mine[q] \in Buf \cup {0}
    BY <1>0, BcacheAssumption DEF TypeOK, BuffersHeld, bgetHit, Buf
  <1>2. /\ Cardinality(Users(b)') = Cardinality(Users(b)) + 1
        /\ \A c \in Buf \ {b} : Users(c)' = Users(c)
    BY Zenon, <1>1, UserAdded
  <1>3. \A c \in Buf : buf[c].refcnt = Cardinality(Users(c))
    BY Zenon, <1>0 DEF BlockCachedOnce, Users
  <1>4. buf[b].refcnt + 1 = Cardinality(Users(b)') /\ buf[b].refcnt + 1 \in 0 .. Cardinality(Proc)
    <2>1. Users(b)' \subseteq Proc
      BY Zenon DEF Users
    <2> QED BY Zenon, <1>2, <1>3, <2>1, ProcSubset
  <1>5. buf \in [Buf -> BufRec]
    BY Zenon, <1>0 DEF TypeOK, BufRec
  <1>6. /\ \A c \in Buf \ {b} : buf'[c] = buf[c]
        /\ buf'[b].block = buf[b].block /\ buf'[b].refcnt = buf[b].refcnt + 1
        /\ buf'[b].valid = buf[b].valid /\ buf'[b].dirty = buf[b].dirty
        /\ buf'[b].data = buf[b].data /\ buf'[b].holder = buf[b].holder
        /\ buf' \in [Buf -> BufRec]
    BY Zenon, <1>4, <1>5 DEF bgetHit, BufRec
  <1>7. \A c \in Buf : /\ buf'[c].block = buf[c].block /\ buf'[c].valid = buf[c].valid
                       /\ buf'[c].dirty = buf[c].dirty /\ buf'[c].data = buf[c].data
                       /\ buf'[c].holder = buf[c].holder
    BY Zenon, <1>6
  <1>8. pc'[p] = "lock" /\ \A q \in Proc \ {p} : pc'[q] = pc[q]
    BY Zenon, <1>0 DEF TypeOK, bgetHit, Goto
  <1>9. TypeOK'
    <2>1. pc' \in [Proc -> {"out", "lock", "rw", "io", "woken", "hold", "put"}]
          /\ mine' \in [Proc -> Buf \cup {0}]
      BY Zenon, <1>0 DEF TypeOK, bgetHit, Goto
    <2> QED BY Zenon, <1>0, <1>1, <1>6, <2>1 DEF TypeOK, BufRec
  <1>10. BlockCachedOnce'
    <2>1. \A c \in Buf : buf'[c].refcnt = Cardinality(Users(c)')
      BY Zenon, <1>2, <1>3, <1>4, <1>6
    <2>2. \A c, d \in Buf : c # d /\ buf'[c].block = buf'[d].block => buf'[c].block = NoBlock
      BY <1>0, <1>7 DEF BlockCachedOnce
    <2> QED BY Zenon, <2>1, <2>2 DEF BlockCachedOnce, Users
  <1>11. BuffersHeld'
    <2>1. \A q \in Proc : pc[q] \in Inside /\ mine[q] = b => buf[b].holder = q
      BY Zenon, <1>0 DEF BuffersHeld
    <2>2. buf[b].holder # p
      BY <1>0, <1>1, BcacheAssumption DEF BuffersHeld
    <2> QED BY <1>0, <1>1, <1>6, <1>7, <1>8, <2>1, <2>2, HeldKept DEF Inside
  <1>12. FlagsOK'
    BY Zenon, <1>0, <1>1, <1>7, <1>8, FlagsKept
  <1>13. QueueServed' /\ CommandOK'
    <2>1. queue \in Seq(Buf)
      BY Zenon, <1>0 DEF TypeOK
    <2>2. Range(queue) \subseteq Buf
      BY <2>1 DEF Range
    <2> QED BY Zenon, <1>0, <1>1, <1>7, <1>8, <2>2, QueueKept
  <1>14. CacheCoherent'
    BY <1>0, <1>1, <1>7 DEF CacheCoherent
  <1>15. Pinned' \subseteq Pinned
    BY Zenon, <1>1, <1>7, <1>8 DEF Pinned
  <1> QED
    BY Zenon, <1>0, <1>9, <1>10, <1>11, <1>12, <1>13, <1>14, <1>15, PinnedShrinks DEF CacheInv

\* bget() recycles a buffer that nobody has and that is clean, for a block that is
\* not cached: the block the buffer had is up to date on disk.
LEMMA RecycleInv ==
  ASSUME CacheInv, NEW p \in Proc, NEW b \in Buf, NEW k \in Block, pc[p] = "out",
         buf[b].refcnt = 0, ~buf[b].dirty, \A c \in Buf : buf[c].block # k,
         bgetRecycle(p, b, k), UNCHANGED <<mru, queue, cmd, disk, content, bad>>
  PROVE  CacheInv'
  <1>0. /\ TypeOK /\ BlockCachedOnce /\ BuffersHeld /\ FlagsOK /\ QueueServed /\ CommandOK
        /\ CacheCoherent /\ Cardinality(Pinned) <= MaxPinned
    BY Zenon DEF CacheInv
  <1>1. /\ mine[p] = 0 /\ b # 0 /\ mine \in [Proc -> Buf \cup {0}]
        /\ mine' = [mine EXCEPT ![p] = b] /\ mine'[p] = b /\ UNCHANGED panicked
        /\ \A q \in Proc \ {p} : mine'[q] = mine[q] /\ mine[q] \in Buf \cup {0}
    BY <1>0, BcacheAssumption DEF TypeOK, BuffersHeld, bgetRecycle, Buf
  <1>2. \A q \in Proc : mine[q] # b
    BY Zenon, <1>0, Unreferenced
  <1>3. /\ Cardinality(Users(b)') = 1 /\ 1 \in 0 .. Cardinality(Proc)
        /\ \A c \in Buf \ {b} : Users(c)' = Users(c)
    <2>1. Cardinality(Users(b)) = 0
      BY Zenon, <1>0 DEF BlockCachedOnce, Users
    <2>2. /\ Cardinality(Users(b)') = Cardinality(Users(b)) + 1
          /\ \A c \in Buf \ {b} : Users(c)' = Users(c)
      BY Zenon, <1>1, UserAdded
    <2>3. Users(b)' \subseteq Proc
      BY Zenon DEF Users
    <2>4. Cardinality(Users(b)') = 1
      BY <2>1, <2>2
    <2> QED BY Zenon, <2>2, <2>3, <2>4, ProcSubset
  <1>4. buf \in [Buf -> BufRec]
    BY Zenon, <1>0 DEF TypeOK, BufRec
  <1>5. buf[b].holder = Nobody
    BY <1>0, <1>2, <1>4 DEF BuffersHeld, BufRec
  <1>6. /\ \A c \in Buf \ {b} : buf'[c] = buf[c]
        /\ buf'[b].block = k /\ buf'[b].refcnt = 1 /\ ~buf'[b].valid /\ ~buf'[b].dirty
        /\ buf'[b].holder = Nobody
        /\ buf' \in [Buf -> BufRec]
    <2>1. buf' = [buf EXCEPT ![b] = [@ EXCEPT !.block = k, !.refcnt = 1, !.valid = FALSE,
                                              !.dirty = FALSE]]
      BY Zenon, <1>4 DEF bgetRecycle, BufRec
    <2>2. 1 \in 0 .. Cardinality(Proc) /\ buf[b] \in BufRec
      BY Zenon, <1>3, <1>4
    <2>3. [buf[b] EXCEPT !.block = k, !.refcnt = 1, !.valid = FALSE, !.dirty = FALSE] \in BufRec
      BY Zenon, <2>2 DEF BufRec
    <2>4. buf' \in [Buf -> BufRec]
      BY Zenon, <1>4, <2>1, <2>3
    <2> QED BY Zenon, <1>4, <1>5, <2>1, <2>2, <2>4 DEF BufRec
  <1>7. pc'[p] = "lock" /\ \A q \in Proc \ {p} : pc'[q] = pc[q]
    BY Zenon, <1>0 DEF TypeOK, bgetRecycle, Goto
  <1>8. TypeOK'
    <2>1. pc' \in [Proc -> {"out", "lock", "rw", "io", "woken", "hold", "put"}]
          /\ mine' \in [Proc -> Buf \cup {0}]
      BY Zenon, <1>0 DEF TypeOK, bgetRecycle, Goto
    <2> QED BY Zenon, <1>0, <1>1, <1>6, <2>1 DEF TypeOK, BufRec
  <1>9. BlockCachedOnce'
    <2>1. \A c \in Buf \ {b} : buf'[c].refcnt = Cardinality(Users(c)')
      BY Zenon, <1>0, <1>3, <1>6 DEF BlockCachedOnce, Users
    <2>2. \A c, d \in Buf : c # d /\ buf'[c].block = buf'[d].block => buf'[c].block = NoBlock
      BY <1>0, <1>6 DEF BlockCachedOnce
    <2> QED BY Zenon, <1>3, <1>6, <2>1, <2>2 DEF BlockCachedOnce, Users
  <1>10. BuffersHeld'
    BY <1>0, <1>1, <1>2, <1>6, <1>7, HeldKept DEF Inside
  <1>11. FlagsOK'
    <2>1. \A c \in Buf : buf'[c].dirty => buf'[c].valid
      BY Zenon, <1>0, <1>6 DEF FlagsOK
    <2>2. ASSUME NEW q \in Proc
          PROVE  /\ pc'[q] = "hold" => buf'[mine'[q]].valid
                 /\ pc'[q] = "rw" => ~Done(mine[q])'
                 /\ pc'[q] = "io" => mine'[q] \in Range(queue')
                 /\ pc'[q] = "woken" => mine'[q] \in Range(queue') \/ Done(mine[q])'
      <3>1. CASE q = p
        BY Zenon, <1>7, <3>1
      <3>2. CASE q # p /\ pc[q] # "out"
        <4>1. mine[q] \in Buf \ {b} /\ mine'[q] = mine[q] /\ pc'[q] = pc[q]
          BY Zenon, <1>0, <1>1, <1>2, <1>7, <3>2, HasBuffer
        <4> QED BY Zenon, <1>0, <1>6, <4>1 DEF FlagsOK, Done
      <3>3. CASE q # p /\ pc[q] = "out"
        BY Zenon, <1>7, <3>3
      <3> QED BY Zenon, <3>1, <3>2, <3>3
    <2> QED BY Zenon, <2>1, <2>2 DEF FlagsOK, Done
  <1>12. QueueServed' /\ CommandOK'
    <2>1. queue \in Seq(Buf)
      BY Zenon, <1>0 DEF TypeOK
    <2>2. Range(queue) \subseteq Buf
      BY <2>1 DEF Range
    <2>3. b \notin Range(queue)
      BY Zenon, <1>0, <1>2 DEF QueueServed
    <2> QED BY Zenon, <1>0, <1>1, <1>6, <1>7, <2>2, <2>3, QueueKept
  <1>13. CacheCoherent'
    <2> SUFFICES ASSUME NEW l \in Block \ bad'
                 PROVE  /\ \A c \in Buf : buf'[c].block = l /\ (buf'[c].valid \/ buf'[c].dirty)
                                            => buf'[c].data = content'[l]
                        /\ (\A c \in Buf : buf'[c].block = l => ~buf'[c].dirty)
                             => disk'[l] = content'[l]
      BY Zenon DEF CacheCoherent
    <2>1. \A c \in Buf : buf'[c].block = l /\ (buf'[c].valid \/ buf'[c].dirty)
                           => buf'[c].data = content'[l]
      BY <1>0, <1>6 DEF CacheCoherent
    <2>2. (\A c \in Buf : buf'[c].block = l => ~buf'[c].dirty)
            => \A c \in Buf : buf[c].block = l => ~buf[c].dirty
      BY Zenon, <1>6
    <2> QED BY Zenon, <1>0, <2>1, <2>2 DEF CacheCoherent
  <1>14. Pinned' \subseteq Pinned
    BY Zenon, <1>1, <1>6, <1>7 DEF Pinned
  <1> QED
    BY Zenon, <1>0, <1>8, <1>9, <1>10, <1>11, <1>12, <1>13, <1>14, PinnedShrinks DEF CacheInv

\* A step that changes nothing, or only panics
LEMMA StutterInv ==
  ASSUME CacheInv, UNCHANGED <<buf, mru, queue, cmd, disk, pc, mine, content, bad>>,
         panicked' \in BOOLEAN
  PROVE  CacheInv'
  <1>0. /\ TypeOK /\ BlockCachedOnce /\ BuffersHeld /\ FlagsOK /\ QueueServed /\ CommandOK
        /\ CacheCoherent /\ Cardinality(Pinned) <= MaxPinned
    BY Zenon DEF CacheInv
  <1>1. TypeOK'
    BY Zenon, <1>0 DEF TypeOK
  <1>2. BlockCachedOnce'
    BY Zenon, <1>0 DEF BlockCachedOnce
  <1>3. BuffersHeld'
    BY Zenon, <1>0 DEF BuffersHeld
  <1>4. FlagsOK'
    BY Zenon, <1>0 DEF FlagsOK, Done
  <1>5. QueueServed' /\ CommandOK'
    BY <1>0, QueueKept
  <1>6. CacheCoherent'
    BY Zenon, <1>0 DEF CacheCoherent
  <1>7. Pinned' = Pinned
    BY Zenon DEF Pinned
  <1> QED BY Zenon, <1>0, <1>1, <1>2, <1>3, <1>4, <1>5, <1>6, <1>7 DEF CacheInv

\* bget() finds the block or a buffer for it, or panics.
LEMMA BgetInv ==
  ASSUME CacheInv, NEW p \in Proc, NEW k \in Block, bget(p, k)
  PROVE  CacheInv'
  <1>0. TypeOK /\ BlockCachedOnce /\ BuffersHeld /\ Cardinality(Pinned) <= MaxPinned
    BY Zenon DEF CacheInv
  <1>1. pc[p] = "out" /\ UNCHANGED <<mru, queue, cmd, disk, content, bad>> /\ mine[p] = 0
    BY Zenon, <1>0 DEF bget, BuffersHeld
  <1>2. \A i \in Buf : mru[i] \in Buf
    BY Zenon, <1>0 DEF TypeOK
  <1>3. CASE \E i \in Foremost(Cached(k)) : bgetHit(p, mru[i])
    <2>1. PICK i \in Foremost(Cached(k)) : bgetHit(p, mru[i])
      BY Zenon, <1>3
    <2>2. mru[i] \in Buf /\ buf[mru[i]].block \in Block
      BY Zenon, <1>2, <2>1 DEF Foremost, Cached
    <2> QED BY Zenon, <1>1, <2>1, <2>2, HitInv
  <1>4. CASE Cached(k) = {} /\ \E i \in Hindmost(Recyclable) : bgetRecycle(p, mru[i], k)
    <2>1. PICK i \in Hindmost(Recyclable) : bgetRecycle(p, mru[i], k)
      BY Zenon, <1>4
    <2>2. mru[i] \in Buf /\ buf[mru[i]].refcnt = 0 /\ ~buf[mru[i]].dirty
      BY Zenon, <1>2, <2>1 DEF Hindmost, Recyclable
    <2>3. ASSUME NEW c \in Buf PROVE buf[c].block # k
      <3>1. PICK j \in Buf : mru[j] = c
        BY Zenon, <1>0, InList
      <3> QED BY Zenon, <1>4, <3>1 DEF Cached
    <2> QED BY Zenon, <1>1, <2>1, <2>2, <2>3, RecycleInv
  <1>5. CASE panicked' = TRUE /\ UNCHANGED <<buf, mine, pc>>
    BY Zenon, <1>1, <1>5, StutterInv
  <1> QED BY Zenon, <1>3, <1>4, <1>5 DEF bget

\* brelse() gives the reference back; the buffer keeps its block and its flags.
LEMMA BrelseInv ==
  ASSUME CacheInv, NEW p \in Proc, brelse(p)
  PROVE  CacheInv'
  <1>0. /\ TypeOK /\ BlockCachedOnce /\ BuffersHeld /\ FlagsOK /\ QueueServed /\ CommandOK
        /\ CacheCoherent /\ Cardinality(Pinned) <= MaxPinned
    BY Zenon DEF CacheInv
  <1>1. PICK b \in Buf : b = mine[p] /\ buf[b].block \in Block /\ pc[p] = "put"
    BY Zenon, <1>0, HasBuffer DEF brelse
  <1>2. /\ b # 0 /\ mine \in [Proc -> Buf \cup {0}]
        /\ mine' = [mine EXCEPT ![p] = 0] /\ mine'[p] = 0
        /\ UNCHANGED <<queue, cmd, disk, panicked, content, bad>>
        /\ \A q \in Proc \ {p} : mine'[q] = mine[q] /\ mine[q] \in Buf \cup {0}
    BY <1>0, <1>1, BcacheAssumption DEF TypeOK, brelse, Buf
  <1>3. /\ Cardinality(Users(b)') = Cardinality(Users(b)) - 1 /\ Cardinality(Users(b)) >= 1
        /\ \A c \in Buf \ {b} : Users(c)' = Users(c)
    BY Zenon, <1>1, <1>2, UserRemoved
  <1>4. \A c \in Buf : buf[c].refcnt = Cardinality(Users(c))
    BY Zenon, <1>0 DEF BlockCachedOnce, Users
  <1>5. buf[b].refcnt - 1 = Cardinality(Users(b)') /\ buf[b].refcnt - 1 \in 0 .. Cardinality(Proc)
    <2>1. Users(b)' \subseteq Proc
      BY Zenon DEF Users
    <2> QED BY Zenon, <1>3, <1>4, <2>1, ProcSubset
  <1>6. buf \in [Buf -> BufRec]
    BY Zenon, <1>0 DEF TypeOK, BufRec
  <1>7. /\ \A c \in Buf \ {b} : buf'[c] = buf[c]
        /\ buf'[b].block = buf[b].block /\ buf'[b].refcnt = buf[b].refcnt - 1
        /\ buf'[b].valid = buf[b].valid /\ buf'[b].dirty = buf[b].dirty
        /\ buf'[b].data = buf[b].data /\ buf'[b].holder = buf[b].holder
        /\ buf' \in [Buf -> BufRec]
    <2>1. buf' = [buf EXCEPT ![b].refcnt = @ - 1]
      BY Zenon, <1>1 DEF brelse
    <2> QED BY Zenon, <1>5, <1>6, <2>1 DEF BufRec
  <1>8. \A c \in Buf : /\ buf'[c].block = buf[c].block /\ buf'[c].valid = buf[c].valid
                       /\ buf'[c].dirty = buf[c].dirty /\ buf'[c].data = buf[c].data
                       /\ buf'[c].holder = buf[c].holder
    BY Zenon, <1>7
  <1>9. pc'[p] = "out" /\ \A q \in Proc \ {p} : pc'[q] = pc[q]
    BY Zenon, <1>0 DEF TypeOK, brelse, Goto
  <1>10. TypeOK'
    <2>1. pc' \in [Proc -> {"out", "lock", "rw", "io", "woken", "hold", "put"}]
          /\ mine' \in [Proc -> Buf \cup {0}]
      BY Zenon, <1>0 DEF TypeOK, brelse, Goto
    <2>2. mru' \in [Buf -> Buf] /\ Range(mru') = Buf
      <3>1. mru' = MoveToFront(b) \/ mru' = mru
        BY Zenon, <1>1 DEF brelse
      <3>2. mru \in [Buf -> Buf] /\ Range(mru) = Buf
        BY Zenon, <1>0 DEF TypeOK
      <3>3. MoveToFront(b) \in [Buf -> Buf] /\ Range(MoveToFront(b)) = Buf
        BY Zenon, <1>0, MoveToFrontKeeps
      <3> QED BY Zenon, <3>1, <3>2, <3>3
    <2> QED BY Zenon, <1>0, <1>2, <1>7, <2>1, <2>2 DEF TypeOK, BufRec
  <1>11. BlockCachedOnce'
    <2>1. \A c \in Buf : buf'[c].refcnt = Cardinality(Users(c)')
      BY Zenon, <1>3, <1>4, <1>5, <1>7
    <2>2. \A c, d \in Buf : c # d /\ buf'[c].block = buf'[d].block => buf'[c].block = NoBlock
      BY <1>0, <1>8 DEF BlockCachedOnce
    <2> QED BY Zenon, <2>1, <2>2 DEF BlockCachedOnce, Users
  <1>12. BuffersHeld'
    <2>1. \A q \in Proc : pc[q] \in Inside /\ mine[q] = b => buf[b].holder = q
      BY Zenon, <1>0 DEF BuffersHeld
    <2>2. buf[b].holder # p
      BY <1>0, <1>1, BcacheAssumption DEF BuffersHeld, Inside
    <2> QED BY <1>0, <1>1, <1>2, <1>7, <1>8, <1>9, <2>1, <2>2, HeldKept DEF Inside
  <1>13. FlagsOK'
    BY Zenon, <1>0, <1>2, <1>8, <1>9, FlagsKept
  <1>14. QueueServed' /\ CommandOK'
    <2>1. queue \in Seq(Buf)
      BY Zenon, <1>0 DEF TypeOK
    <2>2. Range(queue) \subseteq Buf
      BY <2>1 DEF Range
    <2> QED BY Zenon, <1>0, <1>1, <1>2, <1>8, <1>9, <2>2, QueueKept
  <1>15. CacheCoherent'
    BY <1>0, <1>2, <1>8 DEF CacheCoherent
  <1>16. Pinned' \subseteq Pinned
    BY Zenon, <1>1, <1>2, <1>8, <1>9 DEF Pinned
  <1> QED
    BY Zenon, <1>0, <1>10, <1>11, <1>12, <1>13, <1>14, <1>15, <1>16, PinnedShrinks DEF CacheInv
-----------------------------------------------------------------------------
\* binit() and ideinit() establish the invariant.
LEMMA InitInv ==
  ASSUME Init
  PROVE  CacheInv
  <1>1. /\ NBUF \in Nat /\ MaxPinned \in Nat
        /\ Cardinality(Proc) \in Nat /\ Cardinality({}) = 0
    BY Zenon, BcacheAssumption, FS_CardinalityType, FS_EmptySet
  <1>2. Range(mru) = Buf /\ mru \in [Buf -> Buf]
    <2>1. \A i \in Buf : NBUF + 1 - i \in Buf /\ NBUF + 1 - (NBUF + 1 - i) = i
      BY <1>1 DEF Buf
    <2>2. mru = [i \in Buf |-> NBUF + 1 - i]
      BY Zenon DEF Init
    <2> QED BY Zenon, <2>1, <2>2 DEF Range
  <1>3. TypeOK
    <2>1. buf \in [Buf -> BufRec]
      BY <1>1 DEF Init, BufRec
    <2>2. cmd \in [write : BOOLEAN, block : Block \cup {NoBlock}, data : {0, 1},
                   state : {"none", "busy", "ok", "error"}]
      BY Zenon DEF Init, NoCmd
    <2>3. queue \in Seq(Buf)
      BY DEF Init
    <2> QED BY Zenon, <1>2, <2>1, <2>2, <2>3 DEF Init, TypeOK, BufRec
  <1>4. \A b \in Buf : /\ buf[b].block = NoBlock /\ buf[b].refcnt = 0 /\ ~buf[b].valid
                       /\ ~buf[b].dirty /\ buf[b].holder = Nobody
    BY Zenon DEF Init
  <1>5. \A q \in Proc : mine[q] = 0 /\ pc[q] = "out"
    BY Zenon DEF Init
  <1>6. \A b \in Buf : {q \in Proc : mine[q] = b} = {}
    BY <1>1, <1>5 DEF Buf
  <1>7. BlockCachedOnce
    BY Zenon, <1>1, <1>4, <1>6 DEF BlockCachedOnce
  <1>8. BuffersHeld /\ FlagsOK
    BY Zenon, <1>4, <1>5 DEF BuffersHeld, FlagsOK, Inside
  <1>9. QueueServed
    <2>1. queue = <<>> /\ cmd = NoCmd /\ Len(queue) = 0 /\ Range(queue) = {}
      BY DEF Init, Range
    <2> QED BY <2>1 DEF QueueServed
  <1>10. CommandOK /\ CacheCoherent
    BY Zenon, <1>4 DEF Init, NoCmd, CommandOK, CacheCoherent
  <1>11. Cardinality(Pinned) <= MaxPinned
    <2>1. Pinned = {}
      BY Zenon, <1>4 DEF Pinned
    <2> QED BY <1>1, <2>1
  <1> QED BY Zenon, <1>3, <1>7, <1>8, <1>9, <1>10, <1>11 DEF CacheInv

\* Every step of the cache, the driver and the disk keeps the invariant.
LEMMA NextInv ==
  ASSUME CacheInv, [Next]_vars
  PROVE  CacheInv'
  <1>1. CASE UNCHANGED vars
    <2>1. panicked \in BOOLEAN
      BY Zenon DEF CacheInv, TypeOK
    <2> QED BY Zenon, <1>1, <2>1, StutterInv DEF vars
  <1>2. ASSUME NEW p \in Proc, NEW k \in Block, bget(p, k) PROVE CacheInv'
    BY Zenon, <1>2, BgetInv
  <1>3. ASSUME NEW p \in Proc, NEW d \in {0, 1}, bwrite(p, d) PROVE CacheInv'
    BY Zenon, <1>3, BwriteInv
  <1>4. ASSUME NEW ok \in BOOLEAN, DiskDone(ok) PROVE CacheInv'
    BY Zenon, <1>4, DiskInv
  <1>5. ASSUME NEW p \in Proc,
               \/ bread(p) \/ iderw(p) \/ iderwWakes(p) \/ kill(p)
               \/ modify(p) \/ releasesleep(p) \/ brelse(p)
        PROVE  CacheInv'
    BY Zenon, <1>5, BreadInv, IderwInv, WakesInv, KillInv, ModifyInv, ReleaseInv, BrelseInv
  <1> QED BY Zenon, <1>1, <1>2, <1>3, <1>4, <1>5, IntrInv DEF Next

\* CacheInv is an invariant: references, sleep locks, flags, the queue, the disk's
\* command and the data agree at every step of bio.c and ide.c.
THEOREM CacheInvariant == Spec => []CacheInv
  <1>1. Init => CacheInv
    BY Zenon, InitInv
  <1>2. CacheInv /\ [Next]_vars => CacheInv'
    BY Zenon, NextInv
  <1> QED BY <1>1, <1>2, PTL DEF Spec

\* A block is in one buffer at a time, and refcnt counts the processes between
\* bget() and brelse().
THEOREM CachedOnceTheorem == Spec => []BlockCachedOnce
  <1>1. CacheInv => BlockCachedOnce
    BY Zenon DEF CacheInv
  <1> QED BY <1>1, CacheInvariant, PTL

\* No modification is lost or lands in another block, although bget() recycles
\* buffers and ideintr() completes requests while processes wait: what a valid
\* buffer holds, or the disk if there is no dirty one, is what was last written.
THEOREM CoherentTheorem == Spec => []CacheCoherent
  <1>1. CacheInv => CacheCoherent
    BY Zenon DEF CacheInv
  <1> QED BY <1>1, CacheInvariant, PTL

\* Whatever is queued for the disk is locked by a process that waits for it, and
\* the disk is never idle while the queue is not empty.
THEOREM QueueTheorem == Spec => []QueueServed
  <1>1. CacheInv => QueueServed
    BY Zenon DEF CacheInv
  <1> QED BY <1>1, CacheInvariant, PTL

\* What a step that panics says of the state it is taken in
LEMMA PanicStep ==
  ASSUME CacheInv, [Next]_vars, ~panicked, panicked'
  PROVE  /\ \A p \in Proc : ~iderw(p)
         /\ NBUF <= Cardinality(Pinned) + Cardinality({p \in Proc : mine[p] # 0})
  <1>0. TypeOK /\ BlockCachedOnce /\ BuffersHeld /\ FlagsOK
    BY Zenon DEF CacheInv
  <1>1. ASSUME NEW p \in Proc, iderw(p) PROVE UNCHANGED panicked
    BY Zenon, <1>0, <1>1 DEF iderw, BuffersHeld, FlagsOK, Inside
  <1>2. ASSUME NEW p \in Proc,
               \/ bread(p) \/ iderwWakes(p) \/ kill(p)
               \/ modify(p) \/ releasesleep(p) \/ brelse(p)
               \/ \E d \in {0, 1} : bwrite(p, d)
        PROVE  UNCHANGED panicked
    BY Zenon, <1>2 DEF bread, iderwWakes, kill, modify, releasesleep, brelse, bwrite
  <1>3. ASSUME (\E ok \in BOOLEAN : DiskDone(ok)) \/ ideintr \/ UNCHANGED vars
        PROVE  UNCHANGED panicked
    BY Zenon, <1>3 DEF DiskDone, ideintr, vars
  <1>4. PICK p \in Proc, k \in Block : bget(p, k)
    BY Zenon, <1>1, <1>2, <1>3 DEF Next
  <1>5. Recyclable = {}
    BY Zenon, <1>4 DEF bget, bgetHit, bgetRecycle
  <1>6. NBUF <= Cardinality(Pinned) + Cardinality({q \in Proc : mine[q] # 0})
    BY Zenon, <1>0, <1>5, BuffersTaken
  <1>7. \A q \in Proc : ~iderw(q)
    BY Zenon, <1>1
  <1> QED BY Zenon, <1>6, <1>7

\* Neither bget() nor iderw() panics while a buffer is left that no process uses
\* and the log has not pinned, in any interleaving: brelse() and ideintr() give
\* back all that bget() and the log took.
THEOREM PanicTheorem == Spec => PanicsOnlyWhenFull
  <1>1. CacheInv /\ [Next]_vars =>
          [~panicked /\ panicked' =>
             /\ \A p \in Proc : ~iderw(p)
             /\ NBUF <= Cardinality(Pinned) + Cardinality({p \in Proc : mine[p] # 0})]_vars
    BY Zenon, PanicStep
  <1> QED BY <1>1, CacheInvariant, PTL DEF Spec, PanicsOnlyWhenFull
=============================================================================
