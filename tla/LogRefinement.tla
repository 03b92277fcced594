---------------------------- MODULE LogRefinement ----------------------------
(***************************************************************************)
(* Log implements AtomicLog: the initial states map to initial states and,  *)
(* under the inductive invariant, every step maps to a step or a stutter.   *)
(***************************************************************************)
EXTENDS LogProofs

\* What recovery would restore: the log blocks named by the header, and the
\* home blocks otherwise.
LEMMA DurableFacts ==
  ASSUME LogInv
  PROVE  /\ Durable = [b \in Block |-> Durable[b]]
         /\ \A i \in DOMAIN head : Durable[head[i]] = logBlk[i]
         /\ \A b \in Block : b \notin Logged(head) => Durable[b] = disk[b]
         /\ head = <<>> => Durable = disk
  <1>1. Durable = [b \in Block |-> Durable[b]]
    BY DEF Durable
  <1>2. \A b \in Block : b \notin Logged(head) => Durable[b] = disk[b]
    BY Zenon DEF Durable
  <1>3. ASSUME NEW i \in DOMAIN head PROVE Durable[head[i]] = logBlk[i]
    <2>1. head[i] \in Block /\ head[i] \in Logged(head)
      BY DEF LogInv, TypeOK, Logged
    <2> DEFINE j == CHOOSE k \in DOMAIN head : head[k] = head[i]
    <2>2. j \in DOMAIN head /\ head[j] = head[i]
      OBVIOUS
    <2>3. j = i
      <3> HIDE DEF j
      <3> QED BY Zenon, <2>2 DEF LogInv, HeaderOK
    <2>4. Durable[head[i]] = logBlk[j]
      BY Zenon, <2>1 DEF Durable
    <2> QED BY <2>3, <2>4, Zenon
  <1>4. ASSUME head = <<>> PROVE Durable = disk
    <2>1. Logged(head) = {}
      BY <1>4 DEF Logged
    <2>2. disk = [b \in Block |-> disk[b]]
      BY Zenon DEF LogInv, TypeOK
    <2> QED BY Zenon, <1>1, <1>2, <2>1, <2>2
  <1> QED BY <1>1, <1>2, <1>3, <1>4, Zenon

\* A buffer that is neither locked nor pinned holds what is on disk.
LEMMA CleanContent ==
  ASSUME LogInv, NEW b \in Block, b \notin dirty, ~Held(b)
  PROVE  Content[b] = disk[b]
  BY Zenon DEF LogInv, CacheOK, Content

\* A step that the abstract specification does not see.
LEMMA StutterRef ==
  ASSUME Durable' = Durable, Current' = Current, Active' = Active,
         committing' = committing
  PROVE  [Abs!ANext]_(Abs!avars)
  BY Zenon DEF Abs!avars

\* The initial states.
LEMMA InitRef == Init => Abs!AInit
  <1> SUFFICES ASSUME Init PROVE Abs!AInit OBVIOUS
  <1>1. Durable = disk /\ disk \in [Block -> Val]
    BY Zenon, InitInv, DurableFacts DEF Init
  <1>2. Current = Durable
    <2>1. ~Up
      BY Zenon DEF Init, Up, Process
    <2> QED BY Zenon, <2>1 DEF Current
  <1>3. Active = {} /\ committing = FALSE
    BY LogAssumption, Zenon DEF Init, Active, Process
  <1> QED BY Zenon, <1>1, <1>2, <1>3 DEF Abs!AInit

\* The buffer cache is invisible.
LEMMA CacheRef ==
  ASSUME LogInv, NEW b \in Block, Read(b) \/ Recycle(b)
  PROVE  [Abs!ANext]_(Abs!avars)
  <1>1. UNCHANGED <<disk, logBlk, head, pc, committing>>
    BY Zenon DEF Read, Recycle, diskVars
  <1>2. Content' = Content
    <2>1. CASE Read(b)
      BY <2>1, Zenon DEF Read, diskVars, Content, LogInv, TypeOK
    <2>2. CASE Recycle(b)
      BY <2>2, Zenon DEF Recycle, diskVars, Content, LogInv, TypeOK, CacheOK
    <2> QED BY Zenon, <2>1, <2>2
  <1>3. Durable' = Durable /\ Active' = Active
    BY <1>1 DEF Durable, Logged, Active
  <1>4. Current' = Current
    BY Zenon, <1>1, <1>2, <1>3 DEF Current, Up
  <1> QED BY <1>1, <1>3, <1>4, StutterRef, Zenon

\* begin_op() is ABegin when it admits the call.
LEMMA BeginRef ==
  ASSUME LogInv, NEW o \in Op, begin_op(o) PROVE [Abs!ANext]_(Abs!avars)
  <1> USE LogAssumption
  <1>1. /\ pc[o] \in {"idle", "woken"}
        /\ pc' = [pc EXCEPT ![o] = IF MustWait THEN "asleep" ELSE "run"]
        /\ UNCHANGED <<disk, logBlk, head, cache, committing>>
    BY Zenon DEF begin_op, Goto, diskVars
  <1>2. Durable' = Durable /\ Content' = Content /\ (Up' <=> Up)
    BY <1>1 DEF Durable, Logged, Content, Up, LogInv, TypeOK, Process
  <1>3. Current' = Current
    BY Zenon, <1>2 DEF Current
  <1>4. CASE MustWait
    <2>1. Active' = Active
      BY <1>1, <1>4, Zenon DEF Active, LogInv, TypeOK, Process
    <2> QED BY <1>1, <1>2, <1>3, <2>1, StutterRef, Zenon
  <1>5. CASE ~MustWait
    <2>1. Active' = Active \cup {o} /\ o \notin Active
      BY <1>1, <1>5 DEF Active, LogInv, TypeOK, Process
    <2>2. ~committing
      BY Zenon, <1>5 DEF MustWait
    <2>3. Abs!ABegin(o)
      BY Zenon, <1>1, <1>2, <1>3, <2>1, <2>2 DEF Abs!ABegin
    <2> QED BY Zenon, <2>3 DEF Abs!ANext
  <1> QED BY <1>4, <1>5, Zenon

\* log_write() is AWrite at the change of the buffer.
LEMMA LogWriteRef ==
  ASSUME LogInv, NEW o \in Op, NEW b \in Block, NEW v \in Val, log_write(o, b, v)
  PROVE  [Abs!ANext]_(Abs!avars)
  <1> USE LogAssumption
  <1>1. /\ pc[o] = "run" /\ pc' = [pc EXCEPT ![o] = "append"]
        /\ cache' = [cache EXCEPT ![b] = v]
        /\ UNCHANGED <<disk, logBlk, head, committing>>
    BY Zenon DEF log_write, Goto, diskVars
  <1>2. o \in Active /\ Up
    BY <1>1, RunningFacts, Zenon
  <1>3. Durable' = Durable /\ Active' = Active /\ Up'
    BY <1>1, <1>2 DEF Durable, Logged, Active, Up, LogInv, TypeOK, Process
  <1>4. Content' = [Content EXCEPT ![b] = v]
    <2>1. v # Absent
      OBVIOUS
    <2> QED BY <1>1, <2>1, Zenon DEF Content, LogInv, TypeOK
  <1>5. Current' = [Current EXCEPT ![b] = v]
    BY Zenon, <1>2, <1>3, <1>4 DEF Current
  <1>6. Abs!AWrite(o, b, v)
    BY Zenon, <1>1, <1>2, <1>3, <1>5 DEF Abs!AWrite
  <1> QED BY Zenon, <1>6 DEF Abs!ANext

\* Recording the block in the header in memory is invisible.
LEMMA AppendRef ==
  ASSUME LogInv, NEW o \in Op, append(o) PROVE [Abs!ANext]_(Abs!avars)
  <1> USE LogAssumption
  <1>1. /\ pc[o] = "append" /\ pc' = [pc EXCEPT ![o] = "run"]
        /\ UNCHANGED <<disk, logBlk, head, cache, committing>>
    BY Zenon DEF append, Goto, diskVars
  <1>2. Durable' = Durable /\ Content' = Content /\ (Up' <=> Up) /\ Active' = Active
    BY <1>1 DEF Durable, Logged, Content, Up, Active, LogInv, TypeOK, Process
  <1>3. Current' = Current
    BY Zenon, <1>2 DEF Current
  <1> QED BY <1>1, <1>2, <1>3, StutterRef, Zenon

\* end_op() is AEnd.
LEMMA EndRef ==
  ASSUME LogInv, LogInv', NEW o \in Op, end_op(o) PROVE [Abs!ANext]_(Abs!avars)
  <1> USE LogAssumption
  <1>1. /\ pc[o] = "run" /\ outstanding' = outstanding - 1
        /\ outstanding = 1 => committing' = TRUE
        /\ outstanding # 1 => committing' = committing
        /\ UNCHANGED <<disk, logBlk, head, cache>>
    BY Zenon DEF end_op, diskVars
  <1>2. o \in Active /\ Up /\ ~committing
    BY <1>1, RunningFacts, Zenon
  <1>3. /\ pc'[o] \in {"commit", "idle"}
        /\ \A q \in Process : q # o =>
             pc'[q] = IF outstanding # 1 /\ pc[q] = "asleep" THEN "woken" ELSE pc[q]
    <2>1. CASE outstanding = 1
      BY <2>1, Zenon DEF end_op, Goto, LogInv, TypeOK, Process
    <2>2. CASE outstanding # 1
      <3>1. WakeAll(o, "idle")
        BY <2>2, Zenon DEF end_op
      <3> QED BY <2>2, <3>1, WakeAllFacts, Zenon DEF LogInv, PCs
    <2> QED BY <2>1, <2>2, Zenon
  <1>4. Active' = Active \ {o}
    BY Zenon, <1>3 DEF Active, Process
  <1>5. Up'
    BY Zenon, <1>2, <1>3 DEF Up, Process
  <1>6. Durable' = Durable /\ Content' = Content
    BY <1>1 DEF Durable, Logged, Content
  <1>7. Current' = Current
    BY Zenon, <1>2, <1>5, <1>6 DEF Current
  <1>8. committing' = (Active' = {})
    <2>1. outstanding \in Nat /\ outstanding' = Cardinality(Active')
      BY Zenon DEF LogInv, TypeOK, ControlOK
    <2>2. IsFiniteSet(Active')
      <3>1. Active' \in SUBSET Op
        BY Zenon DEF Active
      <3> QED BY Zenon, <3>1, FiniteSets
    <2>3. Active' = {} <=> outstanding = 1
      <3>1. Active' = {} <=> outstanding' = 0
        BY Zenon, <2>1, <2>2, FS_EmptySet
      <3> QED BY <1>1, <2>1, <3>1
    <2>4. committing \in BOOLEAN
      BY Zenon DEF LogInv, TypeOK
    <2> QED BY <1>1, <1>2, <2>3, <2>4, Zenon
  <1>9. Abs!AEnd(o)
    BY <1>2, <1>4, <1>6, <1>7, <1>8, Zenon DEF Abs!AEnd
  <1> QED BY <1>9, Zenon DEF Abs!ANext

\* commit() and write_log() are invisible: the header on disk is empty.
LEMMA CommitRef ==
  ASSUME LogInv, LogInv', NEW o \in Op, commit(o) \/ write_log(o)
  PROVE  [Abs!ANext]_(Abs!avars)
  <1> USE LogAssumption
  <1>1. /\ pc[o] \in {"commit", "write_log"} /\ pc'[o] \in {"commit", "write_log", "finish"}
        /\ UNCHANGED <<disk, head, committing>>
    BY Zenon DEF commit, write_log, Goto, diskVars, memVars, LogInv, TypeOK, Process
  <1>2. Up /\ Active = {} /\ head = <<>>
    BY <1>1, CommitterFacts, Zenon
  <1>3. Up' /\ Active' = {}
    <2>1. committing' = TRUE
      BY <1>1, CommitterFacts, Zenon DEF LogInv, TypeOK
    <2>2. Active' = {}
      BY <2>1, Zenon DEF LogInv, ControlOK
    <2>3. Up'
      BY <1>1, Zenon DEF LogInv, ControlOK
    <2> QED BY Zenon, <2>2, <2>3
  <1>4. Durable' = Durable
    BY <1>1, <1>2 DEF Durable, Logged
  <1>5. Content' = Content
    <2>1. CASE commit(o)
      BY <2>1, Zenon DEF commit, diskVars, memVars, Content
    <2>2. CASE write_log(o)
      <3> DEFINE t == tail[o] + 1
      <3>1. t \in 1..Len(lh) /\ cache' = [cache EXCEPT ![lh[t]] = Content[lh[t]]]
        <4>1. t <= Len(lh) /\ cache' = [cache EXCEPT ![lh[t]] = Content[lh[t]]]
          BY <2>2, Zenon DEF write_log
        <4>2. o \in Process
          BY Zenon DEF Process
        <4> QED BY <4>1, <4>2, LoopTypes
      <3>2. lh[t] \in Block
        BY Zenon, <3>1, LoopTypes
      <3> HIDE DEF t
      <3>3. Content[lh[t]] \in Val
        BY <3>2, Zenon DEF Content, LogInv, TypeOK
      <3>4. Content[lh[t]] # Absent
        BY <3>3, Zenon
      <3> QED BY <1>1, <3>1, <3>2, <3>4, Zenon DEF Content, LogInv, TypeOK
    <2> QED BY Zenon, <2>1, <2>2
  <1>6. Current' = Current
    BY <1>2, <1>3, <1>5, Zenon DEF Current
  <1> QED BY <1>1, <1>2, <1>3, <1>4, <1>6, StutterRef, Zenon

\* write_head() is ACommit: recovery would now restore the current content.
LEMMA WriteHeadRef ==
  ASSUME LogInv, NEW o \in Op, write_head(o) PROVE [Abs!ANext]_(Abs!avars)
  <1> USE LogAssumption
  <1>1. /\ pc[o] = "write_log" /\ tail[o] = Len(lh) /\ head' = lh
        /\ pc' = [pc EXCEPT ![o] = "install"]
        /\ UNCHANGED <<disk, logBlk, cache, lh, committing>>
    BY Zenon DEF write_head, Goto, memVars
  <1>2. Up /\ Active = {} /\ committing /\ \A b \in Block : ~Held(b)
    BY Zenon, <1>1, CommitterFacts
  <1>3. Up' /\ Active' = {}
    BY Zenon, <1>1, <1>2 DEF Up, Active, LogInv, TypeOK, Process
  <1>4. Content' = Content
    BY Zenon, <1>1 DEF Content
  <1>5. Durable' = Content
    <2>1. /\ Durable' = [b \in Block |-> Durable'[b]]
          /\ \A i \in DOMAIN lh : Durable'[lh[i]] = logBlk[i]
          /\ \A b \in Block : b \notin Logged(lh) => Durable'[b] = disk[b]
      <3>1. Durable' = [b \in Block |-> IF b \in Logged(lh)
                                        THEN logBlk[CHOOSE i \in DOMAIN lh : lh[i] = b]
                                        ELSE disk[b]]
        BY <1>1 DEF Durable, Logged
      <3>2. ASSUME NEW i \in DOMAIN lh PROVE Durable'[lh[i]] = logBlk[i]
        <4>1. lh[i] \in Block /\ lh[i] \in Logged(lh)
          BY DEF LogInv, TypeOK, Logged
        <4> DEFINE j == CHOOSE k \in DOMAIN lh : lh[k] = lh[i]
        <4>2. j \in DOMAIN lh /\ lh[j] = lh[i]
          BY Zenon
        <4>3. j = i
          <5> HIDE DEF j
          <5> QED BY <4>2, Zenon DEF LogInv, LoggedOK
        <4>4. Durable'[lh[i]] = logBlk[j]
          BY <3>1, <4>1, Zenon
        <4> QED BY <4>3, <4>4, Zenon
      <3> QED BY <3>1, <3>2
    <2>2. \A i \in DOMAIN lh : Content[lh[i]] = logBlk[i]
      <3>1. DOMAIN lh = 1..tail[o]
        BY Zenon, <1>1, LoopTypes
      <3> QED BY <1>1, <3>1, Zenon DEF LogInv, HeaderOK
    <2>3. \A b \in Block : b \notin Logged(lh) => Content[b] = disk[b]
      BY <1>2, CleanContent, Zenon DEF LogInv, CacheOK
    <2>4. \A b \in Block : Durable'[b] = Content[b]
      BY <2>1, <2>2, <2>3 DEF Logged
    <2>5. Content = [b \in Block |-> Content[b]]
      BY Zenon DEF Content
    <2> QED BY Zenon, <2>1, <2>4, <2>5
  <1>6. Current = Content /\ Current' = Content
    BY <1>2, <1>3, <1>4, Zenon DEF Current
  <1>7. Abs!ACommit
    BY <1>1, <1>2, <1>3, <1>5, <1>6, Zenon DEF Abs!ACommit
  <1> QED BY Zenon, <1>7 DEF Abs!ANext

\* install_trans() is invisible: the blocks it copies are in the header.
LEMMA InstallRef ==
  ASSUME LogInv, NEW p \in Process, install_trans(p) PROVE [Abs!ANext]_(Abs!avars)
  <1> DEFINE t == tail[p] + 1
  <1> USE LogAssumption
  <1>1. /\ pc[p] = "install" /\ t <= Len(lh)
        /\ cache' = [cache EXCEPT ![lh[t]] = logBlk[t]]
        /\ disk' = [disk EXCEPT ![lh[t]] = logBlk[t]]
        /\ UNCHANGED <<logBlk, head, lh, committing, pc>>
    BY Zenon DEF install_trans
  <1>2. head = lh /\ Len(lh) <= SIZE - 1 /\ (p = Boot => ~Up)
    BY <1>1, InstallerFacts, Zenon
  <1>3. t \in DOMAIN lh /\ t \in 1..SIZE-1
    BY <1>1, <1>2, LoopTypes, Sizes
  <1>4. lh[t] \in Block /\ lh[t] \in Logged(head) /\ logBlk[t] # Absent
    <2> HIDE DEF t
    <2>1. lh[t] \in Block /\ logBlk[t] \in Val
      BY Zenon, <1>3, LoopTypes
    <2> QED BY <1>2, <1>3, <2>1, Zenon DEF Logged
  <1> HIDE DEF t
  <1>5. \A b \in Block : b # lh[t] => disk'[b] = disk[b] /\ cache'[b] = cache[b]
    BY <1>1, <1>4, Zenon DEF LogInv, TypeOK
  <1>6. Durable' = Durable
    <2>1. \A b \in Block : b \notin Logged(head) => disk'[b] = disk[b]
      BY <1>4, <1>5, Zenon
    <2> QED BY <1>1, <2>1 DEF Durable, Logged
  <1>7. Up => Content' = Content
    <2> SUFFICES ASSUME Up PROVE Content' = Content OBVIOUS
    <2>1. Content[lh[t]] = logBlk[t]
      BY <1>1, <1>2, <1>3, Zenon DEF LogInv, HeaderOK
    <2>2. \A b \in Block : Content'[b] = Content[b]
      <3> TAKE b \in Block
      <3>1. CASE b = lh[t]
        <4>1. cache'[b] = logBlk[t]
          BY <1>1, <1>4, <3>1, Zenon DEF LogInv, TypeOK
        <4> QED BY <1>4, <2>1, <3>1, <4>1, Zenon DEF Content
      <3>2. CASE b # lh[t]
        BY <1>5, <3>2, Zenon DEF Content
      <3> QED BY <3>1, <3>2, Zenon
    <2> QED BY <2>2, Zenon DEF Content
  <1>8. Current' = Current /\ Active' = Active
    BY <1>1, <1>6, <1>7, Zenon DEF Current, Up, Active
  <1> QED BY <1>1, <1>6, <1>8, StutterRef, Zenon

\* Erasing the header is invisible: every block is at home.
LEMMA ClearRef ==
  ASSUME LogInv, LogInv', NEW p \in Process, clear_head(p) PROVE [Abs!ANext]_(Abs!avars)
  <1> USE LogAssumption
  <1>1. /\ pc[p] = "install" /\ tail[p] = Len(lh) /\ head' = <<>>
        /\ pc' = [pc EXCEPT ![p] = IF p = Boot THEN "idle" ELSE "finish"]
        /\ UNCHANGED <<disk, logBlk, cache, committing>>
    BY Zenon DEF clear_head, Goto
  <1>2. /\ head = lh /\ Active = {} /\ (p # Boot => Up) /\ (p = Boot => ~Up)
        /\ \A b \in Block : ~Held(b)
    BY <1>1, InstallerFacts, Zenon
  <1>3. Durable = disk
    <2>1. /\ Durable = [b \in Block |-> Durable[b]]
          /\ \A i \in DOMAIN head : Durable[head[i]] = logBlk[i]
          /\ \A b \in Block : b \notin Logged(head) => Durable[b] = disk[b]
      BY DurableFacts, Zenon
    <2>2. DOMAIN lh = 1..tail[p]
      BY Zenon, <1>1, LoopTypes
    <2>3. \A i \in DOMAIN lh : disk[lh[i]] = logBlk[i]
      BY <1>1, <2>2 DEF LogInv, HeaderOK
    <2>4. \A b \in Block : Durable[b] = disk[b]
      BY <1>2, <2>1, <2>3 DEF Logged
    <2>5. disk = [b \in Block |-> disk[b]]
      BY Zenon DEF LogInv, TypeOK
    <2> QED BY <2>1, <2>4, <2>5, Zenon
  <1>4. Durable' = disk
    <2>1. disk = [b \in Block |-> disk[b]]
      BY Zenon DEF LogInv, TypeOK
    <2> QED BY <1>1, <2>1 DEF Durable, Logged
  <1>5. Content' = Content
    BY <1>1, Zenon DEF Content
  <1>6. Up' /\ Active' = Active
    BY <1>1, <1>2, Zenon DEF Up, Active, LogInv, TypeOK, Process
  <1>7. Current' = Current
    <2>1. CASE p # Boot
      BY Zenon, <1>2, <1>5, <1>6, <2>1 DEF Current
    <2>2. CASE p = Boot
      <3>1. \A b \in Block : Content[b] = disk[b]
        BY <1>1, <1>2, InstalledClean, CleanContent, Zenon
      <3>2. Content = disk
        BY <3>1, Zenon DEF Content, LogInv, TypeOK
      <3> QED BY <1>2, <1>3, <1>5, <1>6, <2>2, <3>2, Zenon DEF Current
    <2> QED BY Zenon, <2>1, <2>2
  <1> QED BY <1>1, <1>3, <1>4, <1>6, <1>7, StutterRef, Zenon

\* The return from end_op() after a commit is AReturn: all is durable.
LEMMA FinishRef ==
  ASSUME LogInv, LogInv', NEW o \in Op, finish(o) PROVE [Abs!ANext]_(Abs!avars)
  <1> USE LogAssumption
  <1>1. /\ pc[o] = "finish" /\ committing' = FALSE /\ WakeAll(o, "idle")
        /\ UNCHANGED <<disk, logBlk, head, cache>>
    BY Zenon DEF finish, diskVars
  <1>2. /\ Up /\ committing /\ Active = {} /\ head = <<>> /\ pc[Boot] = "idle"
        /\ \A q \in Process : q # o => pc[q] \in {"idle", "asleep", "woken"}
        /\ \A b \in Block : ~Held(b)
    BY <1>1, CommitterFacts, Zenon
  <1>3. /\ pc'[o] = "idle"
        /\ \A q \in Process : q # o =>
             pc'[q] = IF pc[q] = "asleep" THEN "woken" ELSE pc[q]
    BY <1>1, WakeAllFacts, Zenon DEF LogInv, PCs
  <1>4. Active' = {} /\ Up'
    BY <1>2, <1>3, Zenon DEF Active, Up, Process
  <1>5. Durable' = Durable /\ Content' = Content
    BY <1>1 DEF Durable, Logged, Content
  <1>6. Current' = Content /\ Current = Content
    BY <1>2, <1>4, <1>5, Zenon DEF Current
  <1>7. Content = Durable
    <2>1. Durable = disk
      BY Zenon, <1>2, DurableFacts
    <2>2. dirty = {}
      <3>1. lh = <<>>
        BY <1>1, Zenon DEF LogInv, LoggedOK
      <3>2. Logged(lh) = {}
        BY <3>1 DEF Logged
      <3> QED BY <3>2, Zenon DEF LogInv, CacheOK
    <2>3. \A b \in Block : Content[b] = disk[b]
      BY Zenon, <1>2, <2>2, CleanContent
    <2> QED BY <2>1, <2>3, Zenon DEF Content, LogInv, TypeOK
  <1>8. Abs!AReturn
    BY <1>1, <1>2, <1>4, <1>5, <1>6, <1>7, Zenon DEF Abs!AReturn
  <1> QED BY <1>8, Zenon DEF Abs!ANext

\* Reading the header in recovery is invisible; a crash is ACrash.
LEMMA ReadHeadRef ==
  ASSUME LogInv, read_head PROVE [Abs!ANext]_(Abs!avars)
  <1>1. /\ pc[Boot] = "read_head" /\ pc' = [pc EXCEPT ![Boot] = "install"]
        /\ UNCHANGED <<disk, logBlk, head, committing>>
    BY Zenon DEF read_head, Goto, diskVars
  <1>2. ~Up /\ ~Up' /\ Active' = Active
    BY <1>1, LogAssumption, Zenon DEF Up, Active, LogInv, TypeOK, Process
  <1>3. Durable' = Durable
    BY <1>1 DEF Durable, Logged
  <1>4. Current' = Current
    BY Zenon, <1>2, <1>3 DEF Current
  <1> QED BY <1>1, <1>2, <1>3, <1>4, StutterRef, Zenon

LEMMA CrashRef ==
  ASSUME LogInv, Crash PROVE [Abs!ANext]_(Abs!avars)
  <1>1. /\ pc' = [p \in Process |-> IF p = Boot THEN "read_head" ELSE "idle"]
        /\ committing' = FALSE /\ UNCHANGED <<disk, logBlk, head>>
    BY Zenon DEF Crash, diskVars
  <1>2. ~Up' /\ Active' = {}
    BY Zenon, <1>1, LogAssumption DEF Up, Active, Process
  <1>3. Durable' = Durable
    BY <1>1 DEF Durable, Logged
  <1>4. Current' = Durable
    BY Zenon, <1>2, <1>3 DEF Current
  <1>5. Abs!ACrash
    BY Zenon, <1>1, <1>2, <1>3, <1>4 DEF Abs!ACrash
  <1> QED BY Zenon, <1>5 DEF Abs!ANext

\* Every step of Log is a step of AtomicLog or invisible.
LEMMA NextRef ==
  ASSUME LogInv, LogInv', [Next]_vars PROVE [Abs!ANext]_(Abs!avars)
  <1>1. ASSUME NEW o \in Op, begin_op(o) \/ append(o) \/ end_op(o)
        PROVE  [Abs!ANext]_(Abs!avars)
    BY Zenon, <1>1, BeginRef, AppendRef, EndRef
  <1>2. ASSUME NEW o \in Op, CommitStep(o) PROVE [Abs!ANext]_(Abs!avars)
    <2>1. o \in Process
      BY Zenon DEF Process
    <2> QED BY Zenon, <1>2, <2>1, CommitRef, WriteHeadRef, InstallRef, ClearRef, FinishRef
            DEF CommitStep
  <1>3. ASSUME NEW o \in Op, NEW b \in Block, NEW v \in Val, log_write(o, b, v)
        PROVE  [Abs!ANext]_(Abs!avars)
    BY Zenon, <1>3, LogWriteRef
  <1>4. ASSUME NEW b \in Block, Read(b) \/ Recycle(b) PROVE [Abs!ANext]_(Abs!avars)
    BY Zenon, <1>4, CacheRef
  <1>5. CASE Recover
    <2>1. Boot \in Process
      BY Zenon DEF Process
    <2> QED BY Zenon, <1>5, <2>1, ReadHeadRef, InstallRef, ClearRef DEF Recover
  <1>6. CASE Crash
    BY Zenon, <1>6, CrashRef
  <1>7. CASE UNCHANGED vars
    <2>1. UNCHANGED <<disk, logBlk, head, cache, committing, pc>>
      BY Zenon, <1>7 DEF vars, diskVars, memVars
    <2>2. Durable' = Durable /\ Content' = Content /\ Active' = Active
      BY <2>1 DEF Durable, Logged, Content, Active
    <2>3. Current' = Current
      BY Zenon, <2>1, <2>2 DEF Current, Up
    <2> QED BY Zenon, <2>1, <2>2, <2>3, StutterRef
  <1> QED BY <1>1, <1>2, <1>3, <1>4, <1>5, <1>6, <1>7, Zenon DEF Next

\* log.c implements AtomicLog: what calls write becomes durable all at once,
\* a crash at any point (also in a commit or in recovery) goes back to the last
\* commit, and when the last end_op() of a group returns all is durable.
THEOREM Refinement == Spec => TransactionsAtomic
  <1>1. Init => Abs!AInit
    BY Zenon, InitRef
  <1>2. LogInv /\ LogInv' /\ [Next]_vars => [Abs!ANext]_(Abs!avars)
    BY Zenon, NextRef
  <1> QED BY <1>1, <1>2, LogInvariant, PTL DEF Spec, TransactionsAtomic, Abs!ASpec
=============================================================================
