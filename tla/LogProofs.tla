------------------------------ MODULE LogProofs ------------------------------
(***************************************************************************)
(* Proofs about the log: LogInv is an inductive invariant of Log, the log   *)
(* never overflows and no call sleeps in begin_op() without a waker, for    *)
(* every number of processes, blocks and contents and every log size that   *)
(* satisfies LogAssumption.                                                 *)
(***************************************************************************)
EXTENDS LogLemmas

\* While a call commits, no other call runs or commits.
LEMMA CommitterFacts ==
  ASSUME LogInv, NEW o \in Op, pc[o] \in {"commit", "write_log", "install", "finish"}
  PROVE  /\ Up /\ pc[Boot] = "idle" /\ committing /\ Committers = {o} /\ Active = {}
         /\ \A q \in Process : q # o => pc[q] \in {"idle", "asleep", "woken"}
         /\ \A q \in Op : buf[q] = Absent /\ wrote[q] = {}
         /\ \A b \in Block : ~Held(b)
         /\ pc[o] # "install" => head = <<>>
  <1> USE LogAssumption DEF LogInv
  <1>1. Up /\ pc[Boot] = "idle"
    BY Zenon DEF ControlOK, Up
  <1>2. Committers = {o} /\ committing
    BY Zenon DEF ControlOK, Committers
  <1>3. Active = {}
    BY Zenon, <1>2 DEF ControlOK
  <1>4. \A q \in Process : q # o => pc[q] \in {"idle", "asleep", "woken"}
    BY <1>1, <1>2, <1>3 DEF ControlOK, Committers, Active, TypeOK, PCs, Process
  <1>5. \A q \in Op : pc[q] \notin {"run", "append"}
    BY Zenon, <1>3 DEF Active
  <1>6. \A q \in Op : buf[q] = Absent /\ wrote[q] = {}
    BY Zenon, <1>5 DEF ControlOK
  <1>7. \A b \in Block : ~Held(b)
    BY Zenon, <1>6 DEF Held
  <1>8. pc[o] # "install" => head = <<>>
    BY <1>1, <1>4, Zenon DEF HeaderOK, Process
  <1> QED BY Zenon, <1>1, <1>2, <1>3, <1>4, <1>6, <1>7, <1>8

\* The steps of a commit that move only the committer, from one place in
\* commit() to another, keep what the invariant says of control.
LEMMA CommitterMoves ==
  ASSUME LogInv, NEW o \in Op, NEW l \in {"commit", "write_log", "install", "finish"},
         pc[o] \in {"commit", "write_log", "install", "finish"},
         pc' = [pc EXCEPT ![o] = l],
         UNCHANGED <<outstanding, committing, buf, wrote>>
  PROVE  /\ ControlOK' /\ Active' = {} /\ pc'[o] = l /\ pc' \in [Process -> PCs]
         /\ \A q \in Process : q # o => pc'[q] = pc[q]
         /\ Up' /\ pc'[Boot] = pc[Boot]
  <1> USE LogAssumption DEF LogInv
  <1>1. /\ Up /\ pc[Boot] = "idle" /\ committing /\ Committers = {o} /\ Active = {}
        /\ \A q \in Process : q # o => pc[q] \in {"idle", "asleep", "woken"}
        /\ \A q \in Op : buf[q] = Absent /\ wrote[q] = {}
    BY Zenon, CommitterFacts
  <1>2. /\ pc' \in [Process -> PCs] /\ pc'[o] = l
        /\ \A q \in Process : q # o => pc'[q] = pc[q]
    BY Zenon DEF TypeOK, Process, PCs
  <1>3. pc'[Boot] = pc[Boot] /\ Up'
    BY <1>1, <1>2, Zenon DEF Process, Up
  <1>4. Active' = {} /\ Committers' = {o}
    BY Zenon, <1>1, <1>2 DEF Active, Committers, Process
  <1>5. ControlOK'
    BY Zenon, <1>1, <1>2, <1>3, <1>4 DEF ControlOK, Up, Process
  <1> QED BY Zenon, <1>2, <1>3, <1>4, <1>5

\* commit() looking at log.lh.n.
LEMMA CommitInv ==
  ASSUME LogInv, NEW o \in Op, commit(o) PROVE LogInv'
  <1> DEFINE l == IF Len(lh) > 0 THEN "write_log" ELSE "finish"
  <1> USE LogAssumption DEF LogInv
  <1>1. /\ pc' = [pc EXCEPT ![o] = l] /\ pc[o] = "commit"
        /\ UNCHANGED <<disk, logBlk, head, cache, dirty, lh, outstanding,
                       committing, tail, buf, wrote, panicked>>
    BY Zenon DEF commit, Goto, diskVars, memVars
  <1>2. /\ Up /\ pc[Boot] = "idle" /\ committing /\ head = <<>>
        /\ \A q \in Process : q # o => pc[q] \in {"idle", "asleep", "woken"}
    BY <1>1, CommitterFacts, Zenon
  <1>3. /\ ControlOK' /\ Active' = {} /\ pc'[o] = l /\ pc' \in [Process -> PCs]
        /\ \A q \in Process : q # o => pc'[q] = pc[q]
        /\ Up' /\ pc'[Boot] = pc[Boot]
    <2>1. l \in {"commit", "write_log", "install", "finish"}
      OBVIOUS
    <2> HIDE DEF l
    <2> QED BY <1>1, <2>1, CommitterMoves, Zenon
  <1>4. TypeOK'
    BY <1>1, <1>3, Zenon DEF TypeOK
  <1>5. l = "finish" => lh = <<>>
    BY DEF TypeOK
  <1>6. LoggedOK'
    BY <1>1, <1>2, <1>3, <1>5 DEF LoggedOK, Logged, Up, Process
  <1>7. CacheOK'
    BY <1>1, <1>3 DEF CacheOK, Held, Logged
  <1>8. HeaderOK'
    <2>1. Content' = Content
      BY <1>1, Zenon DEF Content
    <2>2. tail[o] = 0 /\ o \in Process /\ Len(lh) \in Nat
      BY <1>1 DEF HeaderOK, Process, TypeOK
    <2>3. \A p \in Process : pc'[p] # "install"
      BY Zenon, <1>2, <1>3
    <2> QED BY <1>1, <1>2, <1>3, <2>1, <2>2, <2>3 DEF HeaderOK, Process
  <1>9. ReservationOK'
    BY <1>1, <1>3, Zenon DEF ReservationOK
  <1> QED BY <1>1, <1>3, <1>4, <1>6, <1>7, <1>8, <1>9, Zenon

\* write_log() copies one block to the log; the content of no block changes.
LEMMA WriteLogInv ==
  ASSUME LogInv, NEW o \in Op, write_log(o) PROVE LogInv'
  <1> DEFINE t == tail[o] + 1
  <1> USE LogAssumption DEF LogInv
  <1>1. /\ pc[o] = "write_log" /\ t <= Len(lh)
        /\ logBlk' = [logBlk EXCEPT ![t] = Content[lh[t]]]
        /\ cache' = [cache EXCEPT ![lh[t]] = Content[lh[t]]]
        /\ tail' = [tail EXCEPT ![o] = t]
        /\ UNCHANGED <<disk, head, dirty, lh, outstanding, committing, pc, buf,
                       wrote, panicked>>
    BY Zenon DEF write_log
  <1>2. /\ Up /\ pc[Boot] = "idle" /\ committing /\ Active = {} /\ head = <<>>
        /\ \A q \in Process : q # o => pc[q] \in {"idle", "asleep", "woken"}
        /\ \A b \in Block : ~Held(b)
    BY <1>1, CommitterFacts, Zenon
  <1>3. /\ t \in 1..Len(lh) /\ t \in 1..SIZE-1 /\ lh[t] \in Block /\ o \in Process
        /\ tail[o] \in Nat /\ Len(lh) \in Nat
    <2>1. o \in Process
      BY Zenon DEF Process
    <2> QED BY <1>1, <2>1, LoopTypes, Sizes
  <1>4. Content \in [Block -> Val]
    BY Zenon DEF Content, TypeOK
  <1> HIDE DEF t
  <1>5. Content' = Content
    <2>1. Content[lh[t]] # Absent
      BY Zenon, <1>3, <1>4
    <2> QED BY <1>1, <1>3, <2>1, Zenon DEF Content, TypeOK
  <1>6. TypeOK'
    <2>1. logBlk' \in [1..SIZE-1 -> Val] /\ cache' \in [Block -> Val \cup {Absent}]
      BY <1>1, <1>3, <1>4, Zenon DEF TypeOK
    <2>2. tail' \in [Process -> Nat]
      BY <1>1, <1>3 DEF TypeOK
    <2> QED BY <1>1, <2>1, <2>2, Zenon DEF TypeOK
  <1>7. ControlOK'
    BY <1>1, ControlFrame, Zenon
  <1>8. LoggedOK'
    BY Zenon, <1>1 DEF LoggedOK, Active, Up, Logged
  <1>9. CacheOK'
    <2>1. cache'[lh[t]] = Content[lh[t]] /\ Content[lh[t]] # Absent
      <3>1. Content[lh[t]] # Absent
        BY Zenon, <1>3, <1>4
      <3>2. cache'[lh[t]] = Content[lh[t]]
        BY <1>1, <1>3, Zenon DEF TypeOK
      <3> QED BY <3>1, <3>2, Zenon
    <2>2. \A b \in Block : b # lh[t] => cache'[b] = cache[b]
      BY <1>1, <1>3, Zenon DEF TypeOK
    <2>3. lh[t] \notin dirty => Content[lh[t]] = disk[lh[t]]
      BY <1>2, <1>3, Zenon DEF CacheOK, Content
    <2> QED BY <1>1, <1>2, <1>3, <2>1, <2>2, <2>3 DEF CacheOK, Held, Logged, Up
  <1>10. HeaderOK'
    <2>1. tail'[o] = t /\ \A p \in Process : p # o => tail'[p] = tail[p]
      BY <1>1, <1>3, Zenon DEF TypeOK
    <2>2. \A i \in 1..t : Content[lh[i]] = logBlk'[i]
      <3>1. logBlk'[t] = Content[lh[t]]
        BY <1>1, <1>3, Zenon DEF TypeOK
      <3>2. \A i \in 1..tail[o] : i # t /\ i \in 1..SIZE-1 /\ logBlk'[i] = logBlk[i]
        BY <1>1, <1>3 DEF TypeOK, t
      <3>3. \A i \in 1..tail[o] : Content[lh[i]] = logBlk[i]
        BY <1>1, Zenon DEF HeaderOK
      <3>4. \A i \in 1..t : i = t \/ i \in 1..tail[o]
        BY <1>3 DEF t
      <3> QED BY Zenon, <3>1, <3>2, <3>3, <3>4
    <2>3. \A p \in Process : pc[p] # "install"
      BY <1>1, <1>2, Zenon
    <2>4. \A q \in Op : pc[q] = "write_log" => q = o
      BY <1>2, Zenon DEF Process
    <2>5. head' = <<>> /\ (\A i, j \in DOMAIN head' : head'[i] = head'[j] => i = j)
          /\ Len(head') <= SIZE - 1
      BY <1>1, <1>2, Zenon DEF HeaderOK
    <2>6. \A q \in Op : pc'[q] = "write_log" =>
            /\ tail'[q] <= Len(lh')
            /\ \A i \in 1..tail'[q] : (Content[lh[i]] = logBlk[i])'
      BY <1>1, <1>5, <2>1, <2>2, <2>4, Zenon
    <2>7. \A p \in Process : pc'[p] \notin {"write_log", "install"} => tail'[p] = 0
      BY <1>1, <2>1, Zenon DEF HeaderOK
    <2>8. \A p \in Process : pc'[p] # "install"
      BY <1>1, <2>3, Zenon
    <2> QED BY <2>5, <2>6, <2>7, <2>8, Zenon DEF HeaderOK
  <1>11. ReservationOK'
    BY <1>1, <1>2, Zenon DEF ReservationOK, Active
  <1> QED BY Zenon, <1>1, <1>6, <1>7, <1>8, <1>9, <1>10, <1>11

\* write_head(), the commit point.
LEMMA WriteHeadInv ==
  ASSUME LogInv, NEW o \in Op, write_head(o) PROVE LogInv'
  <1> USE LogAssumption DEF LogInv
  <1>1. /\ pc' = [pc EXCEPT ![o] = "install"] /\ pc[o] = "write_log"
        /\ tail[o] = Len(lh) /\ head' = lh /\ tail' = [tail EXCEPT ![o] = 0]
        /\ UNCHANGED <<disk, logBlk, cache, dirty, lh, outstanding, committing,
                       buf, wrote, panicked>>
    BY Zenon DEF write_head, Goto, memVars
  <1>2. /\ Up /\ pc[Boot] = "idle" /\ committing
        /\ \A q \in Process : q # o => pc[q] \in {"idle", "asleep", "woken"}
    BY <1>1, CommitterFacts, Zenon
  <1>3. /\ ControlOK' /\ Active' = {} /\ pc'[o] = "install"
        /\ pc' \in [Process -> PCs] /\ \A q \in Process : q # o => pc'[q] = pc[q]
        /\ Up' /\ pc'[Boot] = pc[Boot]
    BY <1>1, CommitterMoves, Zenon
  <1>4. TypeOK'
    <2>1. tail' \in [Process -> Nat]
      BY <1>1, Zenon DEF TypeOK
    <2> QED BY <1>1, <1>3, <2>1, Zenon DEF TypeOK
  <1>5. LoggedOK'
    BY <1>1, <1>2, <1>3 DEF LoggedOK, Logged, Up, Process
  <1>6. CacheOK'
    BY <1>1, <1>3 DEF CacheOK, Held, Logged
  <1>7. HeaderOK'
    <2>1. Content' = Content
      BY <1>1, Zenon DEF Content
    <2>2. tail'[o] = 0 /\ o \in Process /\ \A p \in Process : p # o => tail'[p] = tail[p]
      BY <1>1, Zenon DEF TypeOK, Process
    <2>3. \A i \in DOMAIN lh : Content[lh[i]] = logBlk[i]
      <3>1. DOMAIN lh = 1..tail[o]
        BY <1>1 DEF TypeOK
      <3> QED BY Zenon, <1>1, <3>1 DEF HeaderOK
    <2>4. Len(lh) <= SIZE - 1 /\ Len(lh) \in Nat
      BY DEF ReservationOK, TypeOK
    <2>5. \A i, j \in DOMAIN lh : lh[i] = lh[j] => i = j
      BY Zenon DEF LoggedOK
    <2> QED BY <1>1, <1>2, <1>3, <2>1, <2>2, <2>3, <2>4, <2>5 DEF HeaderOK, Process
  <1>8. ReservationOK'
    BY <1>1, <1>3, Zenon DEF ReservationOK
  <1> QED BY Zenon, <1>1, <1>3, <1>4, <1>5, <1>6, <1>7, <1>8

\* While recovery runs, no call does and no buffer is locked or pinned.
LEMMA RecoveryFacts ==
  ASSUME LogInv, ~Up
  PROVE  /\ \A q \in Op : pc[q] = "idle" /\ buf[q] = Absent /\ wrote[q] = {}
         /\ \A b \in Block : ~Held(b)
         /\ Active = {} /\ Committers = {} /\ committing = FALSE /\ dirty = {}
         /\ outstanding = 0
  <1> USE LogAssumption DEF LogInv
  <1>1. \A q \in Op : pc[q] = "idle"
    BY Zenon DEF ControlOK
  <1>2. \A q \in Op : buf[q] = Absent /\ wrote[q] = {}
    BY Zenon, <1>1 DEF ControlOK
  <1>3. Active = {} /\ Committers = {}
    BY Zenon, <1>1 DEF Active, Committers
  <1>4. committing = FALSE
    BY <1>3, Zenon DEF ControlOK, TypeOK
  <1>5. outstanding = 0
    BY Zenon, <1>3, FS_EmptySet DEF ControlOK
  <1> QED BY Zenon, <1>1, <1>2, <1>3, <1>4, <1>5 DEF CacheOK, Held

\* Whoever installs does so alone, and the log is what the header says.
LEMMA InstallerFacts ==
  ASSUME LogInv, NEW p \in Process, pc[p] = "install"
  PROVE  /\ \A q \in Process : q # p => pc[q] \in {"idle", "asleep", "woken"}
         /\ \A q \in Op : buf[q] = Absent /\ wrote[q] = {}
         /\ \A b \in Block : ~Held(b)
         /\ Active = {} /\ head = lh /\ Len(lh) <= SIZE - 1
         /\ p # Boot => Up /\ committing
         /\ p = Boot => ~Up /\ committing = FALSE
  <1> USE LogAssumption DEF LogInv
  <1>1. head = lh /\ Len(lh) <= SIZE - 1
    BY Zenon DEF HeaderOK, ReservationOK
  <1>2. CASE p = Boot
    <2>1. ~Up
      BY Zenon, <1>2 DEF Up
    <2> QED BY <1>1, <1>2, <2>1, RecoveryFacts, Zenon DEF Process
  <1>3. CASE p # Boot
    <2>1. p \in Op
      BY Zenon, <1>3 DEF Process
    <2> QED BY Zenon, <1>1, <1>3, <2>1, CommitterFacts
  <1> QED BY <1>2, <1>3, Zenon

\* install_trans() copies one block home, in a commit or in recovery.
LEMMA InstallInv ==
  ASSUME LogInv, NEW p \in Process, install_trans(p) PROVE LogInv'
  <1> DEFINE t == tail[p] + 1
  <1> USE LogAssumption DEF LogInv
  <1>1. /\ pc[p] = "install" /\ t <= Len(lh)
        /\ cache' = [cache EXCEPT ![lh[t]] = logBlk[t]]
        /\ disk' = [disk EXCEPT ![lh[t]] = logBlk[t]]
        /\ dirty' = dirty \ {lh[t]}
        /\ tail' = [tail EXCEPT ![p] = t]
        /\ UNCHANGED <<logBlk, head, lh, outstanding, committing, pc, buf, wrote,
                       panicked>>
    BY Zenon DEF install_trans
  <1>2. /\ \A q \in Process : q # p => pc[q] \in {"idle", "asleep", "woken"}
        /\ \A b \in Block : ~Held(b)
        /\ Active = {} /\ head = lh /\ Len(lh) <= SIZE - 1
    BY <1>1, InstallerFacts, Zenon
  <1>3. tail[p] \in Nat /\ Len(lh) \in Nat /\ DOMAIN lh = 1..Len(lh)
    BY Zenon, LoopTypes
  <1>4. /\ t \in 1..Len(lh) /\ t \in 1..SIZE-1 /\ lh[t] \in Block
        /\ logBlk[t] \in Val /\ logBlk[t] # Absent
        /\ \A i \in 1..t : i = t \/ i \in 1..tail[p]
    <2>1. t \in 1..Len(lh) /\ t \in 1..SIZE-1
      BY <1>1, <1>2, <1>3, Sizes
    <2>2. lh[t] \in Block /\ logBlk[t] \in Val
      <3> HIDE DEF t
      <3> QED BY Zenon, <1>3, <2>1, LoopTypes
    <2>3. \A i \in 1..t : i = t \/ i \in 1..tail[p]
      BY <1>3
    <2> QED BY <2>1, <2>2, <2>3, Zenon
  <1>5. \A i, j \in DOMAIN lh : lh[i] = lh[j] => i = j
    BY Zenon DEF LoggedOK
  <1> HIDE DEF t
  <1>6. /\ cache'[lh[t]] = logBlk[t] /\ disk'[lh[t]] = logBlk[t]
        /\ \A b \in Block : b # lh[t] => cache'[b] = cache[b] /\ disk'[b] = disk[b]
    BY <1>1, <1>4, Zenon DEF TypeOK
  <1>7. TypeOK'
    <2>1. disk' \in [Block -> Val] /\ cache' \in [Block -> Val \cup {Absent}]
      BY <1>1, <1>4, Zenon DEF TypeOK
    <2>2. tail' \in [Process -> Nat]
      BY <1>1, <1>4 DEF TypeOK
    <2> QED BY <1>1, <2>1, <2>2, Zenon DEF TypeOK
  <1>8. ControlOK'
    BY <1>1, ControlFrame, Zenon
  <1>9. LoggedOK'
    BY Zenon, <1>1 DEF LoggedOK, Active, Up, Logged
  <1>10. CacheOK'
    <2>1. \A b \in Block : ~Held(b)'
      BY <1>1, <1>2, Zenon DEF Held
    <2> QED BY <1>1, <1>2, <1>4, <1>6, <2>1 DEF CacheOK, Logged, Up, TypeOK
  <1>11. HeaderOK'
    <2>1. tail'[p] = t /\ \A q \in Process : q # p => tail'[q] = tail[q]
      BY <1>1, <1>4, Zenon DEF TypeOK
    <2>2. \A i \in 1..t : lh[i] \notin dirty' /\ disk'[lh[i]] = logBlk[i]
      <3> TAKE i \in 1..t
      <3>1. i \in DOMAIN lh /\ lh[i] \in Block
        BY <1>3, <1>4 DEF TypeOK
      <3>2. CASE i = t
        BY <1>1, <1>6, <3>2, Zenon
      <3>3. CASE i # t
        <4>1. i \in 1..tail[p] /\ lh[i] # lh[t]
          BY <1>3, <1>4, <1>5, <3>1, <3>3, Zenon
        <4>2. lh[i] \notin dirty /\ disk[lh[i]] = logBlk[i]
          BY <1>1, <4>1, Zenon DEF HeaderOK
        <4> QED BY <1>1, <1>6, <3>1, <4>1, <4>2, Zenon
      <3> QED BY <3>2, <3>3, Zenon
    <2>3. p # Boot => \A i \in DOMAIN lh : Content'[lh[i]] = logBlk[i]
      <3> SUFFICES ASSUME p # Boot, NEW i \in DOMAIN lh
                   PROVE  Content'[lh[i]] = logBlk[i]
        BY Zenon
      <3>1. lh[i] \in Block /\ t \in DOMAIN lh
        BY <1>3, <1>4 DEF TypeOK
      <3>2. Content[lh[i]] = logBlk[i]
        BY <1>1, Zenon DEF HeaderOK
      <3>3. CASE i = t
        BY <1>4, <1>6, <3>1, <3>3, Zenon DEF Content
      <3>4. CASE i # t
        <4>1. lh[i] # lh[t]
          BY <1>5, <3>1, <3>4, Zenon
        <4> QED BY <1>6, <3>1, <3>2, <4>1, Zenon DEF Content
      <3> QED BY <3>3, <3>4, Zenon
    <2>4. t <= Len(lh)
      BY <1>4
    <2>5. \A q \in Process : q # p => pc[q] \notin {"install", "write_log"}
      BY Zenon, <1>2
    <2> QED BY <1>1, <2>1, <2>2, <2>3, <2>4, <2>5 DEF HeaderOK, Process
  <1>12. ReservationOK'
    BY <1>1, <1>2, Zenon DEF ReservationOK, Active
  <1> QED BY <1>1, <1>7, <1>8, <1>9, <1>10, <1>11, <1>12, Zenon

\* Once all blocks are at home, no buffer is pinned.
LEMMA InstalledClean ==
  ASSUME LogInv, NEW p \in Process, pc[p] = "install", tail[p] = Len(lh)
  PROVE  dirty = {}
  <1>1. DOMAIN lh = 1..tail[p]
    BY DEF LogInv, TypeOK
  <1>2. \A i \in DOMAIN lh : lh[i] \notin dirty
    BY Zenon, <1>1 DEF LogInv, HeaderOK
  <1> QED BY Zenon, <1>2 DEF LogInv, CacheOK, Logged

\* The transaction is erased: at the end of commit() ...
LEMMA ClearInv ==
  ASSUME LogInv, NEW o \in Op, clear_head(o) PROVE LogInv'
  <1> USE LogAssumption DEF LogInv
  <1>1. /\ pc' = [pc EXCEPT ![o] = "finish"] /\ pc[o] = "install"
        /\ tail[o] = Len(lh) /\ lh' = <<>> /\ head' = <<>>
        /\ tail' = [tail EXCEPT ![o] = 0]
        /\ UNCHANGED <<disk, logBlk, cache, dirty, outstanding, committing, buf,
                       wrote, panicked>>
    BY Zenon DEF clear_head, Goto
  <1>2. /\ Up /\ pc[Boot] = "idle" /\ committing
        /\ \A q \in Process : q # o => pc[q] \in {"idle", "asleep", "woken"}
        /\ \A q \in Op : wrote[q] = {}
    BY Zenon, <1>1, CommitterFacts
  <1>3. /\ ControlOK' /\ Active' = {} /\ pc'[o] = "finish"
        /\ pc' \in [Process -> PCs] /\ \A q \in Process : q # o => pc'[q] = pc[q]
        /\ Up' /\ pc'[Boot] = pc[Boot]
    BY <1>1, CommitterMoves, Zenon
  <1>4. dirty = {}
    BY Zenon, <1>1, InstalledClean DEF Process
  <1>5. TypeOK'
    <2>1. tail' \in [Process -> Nat]
      BY <1>1, Zenon DEF TypeOK
    <2>2. lh' \in Seq(Block) /\ head' \in Seq(Block)
      BY <1>1
    <2> QED BY <1>1, <1>3, <2>1, <2>2, Zenon DEF TypeOK
  <1>6. LoggedOK'
    BY <1>1, <1>2, <1>3 DEF LoggedOK, Logged, Up, Process
  <1>7. CacheOK'
    BY <1>1, <1>3, <1>4, Zenon DEF CacheOK, Held, Logged
  <1>8. HeaderOK'
    <2>1. tail'[o] = 0 /\ o \in Process /\ \A p \in Process : p # o => tail'[p] = tail[p]
      BY Zenon, <1>1 DEF TypeOK, Process
    <2>2. \A p \in Process : pc'[p] \notin {"install", "write_log"}
      BY Zenon, <1>2, <1>3
    <2>3. Len(head') = 0 /\ DOMAIN head' = {} /\ 0 <= SIZE - 1
      BY <1>1 DEF ReservationOK, TypeOK
    <2>4. \A p \in Process : pc'[p] \notin {"write_log", "install"} => tail'[p] = 0
      BY <1>2, <2>1, Zenon DEF HeaderOK
    <2>5. \A q \in Op : pc'[q] # "write_log"
      BY <2>2, Zenon DEF Process
    <2>6. head' = <<>>
      BY <1>1, Zenon
    <2> QED BY <2>2, <2>3, <2>4, <2>5, <2>6, Zenon DEF HeaderOK
  <1>9. ReservationOK'
    <2>1. Len(lh') <= SIZE - 1
      BY <1>1 DEF ReservationOK, TypeOK
    <2> QED BY <1>1, <1>3, <2>1, Zenon DEF ReservationOK
  <1> QED BY Zenon, <1>1, <1>3, <1>5, <1>6, <1>7, <1>8, <1>9

\* ... and at the end of recovery.
LEMMA RecoveredInv ==
  ASSUME LogInv, clear_head(Boot) PROVE LogInv'
  <1> USE LogAssumption DEF LogInv
  <1>1. /\ pc' = [pc EXCEPT ![Boot] = "idle"] /\ pc[Boot] = "install"
        /\ tail[Boot] = Len(lh) /\ lh' = <<>> /\ head' = <<>>
        /\ tail' = [tail EXCEPT ![Boot] = 0]
        /\ UNCHANGED <<disk, logBlk, cache, dirty, outstanding, committing, buf,
                       wrote, panicked>>
    BY Zenon DEF clear_head, Goto
  <1>2. ~Up
    BY Zenon, <1>1 DEF Up
  <1>3. /\ \A q \in Op : pc[q] = "idle" /\ buf[q] = Absent /\ wrote[q] = {}
        /\ Active = {} /\ Committers = {} /\ committing = FALSE /\ dirty = {}
    BY Zenon, <1>2, RecoveryFacts
  <1>4. pc' \in [Process -> PCs] /\ \A q \in Process : pc'[q] = "idle"
    BY Zenon, <1>1, <1>3 DEF TypeOK, Process, PCs
  <1>5. Up' /\ Active' = {} /\ Committers' = {}
    BY Zenon, <1>4 DEF Up, Active, Committers, Process
  <1>6. TypeOK'
    <2>1. tail' \in [Process -> Nat]
      BY <1>1, Zenon DEF TypeOK
    <2>2. lh' \in Seq(Block) /\ head' \in Seq(Block)
      BY <1>1
    <2> QED BY <1>1, <1>4, <2>1, <2>2, Zenon DEF TypeOK
  <1>7. ControlOK'
    BY <1>1, <1>3, <1>4, <1>5, Zenon DEF ControlOK, Process
  <1>8. LoggedOK'
    <2>1. DOMAIN lh' = {}
      BY <1>1
    <2>2. \A q \in Process : pc'[q] # "read_head" /\ pc'[q] # "finish"
      BY Zenon, <1>4
    <2> QED BY <1>1, <1>3, <2>1, <2>2, Zenon DEF LoggedOK
  <1>9. CacheOK'
    BY Zenon, <1>1, <1>3, <1>5 DEF CacheOK, Held, Logged
  <1>10. HeaderOK'
    <2>1. tail'[Boot] = 0 /\ \A p \in Process : p # Boot => tail'[p] = tail[p]
      BY <1>1, Zenon DEF TypeOK, Process
    <2>2. \A p \in Process : p # Boot => tail[p] = 0
      BY <1>3, Zenon DEF HeaderOK, Process
    <2>3. Len(head') = 0 /\ DOMAIN head' = {} /\ 0 <= SIZE - 1
      BY <1>1 DEF ReservationOK, TypeOK
    <2> QED BY Zenon, <1>1, <1>4, <2>1, <2>2, <2>3 DEF HeaderOK, Process
  <1>11. ReservationOK'
    <2>1. Len(lh') <= SIZE - 1
      BY <1>1 DEF ReservationOK, TypeOK
    <2> QED BY <1>1, <1>5, <2>1, Zenon DEF ReservationOK
  <1> QED BY Zenon, <1>1, <1>6, <1>7, <1>8, <1>9, <1>10, <1>11

\* The end of end_op() after a commit.
LEMMA FinishInv ==
  ASSUME LogInv, NEW o \in Op, finish(o) PROVE LogInv'
  <1> USE LogAssumption DEF LogInv
  <1>1. /\ WakeAll(o, "idle") /\ pc[o] = "finish" /\ committing' = FALSE
        /\ UNCHANGED <<disk, logBlk, head, cache, dirty, lh, outstanding, tail,
                       buf, wrote, panicked>>
    BY Zenon DEF finish, diskVars
  <1>2. /\ Up /\ pc[Boot] = "idle" /\ Active = {} /\ head = <<>>
        /\ \A q \in Process : q # o => pc[q] \in {"idle", "asleep", "woken"}
        /\ \A q \in Op : buf[q] = Absent /\ wrote[q] = {}
    BY <1>1, CommitterFacts, Zenon
  <1>3. /\ pc' \in [Process -> PCs] /\ pc'[o] = "idle"
        /\ \A q \in Process : q # o =>
             pc'[q] = IF pc[q] = "asleep" THEN "woken" ELSE pc[q]
    BY <1>1, WakeAllFacts, Zenon DEF PCs
  <1>4. \A q \in Process : pc'[q] \in {"idle", "woken"}
    BY Zenon, <1>2, <1>3
  <1>5. Active' = {} /\ Committers' = {}
    BY Zenon, <1>4 DEF Active, Committers, Process
  <1>6. pc'[Boot] = "idle" /\ Up'
    BY Zenon, <1>2, <1>3 DEF Process, Up
  <1>7. lh = <<>>
    BY Zenon, <1>1 DEF LoggedOK
  <1>8. TypeOK'
    BY <1>1, <1>3, Zenon DEF TypeOK
  <1>9. ControlOK'
    BY <1>1, <1>2, <1>4, <1>5, <1>6, Zenon DEF ControlOK, Process
  <1>10. LoggedOK'
    BY Zenon, <1>1, <1>2, <1>7 DEF LoggedOK, Logged
  <1>11. CacheOK'
    BY <1>1, <1>6, ZenonT(60) DEF CacheOK, Held, Logged
  <1>12. HeaderOK'
    <2>1. \A p \in Process : pc[p] \notin {"write_log", "install"}
      BY <1>1, <1>2, Zenon
    <2>2. \A p \in Process : tail[p] = 0
      BY <2>1, Zenon DEF HeaderOK
    <2> QED BY <1>1, <1>2, <1>4, <2>2, Zenon DEF HeaderOK, Process
  <1>13. ReservationOK'
    BY <1>1, <1>5, Zenon DEF ReservationOK
  <1> QED BY Zenon, <1>1, <1>8, <1>9, <1>10, <1>11, <1>12, <1>13

\* recover_from_log() reading the header.
LEMMA ReadHeadInv ==
  ASSUME LogInv, read_head PROVE LogInv'
  <1> USE LogAssumption DEF LogInv
  <1>1. /\ pc' = [pc EXCEPT ![Boot] = "install"] /\ pc[Boot] = "read_head"
        /\ lh' = head
        /\ UNCHANGED <<disk, logBlk, head, cache, dirty, outstanding, committing,
                       tail, buf, wrote, panicked>>
    BY Zenon DEF read_head, Goto, diskVars
  <1>2. ~Up
    BY Zenon, <1>1 DEF Up
  <1>3. /\ \A q \in Op : pc[q] = "idle" /\ buf[q] = Absent /\ wrote[q] = {}
        /\ Active = {} /\ Committers = {} /\ committing = FALSE /\ dirty = {}
    BY Zenon, <1>2, RecoveryFacts
  <1>4. /\ pc' \in [Process -> PCs] /\ pc'[Boot] = "install"
        /\ \A q \in Op : pc'[q] = "idle"
    BY Zenon, <1>1, <1>3 DEF TypeOK, Process, PCs
  <1>5. ~Up' /\ Active' = {} /\ Committers' = {}
    BY Zenon, <1>4 DEF Up, Active, Committers
  <1>6. TypeOK'
    BY Zenon, <1>1, <1>4 DEF TypeOK
  <1>7. ControlOK'
    <2>1. outstanding' = Cardinality(Active')
      BY <1>1, <1>3, <1>5, Zenon DEF ControlOK
    <2> QED BY <1>1, <1>3, <1>4, <1>5, <2>1, ZenonT(60) DEF ControlOK
  <1>8. LoggedOK'
    <2>1. \A i, j \in DOMAIN lh' : lh'[i] = lh'[j] => i = j
      BY <1>1, Zenon DEF HeaderOK
    <2> QED BY <1>1, <1>3, <1>4, <1>5, <2>1, ZenonT(60) DEF LoggedOK, Logged
  <1>9. CacheOK'
    <2>1. \A b \in Block : Held(b)' <=> Held(b)
      BY Zenon, <1>1 DEF Held
    <2> QED BY <1>1, <1>3, <2>1, Zenon DEF CacheOK
  <1>10. HeaderOK'
    <2>1. tail[Boot] = 0
      BY <1>1, Zenon DEF HeaderOK, Process
    <2>2. 0 <= Len(lh') /\ Len(head) <= SIZE - 1
      BY <1>1 DEF TypeOK, HeaderOK
    <2> QED BY <1>1, <1>3, <1>4, <2>1, <2>2 DEF HeaderOK, Process
  <1>11. ReservationOK'
    <2>1. Len(lh') <= SIZE - 1
      BY <1>1, Zenon DEF HeaderOK
    <2> QED BY <1>1, <1>5, <2>1, Zenon DEF ReservationOK
  <1> QED BY Zenon, <1>1, <1>6, <1>7, <1>8, <1>9, <1>10, <1>11

\* A crash leaves the disk alone and empties the memory.
LEMMA CrashInv ==
  ASSUME LogInv, Crash PROVE LogInv'
  <1> USE LogAssumption DEF LogInv
  <1>1. /\ cache' = [b \in Block |-> Absent] /\ dirty' = {} /\ lh' = <<>>
        /\ outstanding' = 0 /\ committing' = FALSE /\ panicked' = FALSE
        /\ pc' = [p \in Process |-> IF p = Boot THEN "read_head" ELSE "idle"]
        /\ tail' = [p \in Process |-> 0]
        /\ buf' = [o \in Op |-> Absent] /\ wrote' = [o \in Op |-> {}]
        /\ UNCHANGED <<disk, logBlk, head>>
    BY Zenon DEF Crash, diskVars
  <1>2. /\ pc'[Boot] = "read_head" /\ ~Up'
        /\ \A q \in Op : pc'[q] = "idle" /\ buf'[q] = Absent /\ wrote'[q] = {}
    BY Zenon, <1>1 DEF Process, Up
  <1>3. Active' = {} /\ Committers' = {}
    BY Zenon, <1>2 DEF Active, Committers
  <1>4. TypeOK'
    <2>1. pc' \in [Process -> PCs] /\ tail' \in [Process -> Nat]
      BY Zenon, <1>1 DEF PCs
    <2>2. cache' \in [Block -> Val \cup {Absent}] /\ lh' \in Seq(Block)
      BY <1>1
    <2>3. buf' \in [Op -> Block \cup {Absent}] /\ wrote' \in [Op -> SUBSET Block]
      BY Zenon, <1>1
    <2> QED BY <1>1, <2>1, <2>2, <2>3, Zenon DEF TypeOK
  <1>5. ControlOK'
    <2>1. outstanding' = Cardinality(Active')
      BY <1>1, <1>3, FS_EmptySet, Zenon
    <2> QED BY <1>1, <1>2, <1>3, <2>1, ZenonT(60) DEF ControlOK
  <1>6. LoggedOK'
    <2>1. DOMAIN lh' = {}
      BY <1>1
    <2> QED BY <1>1, <1>2, <2>1, Zenon DEF LoggedOK
  <1>7. CacheOK'
    <2>1. \A b \in Block : ~Held(b)'
      BY <1>2, Zenon DEF Held
    <2> QED BY <1>1, <2>1, Zenon DEF CacheOK, Logged
  <1>8. HeaderOK'
    BY <1>1, <1>2, Zenon DEF HeaderOK, Process
  <1>9. ReservationOK'
    <2>1. Len(lh') <= SIZE - 1
      BY <1>1 DEF ReservationOK, TypeOK
    <2>2. \A q \in Op : IsFiniteSet(wrote'[q])
      BY <1>2, FS_EmptySet, Zenon
    <2> QED BY <1>2, <1>3, <2>1, <2>2, Zenon DEF ReservationOK
  <1> QED BY Zenon, <1>1, <1>4, <1>5, <1>6, <1>7, <1>8, <1>9

\* A step that changes nothing.
LEMMA StutterInv ==
  ASSUME LogInv, UNCHANGED vars PROVE LogInv'
  <1>1. UNCHANGED <<disk, logBlk, head, cache, dirty, lh, outstanding, committing,
                    pc, tail, buf, wrote, panicked>>
    BY Zenon DEF vars, diskVars, memVars
  <1>2. TypeOK' /\ ~panicked'
    BY <1>1, Zenon DEF LogInv, TypeOK
  <1>3. ControlOK'
    BY Zenon, <1>1 DEF LogInv, ControlOK, Up, Active, Committers
  <1>4. LoggedOK'
    BY Zenon, <1>1 DEF LogInv, LoggedOK, Logged, Up, Active
  <1>5. CacheOK'
    BY Zenon, <1>1 DEF LogInv, CacheOK, Logged, Held, Up
  <1>6. HeaderOK'
    <2>1. Content' = Content
      BY Zenon, <1>1 DEF Content
    <2> QED BY Zenon, <1>1, <2>1 DEF LogInv, HeaderOK
  <1>7. ReservationOK'
    BY <1>1, Zenon DEF LogInv, ReservationOK, Active, Unused
  <1> QED BY Zenon, <1>2, <1>3, <1>4, <1>5, <1>6, <1>7 DEF LogInv

\* Every step preserves the invariant.
LEMMA NextInv ==
  ASSUME LogInv, [Next]_vars PROVE LogInv'
  <1>1. ASSUME NEW o \in Op, begin_op(o) PROVE LogInv'
    BY Zenon, <1>1, BeginWaitInv, BeginInv
  <1>2. ASSUME NEW o \in Op, append(o) PROVE LogInv'
    BY Zenon, <1>2, AppendInv
  <1>3. ASSUME NEW o \in Op, end_op(o) PROVE LogInv'
    BY Zenon, <1>3, EndLastInv, EndInv
  <1>4. ASSUME NEW o \in Op, CommitStep(o) PROVE LogInv'
    <2>1. o \in Process
      BY Zenon DEF Process
    <2> QED BY Zenon, <1>4, <2>1, CommitInv, WriteLogInv, WriteHeadInv, InstallInv, ClearInv,
               FinishInv DEF CommitStep
  <1>5. ASSUME NEW o \in Op, NEW b \in Block, NEW v \in Val, log_write(o, b, v)
        PROVE  LogInv'
    BY Zenon, <1>5, LogWriteInv
  <1>6. ASSUME NEW b \in Block, Read(b) \/ Recycle(b) PROVE LogInv'
    BY Zenon, <1>6, ReadInv, RecycleInv
  <1>7. CASE Recover
    <2>1. Boot \in Process
      BY Zenon DEF Process
    <2> QED BY Zenon, <1>7, <2>1, ReadHeadInv, InstallInv, RecoveredInv DEF Recover
  <1>8. CASE Crash
    BY Zenon, <1>8, CrashInv
  <1>9. CASE UNCHANGED vars
    BY Zenon, <1>9, StutterInv
  <1> QED BY Zenon, <1>1, <1>2, <1>3, <1>4, <1>5, <1>6, <1>7, <1>8, <1>9 DEF Next

\* LogInv is an invariant of log.c: it holds initially and every step of every
\* process, recovery and a crash keep it.
THEOREM LogInvariant == Spec => []LogInv
  <1>1. Init => LogInv
    BY Zenon, InitInv
  <1>2. LogInv /\ [Next]_vars => LogInv'
    BY Zenon, NextInv
  <1> QED BY <1>1, <1>2, PTL DEF Spec

\* The reservation of begin_op() is enough: no panic of log.c is reached and
\* the log blocks suffice, for every log size that satisfies LogAssumption.
THEOREM SpaceTheorem == Spec => []SpaceSuffices
  <1>1. LogInv => SpaceSuffices
    BY Zenon DEF LogInv, ReservationOK, SpaceSuffices
  <1> QED BY <1>1, LogInvariant, PTL

\* Every step keeps a waker for the calls that sleep in begin_op().
LEMMA WakerStep ==
  ASSUME LogInv, LogInv', SleeperHasWaker, [Next]_vars PROVE SleeperHasWaker'
  <1> USE LogAssumption
  <1>1. ASSUME NEW o \in Op, begin_op(o) PROVE SleeperHasWaker'
    <2>1. CASE ~MustWait
      <3>1. pc'[o] = "run"
        BY <1>1, <2>1, Zenon DEF begin_op, Goto, LogInv, TypeOK, Process
      <3> QED BY Zenon, <3>1 DEF SleeperHasWaker, Active
    <2>2. CASE MustWait
      <3>1. pc' = [pc EXCEPT ![o] = "asleep"] /\ pc[o] \in {"idle", "woken"} /\ Up
            /\ UNCHANGED committing
        BY Zenon, <1>1, <2>2 DEF begin_op, Goto
      <3>2. Active' = Active
        BY <3>1, Zenon DEF Active, LogInv, TypeOK, Process
      <3>3. committing \/ Active # {}
        <4> SUFFICES ASSUME ~committing, Active = {} PROVE FALSE
          OBVIOUS
        <4>1. lh = <<>> /\ outstanding = 0
          BY <3>1, FS_EmptySet, Zenon DEF LogInv, LoggedOK, ControlOK
        <4>2. Len(lh) = 0
          BY <4>1, Zenon
        <4>3. Len(lh) + (outstanding + 1) * MAXOPBLOCKS > LOGSIZE
          BY <2>2, Zenon DEF MustWait
        <4> QED BY <4>1, <4>2, <4>3
      <3> QED BY Zenon, <3>1, <3>2, <3>3 DEF SleeperHasWaker
    <2> QED BY Zenon, <2>1, <2>2
  <1>2. ASSUME NEW o \in Op, pc'[o] \in {"run", "append"} PROVE SleeperHasWaker'
    BY <1>2, Zenon DEF SleeperHasWaker, Active
  <1>3. ASSUME NEW o \in Op, append(o) PROVE SleeperHasWaker'
    BY <1>2, <1>3, Zenon DEF append, Goto, LogInv, TypeOK, Process
  <1>4. ASSUME NEW o \in Op, NEW b \in Block, NEW v \in Val, log_write(o, b, v)
        PROVE  SleeperHasWaker'
    BY <1>2, <1>4, Zenon DEF log_write, Goto, LogInv, TypeOK, Process
  <1>5. ASSUME NEW o \in Op, end_op(o) PROVE SleeperHasWaker'
    <2>1. CASE outstanding = 1
      BY <1>5, <2>1, Zenon DEF end_op, SleeperHasWaker
    <2>2. CASE outstanding # 1
      <3>1. outstanding' = outstanding - 1 /\ outstanding \in Nat
        BY <1>5, Zenon DEF end_op, LogInv, TypeOK
      <3>2. outstanding' # 0
        BY <2>2, <3>1
      <3>3. outstanding' = Cardinality(Active')
        BY Zenon DEF LogInv, ControlOK
      <3>4. Active' # {}
        BY <3>2, <3>3, FS_EmptySet, Zenon
      <3> QED BY Zenon, <3>4 DEF SleeperHasWaker
    <2> QED BY Zenon, <2>1, <2>2
  <1>6. ASSUME NEW o \in Op, finish(o) PROVE SleeperHasWaker'
    <2>1. /\ pc'[o] = "idle"
          /\ \A q \in Process : q # o =>
               pc'[q] = IF pc[q] = "asleep" THEN "woken" ELSE pc[q]
      BY <1>6, WakeAllFacts, Zenon DEF finish, PCs, LogInv
    <2> QED BY <2>1, Zenon DEF SleeperHasWaker, Process
  <1>7. ASSUME NEW o \in Op, CommitStep(o), ~finish(o) PROVE SleeperHasWaker'
    <2>1. pc[o] \in {"commit", "write_log", "install", "finish"} /\ committing' = committing
      BY <1>7, Zenon DEF CommitStep, commit, write_log, write_head, install_trans, clear_head,
                  memVars
    <2>2. committing
      BY <2>1, CommitterFacts, Zenon
    <2> QED BY <2>1, <2>2, Zenon DEF SleeperHasWaker
  <1>8. ASSUME NEW b \in Block, Read(b) \/ Recycle(b) PROVE SleeperHasWaker'
    BY <1>8, Zenon DEF Read, Recycle, SleeperHasWaker, Active
  <1>9. CASE Recover
    <2>1. \E l : pc' = [pc EXCEPT ![Boot] = l]
      <3>1. CASE install_trans(Boot)
        <4>1. pc' = [pc EXCEPT ![Boot] = pc[Boot]]
          BY <3>1, Zenon DEF install_trans, LogInv, TypeOK
        <4> QED BY <4>1, Zenon
      <3>2. CASE read_head \/ clear_head(Boot)
        BY <3>2, Zenon DEF read_head, clear_head, Goto
      <3> QED BY <1>9, <3>1, <3>2, Zenon DEF Recover
    <2>2. ~Up
      BY <1>9, Zenon DEF Recover, read_head, install_trans, clear_head, Up
    <2>3. \A q \in Op : pc[q] = "idle"
      BY <2>2, RecoveryFacts, Zenon
    <2>4. \A q \in Op : pc'[q] = "idle"
      BY <2>1, <2>3, Zenon DEF LogInv, TypeOK, Process
    <2> QED BY Zenon, <2>4 DEF SleeperHasWaker
  <1>10. CASE Crash
    BY <1>10, Zenon DEF Crash, SleeperHasWaker, Process
  <1>11. CASE UNCHANGED vars
    BY <1>11, Zenon DEF vars, memVars, SleeperHasWaker, Active
  <1> QED BY <1>1, <1>3, <1>4, <1>5, <1>6, <1>7, <1>8, <1>9, <1>10, <1>11, Zenon DEF Next

\* No lost wakeup: whenever a call sleeps in begin_op(), some other call is
\* running or committing and will call wakeup(&log).
THEOREM WakerTheorem == Spec => []SleeperHasWaker
  <1>1. Init => SleeperHasWaker
    BY Zenon, LogAssumption DEF Init, SleeperHasWaker, Process
  <1>2. LogInv /\ LogInv' /\ SleeperHasWaker /\ [Next]_vars => SleeperHasWaker'
    BY Zenon, WakerStep
  <1> QED BY <1>1, <1>2, LogInvariant, PTL DEF Spec
=============================================================================
