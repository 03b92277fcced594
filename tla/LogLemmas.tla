------------------------------ MODULE LogLemmas ------------------------------
(***************************************************************************)
(* The steps of LogProofs that concern the calls: reading, begin_op(),      *)
(* log_write() and end_op() preserve LogInv.                                *)
(***************************************************************************)
EXTENDS Log, FiniteSetTheorems, TLAPS

\* The sizes are numbers.
LEMMA Sizes ==
  /\ LOGSIZE \in Nat /\ MAXOPBLOCKS \in Nat /\ SIZE \in Nat /\ OPBLOCKS \in Nat
  /\ OPBLOCKS <= MAXOPBLOCKS
  BY Zenon, LogAssumption

\* A set of calls, and what they may still log, are finite sets.
LEMMA FiniteSets ==
  ASSUME NEW A \in SUBSET Op, NEW w
  PROVE  /\ IsFiniteSet(A) /\ Cardinality(A) \in Nat
         /\ IsFiniteSet(Unused(A, w)) /\ Cardinality(Unused(A, w)) \in Nat
         /\ Cardinality(Unused(A, w)) <= Cardinality(A) * OPBLOCKS
  <1>1. Unused(A, w) \in SUBSET (A \X (1..OPBLOCKS))
    BY Zenon DEF Unused
  <1>2. IsFiniteSet(A) /\ Cardinality(A) \in Nat
    BY Zenon, LogAssumption, FS_Subset, FS_CardinalityType
  <1>3. IsFiniteSet(1..OPBLOCKS) /\ Cardinality(1..OPBLOCKS) = OPBLOCKS
    BY Sizes, FS_Interval
  <1>4. /\ IsFiniteSet(A \X (1..OPBLOCKS))
        /\ Cardinality(A \X (1..OPBLOCKS)) = Cardinality(A) * OPBLOCKS
    BY <1>2, <1>3, FS_Product, Zenon
  <1>5. /\ IsFiniteSet(Unused(A, w))
        /\ Cardinality(Unused(A, w)) <= Cardinality(A) * OPBLOCKS
    BY Zenon, <1>1, <1>4, FS_Subset
  <1> QED BY <1>2, <1>5, FS_CardinalityType, Zenon

\* Two facts of arithmetic.
LEMMA Distribute ==
  ASSUME NEW n \in Nat, NEW m \in Nat, NEW k \in Nat, k <= m
  PROVE  /\ (m - k) * n + n * k = n * m
         /\ (m - k) * n \in Nat
         /\ n > 0 => (m - k) * n >= m - k
  OBVIOUS

\* While a call runs, the log and what may still be added leave a block free.
LEMMA SpaceLeft ==
  ASSUME LogInv, Active # {}
  PROVE  Len(lh) + Cardinality(Unused(Active, wrote)) < SIZE - 1
  <1>1. Active \in SUBSET Op
    BY Zenon DEF Active
  <1>2. Cardinality(Active) \in Nat /\ Cardinality(Active) > 0
    <2>1. IsFiniteSet(Active) /\ Cardinality(Active) \in Nat
      BY Zenon, <1>1, FiniteSets
    <2>2. Cardinality(Active) # 0
      BY Zenon, <2>1, FS_EmptySet
    <2> QED BY <2>1, <2>2
  <1>3. Cardinality(Unused(Active, wrote)) \in Nat
    BY <1>1, FiniteSets, Zenon
  <1>4. (MAXOPBLOCKS - OPBLOCKS) * Cardinality(Active) >= MAXOPBLOCKS - OPBLOCKS
    BY Zenon, <1>2, Sizes, Distribute
  <1>5. (MAXOPBLOCKS - OPBLOCKS) * Cardinality(Active) \in Nat
    BY Zenon, <1>2, Sizes, Distribute
  <1>6. Len(lh) \in Nat
    BY DEF LogInv, TypeOK
  <1>7. Len(lh) + Cardinality(Unused(Active, wrote))
         + (MAXOPBLOCKS - OPBLOCKS) * Cardinality(Active) <= LOGSIZE
    BY Zenon DEF LogInv, ReservationOK
  <1> QED BY <1>3, <1>4, <1>5, <1>6, <1>7, LogAssumption

\* The types that the copy loops need.
LEMMA LoopTypes ==
  ASSUME LogInv
  PROVE  /\ lh \in Seq(Block) /\ Len(lh) \in Nat /\ DOMAIN lh = 1..Len(lh)
         /\ \A i \in DOMAIN lh : lh[i] \in Block
         /\ logBlk \in [1..SIZE-1 -> Val] /\ Len(lh) <= SIZE - 1
         /\ \A p \in Process : tail[p] \in Nat
  <1>1. lh \in Seq(Block) /\ logBlk \in [1..SIZE-1 -> Val] /\ tail \in [Process -> Nat]
    BY Zenon DEF LogInv, TypeOK
  <1>2. Len(lh) <= SIZE - 1
    BY Zenon DEF LogInv, ReservationOK
  <1> QED BY <1>1, <1>2

\* A step that moves nobody and leaves the counters and held buffers alone keeps
\* the control state.
LEMMA ControlFrame ==
  ASSUME ControlOK, UNCHANGED <<pc, outstanding, committing, buf, wrote>>
  PROVE  ControlOK'
  <1>1. Active' = Active /\ Committers' = Committers /\ Up' = Up
    BY Zenon DEF Active, Committers, Up
  <1>2. pc' = pc /\ outstanding' = outstanding /\ committing' = committing
        /\ buf' = buf /\ wrote' = wrote
    OBVIOUS
  <1> QED BY <1>1, <1>2 DEF ControlOK

\* The initial state satisfies the invariant.
LEMMA InitInv == Init => LogInv
  <1> SUFFICES ASSUME Init PROVE LogInv OBVIOUS
  <1> USE LogAssumption DEF Init
  <1>1. TypeOK
    <2>1. logBlk \in [1..SIZE-1 -> Val] /\ disk \in [Block -> Val]
      OBVIOUS
    <2>2. pc \in [Process -> PCs] /\ tail \in [Process -> Nat]
      BY Zenon DEF PCs
    <2>3. head \in Seq(Block) /\ lh \in Seq(Block)
      OBVIOUS
    <2>4. cache \in [Block -> Val \cup {Absent}] /\ dirty \subseteq Block
      OBVIOUS
    <2>5. buf \in [Op -> Block \cup {Absent}] /\ wrote \in [Op -> SUBSET Block]
      OBVIOUS
    <2> QED BY <2>1, <2>2, <2>3, <2>4, <2>5, Zenon DEF TypeOK
  <1>2. Active = {} /\ Committers = {} /\ Cardinality(Active) = 0
    BY FS_EmptySet, Zenon DEF Active, Committers, Process
  <1>3. ControlOK
    BY Zenon, <1>2 DEF ControlOK, Up, Process
  <1>4. LoggedOK
    BY DEF LoggedOK, Logged, Process
  <1>5. CacheOK
    BY Zenon DEF CacheOK, Logged, Held
  <1>6. HeaderOK
    BY DEF HeaderOK, Process
  <1>7. ReservationOK
    BY <1>2, FS_EmptySet DEF ReservationOK
  <1> QED BY Zenon, <1>1, <1>3, <1>4, <1>5, <1>6, <1>7 DEF LogInv

\* bread() of a block that is not cached.
LEMMA ReadInv ==
  ASSUME LogInv, NEW b \in Block, Read(b) PROVE LogInv'
  <1> USE LogAssumption DEF LogInv, Read, diskVars
  <1>1. TypeOK'
    BY Zenon DEF TypeOK
  <1>2. ControlOK'
    BY Zenon DEF ControlOK, Active, Committers, Up
  <1>3. LoggedOK'
    BY Zenon DEF LoggedOK, Active, Up, Logged
  <1>4. CacheOK'
    BY DEF CacheOK, TypeOK, Held, Up, Logged
  <1>5. HeaderOK'
    <2>1. Content' = Content
      BY Zenon DEF Content, TypeOK
    <2> QED BY Zenon, <2>1 DEF HeaderOK, TypeOK
  <1>6. ReservationOK'
    BY Zenon DEF ReservationOK, Active, Unused
  <1> QED BY Zenon, <1>1, <1>2, <1>3, <1>4, <1>5, <1>6

\* bget() recycling a clean buffer.
LEMMA RecycleInv ==
  ASSUME LogInv, NEW b \in Block, Recycle(b) PROVE LogInv'
  <1> USE LogAssumption DEF LogInv, Recycle, diskVars
  <1>1. TypeOK'
    BY Zenon DEF TypeOK
  <1>2. ControlOK'
    BY Zenon DEF ControlOK, Active, Committers, Up
  <1>3. LoggedOK'
    BY Zenon DEF LoggedOK, Active, Up, Logged
  <1>4. CacheOK'
    BY DEF CacheOK, TypeOK, Held, Up, Logged
  <1>5. HeaderOK'
    <2>1. Content' = Content
      BY Zenon DEF Content, TypeOK, CacheOK
    <2> QED BY Zenon, <2>1 DEF HeaderOK, TypeOK
  <1>6. ReservationOK'
    BY Zenon DEF ReservationOK, Active, Unused
  <1> QED BY Zenon, <1>1, <1>2, <1>3, <1>4, <1>5, <1>6

\* begin_op() that has to wait.
LEMMA BeginWaitInv ==
  ASSUME LogInv, NEW o \in Op, begin_op(o), MustWait PROVE LogInv'
  <1> USE LogAssumption DEF LogInv, begin_op, diskVars
  <1>1. /\ Goto(o, "asleep") /\ pc[o] \in {"idle", "woken"} /\ Up
        /\ UNCHANGED <<disk, logBlk, head, cache, dirty, lh, outstanding,
                       committing, tail, buf, wrote, panicked>>
    OBVIOUS
  <1>2. TypeOK'
    BY Zenon, <1>1 DEF TypeOK, Goto, PCs, Process
  <1>3. Active' = Active /\ Committers' = Committers
    BY <1>1, Zenon DEF Active, Committers, Goto, TypeOK, Process
  <1>4. pc'[Boot] = pc[Boot] /\ Up'
    BY Zenon, <1>1 DEF Goto, TypeOK, Process, Up
  <1>5. ControlOK'
    <2>1. pc' = [pc EXCEPT ![o] = "asleep"] /\ pc \in [Process -> PCs] /\ o # Boot
      BY <1>1, Zenon DEF Goto, TypeOK
    <2>2. \A q \in Op : /\ pc'[q] = "append" <=> pc[q] = "append"
                        /\ pc'[q] \in {"run", "append"} <=> pc[q] \in {"run", "append"}
                        /\ pc'[q] # "read_head"
      BY <1>1, <2>1, Zenon DEF Process, ControlOK
    <2> QED BY <1>1, <1>3, <1>4, <2>2 DEF ControlOK, Up
  <1>6. LoggedOK'
    BY <1>1, <1>3, <1>4 DEF LoggedOK, Up, Goto, TypeOK, Process, Logged
  <1>7. CacheOK'
    BY Zenon, <1>1, <1>4 DEF CacheOK, Up, Held, Logged
  <1>8. HeaderOK'
    <2>1. Content' = Content
      BY <1>1, Zenon DEF Content
    <2> QED BY <1>1, <1>4, <2>1 DEF HeaderOK, Goto, TypeOK, Process
  <1>9. ReservationOK'
    BY <1>1, <1>3, Zenon DEF ReservationOK, Unused
  <1> QED BY <1>1, <1>2, <1>5, <1>6, <1>7, <1>8, <1>9

\* begin_op() that admits the call.
LEMMA BeginInv ==
  ASSUME LogInv, NEW o \in Op, begin_op(o), ~MustWait PROVE LogInv'
  <1> USE LogAssumption DEF LogInv, begin_op, diskVars
  <1>1. /\ Goto(o, "run") /\ pc[o] \in {"idle", "woken"} /\ Up
        /\ outstanding' = outstanding + 1 /\ ~committing
        /\ UNCHANGED <<disk, logBlk, head, cache, dirty, lh, committing, tail,
                       buf, wrote, panicked>>
    BY Zenon DEF MustWait
  <1>2. TypeOK'
    BY <1>1 DEF TypeOK, Goto, PCs, Process
  <1>3. Active' = Active \cup {o} /\ o \notin Active /\ Committers' = Committers
    BY <1>1 DEF Active, Committers, Goto, TypeOK, Process
  <1>4. pc'[Boot] = pc[Boot] /\ Up'
    BY <1>1, Zenon DEF Goto, TypeOK, Process, Up
  <1>5. Active \in SUBSET Op /\ Active' \in SUBSET Op
    BY Zenon DEF Active
  <1>6. Cardinality(Active') = Cardinality(Active) + 1
    BY <1>3, <1>5, FiniteSets, FS_AddElement, Zenon
  <1>7. ControlOK'
    BY <1>1, <1>3, <1>4, <1>6 DEF ControlOK, Up, Goto, TypeOK, Process
  <1>8. LoggedOK'
    BY <1>1, <1>3, <1>4 DEF LoggedOK, Up, Goto, TypeOK, Process, Logged
  <1>9. CacheOK'
    BY Zenon, <1>1, <1>4 DEF CacheOK, Up, Held, Logged
  <1>10. HeaderOK'
    <2>1. Content' = Content
      BY <1>1, Zenon DEF Content
    <2> QED BY <1>1, <1>4, <2>1 DEF HeaderOK, Goto, TypeOK, Process
  <1>11. ReservationOK'
    <2> DEFINE n == Cardinality(Active') u == Cardinality(Unused(Active', wrote'))
    <2>1. n \in Nat /\ u \in Nat /\ u <= n * OPBLOCKS
      BY <1>5, FiniteSets, Zenon
    <2>2. /\ (MAXOPBLOCKS - OPBLOCKS) * n + n * OPBLOCKS = n * MAXOPBLOCKS
          /\ (MAXOPBLOCKS - OPBLOCKS) * n \in Nat
      BY Zenon, <2>1, Sizes, Distribute
    <2>3. Len(lh) + n * MAXOPBLOCKS <= LOGSIZE
      <3>1. n = outstanding + 1
        BY <1>6, Zenon DEF ControlOK
      <3>2. ~(Len(lh) + (outstanding + 1) * MAXOPBLOCKS > LOGSIZE)
        BY Zenon DEF MustWait
      <3>3. n * MAXOPBLOCKS \in Nat /\ Len(lh) \in Nat
        BY <2>1, Sizes DEF TypeOK
      <3> HIDE DEF n
      <3> QED BY <3>1, <3>2, <3>3, Sizes
    <2>4. n * OPBLOCKS \in Nat /\ Len(lh) \in Nat
      BY <2>1, Sizes DEF TypeOK
    <2>5. Len(lh) + u + (MAXOPBLOCKS - OPBLOCKS) * n <= LOGSIZE
      <3> HIDE DEF n, u
      <3> QED BY <2>1, <2>2, <2>3, <2>4, Sizes
    <2>6. Unused(Active, wrote)' = Unused(Active', wrote')
      BY Zenon DEF Unused
    <2> QED BY <1>1, <2>5, <2>6, Zenon DEF ReservationOK
  <1> QED BY <1>1, <1>2, <1>7, <1>8, <1>9, <1>10, <1>11

\* While a call runs, recovery is over, nobody commits and the header on disk
\* is empty.
LEMMA RunningFacts ==
  ASSUME LogInv, NEW o \in Op, pc[o] \in {"run", "append"}
  PROVE  /\ o \in Active /\ Up /\ ~committing /\ Committers = {} /\ head = <<>>
         /\ \A p \in Process : pc[p] \notin {"write_log", "install", "read_head"}
  <1>1. o \in Active
    BY Zenon DEF Active
  <1>2. Up /\ ~committing /\ Committers = {}
    BY Zenon, <1>1 DEF LogInv, ControlOK
  <1>3. \A p \in Process : pc[p] \notin {"write_log", "install", "read_head"}
    BY Zenon, <1>2 DEF LogInv, ControlOK, Committers, Up, Process
  <1>4. head = <<>>
    BY Zenon, <1>3 DEF LogInv, HeaderOK, Process
  <1> QED BY Zenon, <1>1, <1>2, <1>3, <1>4

\* log_write() up to its acquire: the buffer is changed, the tests pass.
LEMMA LogWriteInv ==
  ASSUME LogInv, NEW o \in Op, NEW b \in Block, NEW v \in Val, log_write(o, b, v)
  PROVE  LogInv'
  <1> USE LogAssumption DEF LogInv
  <1>1. /\ pc' = [pc EXCEPT ![o] = "append"] /\ pc[o] = "run" /\ ~Held(b)
        /\ b \in wrote[o] \/ Cardinality(wrote[o]) < OPBLOCKS
        /\ cache' = [cache EXCEPT ![b] = v] /\ buf' = [buf EXCEPT ![o] = b]
        /\ UNCHANGED <<disk, logBlk, head, dirty, lh, outstanding, committing,
                       tail, wrote>>
    BY Zenon DEF log_write, Goto, diskVars
  <1>2. /\ o \in Active /\ Up /\ ~committing /\ Committers = {} /\ head = <<>>
        /\ \A p \in Process : pc[p] \notin {"write_log", "install", "read_head"}
    BY <1>1, RunningFacts, Zenon
  <1>3. panicked' = FALSE
    <2>1. Len(lh) < SIZE - 1
      <3>1. Active \in SUBSET Op
        BY Zenon DEF Active
      <3>2. Len(lh) \in Nat
        BY DEF TypeOK
      <3>3. Cardinality(Unused(Active, wrote)) \in Nat
        BY <3>1, FiniteSets, Zenon
      <3>4. Len(lh) + Cardinality(Unused(Active, wrote)) < SIZE - 1
        BY Zenon, <1>2, SpaceLeft
      <3> QED BY <3>2, <3>3, <3>4, Sizes
    <2>2. outstanding # 0
      <3>1. Active \in SUBSET Op
        BY Zenon DEF Active
      <3>2. IsFiniteSet(Active)
        BY <3>1, FiniteSets, Zenon
      <3> QED BY <1>2, <3>2, FS_EmptySet, Zenon DEF ControlOK
    <2>3. Len(lh) \in Nat /\ outstanding \in Nat
      BY DEF TypeOK
    <2> QED BY <2>1, <2>2, <2>3 DEF log_write
  <1>4. TypeOK'
    <2>1. pc' \in [Process -> PCs]
      BY <1>1, Zenon DEF TypeOK, PCs
    <2>2. cache' \in [Block -> Val \cup {Absent}] /\ buf' \in [Op -> Block \cup {Absent}]
      BY <1>1, Zenon DEF TypeOK
    <2> QED BY <1>1, <1>3, <2>1, <2>2, Zenon DEF TypeOK
  <1>5. Active' = Active /\ Committers' = Committers
    BY <1>1, Zenon DEF Active, Committers, TypeOK, Process
  <1>6. pc'[Boot] = pc[Boot] /\ Up'
    BY <1>1, <1>2, Zenon DEF TypeOK, Process, Up
  <1>7. \A q \in Op : buf[q] # b
    BY <1>1, Zenon DEF Held
  <1>8. ControlOK'
    <2>1. \A q \in Op : q # o => pc'[q] = pc[q] /\ buf'[q] = buf[q]
      BY Zenon, <1>1 DEF TypeOK, Process
    <2>2. pc'[o] = "append" /\ buf'[o] = b /\ b # Absent
      BY <1>1, Zenon DEF TypeOK, Process
    <2> QED BY <1>1, <1>2, <1>5, <1>6, <1>7, <2>1, <2>2 DEF ControlOK, Up
  <1>9. LoggedOK'
    BY <1>1, <1>2, <1>5, <1>6 DEF LoggedOK, Logged, TypeOK, Process, Up
  <1>10. CacheOK'
    <2>1. buf[o] = Absent
      <3>1. pc[o] = "append" <=> buf[o] # Absent
        BY Zenon DEF ControlOK
      <3> QED BY <1>1, <3>1, Zenon
    <2>2. \A d \in Block : Held(d)' <=> d = b \/ Held(d)
      BY Zenon, <1>1, <2>1 DEF Held, TypeOK
    <2> QED BY <1>1, <1>6, <2>2 DEF CacheOK, Logged, TypeOK
  <1>11. HeaderOK'
    BY <1>1, <1>2, Zenon DEF HeaderOK, TypeOK, Process
  <1>12. ReservationOK'
    <2>1. \A q \in Op : q # o => buf'[q] = buf[q]
      BY <1>1, Zenon DEF TypeOK
    <2>2. buf'[o] = b
      BY <1>1, Zenon DEF TypeOK
    <2> QED BY <1>1, <1>5, <2>1, <2>2, Zenon DEF ReservationOK, Unused
  <1> QED BY Zenon, <1>3, <1>4, <1>8, <1>9, <1>10, <1>11, <1>12

\* A call that logs a block uses up one of its entries.
LEMMA UnusedShrinks ==
  ASSUME NEW A \in SUBSET Op, NEW o \in A, NEW b, NEW w, NEW w1,
         \A q \in A : IsFiniteSet(w[q]),
         \A q \in A : w1[q] = IF q = o THEN w[q] \cup {b} ELSE w[q]
  PROVE  /\ Cardinality(Unused(A, w1)) <= Cardinality(Unused(A, w))
         /\ b \notin w[o] /\ Cardinality(w[o]) < OPBLOCKS =>
              Cardinality(Unused(A, w1)) <= Cardinality(Unused(A, w)) - 1
  <1> USE Sizes
  <1>1. IsFiniteSet(Unused(A, w)) /\ Cardinality(Unused(A, w)) \in Nat
    BY FiniteSets, Zenon
  <1>2. \A q \in A : Cardinality(w[q]) \in Nat
    BY Zenon, FS_CardinalityType
  <1>3. Cardinality(w1[o]) = IF b \in w[o] THEN Cardinality(w[o]) ELSE Cardinality(w[o]) + 1
    BY FS_AddElement, Zenon
  <1>4. \A q \in A : Cardinality(w[q]) <= Cardinality(w1[q]) /\ Cardinality(w1[q]) \in Nat
    <2> TAKE q \in A
    <2>1. CASE q = o
      BY <1>2, <1>3, <2>1
    <2>2. CASE q # o
      <3>1. w1[q] = w[q]
        BY <2>2, Zenon
      <3> QED BY <1>2, <3>1
    <2> QED BY Zenon, <2>1, <2>2
  <1>5. Unused(A, w1) \in SUBSET Unused(A, w)
    BY <1>2, <1>4 DEF Unused
  <1>6. ASSUME b \notin w[o], Cardinality(w[o]) < OPBLOCKS
        PROVE  Cardinality(Unused(A, w1)) <= Cardinality(Unused(A, w)) - 1
    <2> DEFINE e == <<o, Cardinality(w[o]) + 1>>
    <2>1. e \in Unused(A, w) /\ e \notin Unused(A, w1)
      BY <1>2, <1>3, <1>6 DEF Unused
    <2>2. /\ IsFiniteSet(Unused(A, w) \ {e})
          /\ Cardinality(Unused(A, w) \ {e}) = Cardinality(Unused(A, w)) - 1
      <3> HIDE DEF e
      <3> QED BY <1>1, <2>1, FS_RemoveElement, Zenon
    <2>3. Unused(A, w1) \in SUBSET (Unused(A, w) \ {e})
      BY Zenon, <1>5, <2>1
    <2>4. Cardinality(Unused(A, w1)) <= Cardinality(Unused(A, w) \ {e})
      BY <2>2, <2>3, FS_Subset, Zenon
    <2> QED BY Zenon, <2>2, <2>4
  <1>7. Cardinality(Unused(A, w1)) <= Cardinality(Unused(A, w))
    BY <1>1, <1>5, FS_Subset, Zenon
  <1> QED BY Zenon, <1>6, <1>7

\* The critical section of log_write().
LEMMA AppendInv ==
  ASSUME LogInv, NEW o \in Op, append(o) PROVE LogInv'
  <1> DEFINE b == buf[o]
  <1> USE LogAssumption DEF LogInv
  <1>1. /\ pc' = [pc EXCEPT ![o] = "run"] /\ pc[o] = "append"
        /\ lh' = IF b \in Logged(lh) THEN lh ELSE Append(lh, b)
        /\ dirty' = dirty \cup {b}
        /\ wrote' = [wrote EXCEPT ![o] = @ \cup {b}]
        /\ buf' = [buf EXCEPT ![o] = Absent]
        /\ UNCHANGED <<disk, logBlk, head, cache, outstanding, committing, tail,
                       panicked>>
    BY Zenon DEF append, Goto, diskVars
  <1>2. /\ o \in Active /\ Up /\ ~committing /\ Committers = {} /\ head = <<>>
        /\ \A p \in Process : pc[p] \notin {"write_log", "install", "read_head"}
    BY <1>1, RunningFacts, Zenon
  <1>3. b \in Block /\ b # Absent /\ Held(b)
    BY <1>1, Zenon DEF ControlOK, TypeOK, Held
  <1>4. /\ lh' \in Seq(Block) /\ Len(lh) \in Nat
        /\ b \in Logged(lh) => lh' = lh
        /\ b \notin Logged(lh) => /\ Len(lh') = Len(lh) + 1 /\ lh'[Len(lh) + 1] = b
                                 /\ \A i \in 1..Len(lh) : lh'[i] = lh[i]
    BY <1>1, <1>3 DEF TypeOK
  <1>5. Logged(lh') = Logged(lh) \cup {b}
    <2>1. CASE b \in Logged(lh)
      BY <1>4, <2>1, Zenon
    <2>2. CASE b \notin Logged(lh)
      <3>1. DOMAIN lh = 1..Len(lh) /\ DOMAIN lh' = 1..(Len(lh) + 1)
        BY <1>4, <2>2 DEF TypeOK
      <3> HIDE DEF b
      <3> QED BY <1>4, <2>2, <3>1 DEF Logged
    <2> QED BY Zenon, <2>1, <2>2
  <1>6. TypeOK'
    <2>1. pc' \in [Process -> PCs]
      BY <1>1, Zenon DEF TypeOK, PCs
    <2>2. buf' \in [Op -> Block \cup {Absent}] /\ wrote' \in [Op -> SUBSET Block]
      BY Zenon, <1>1, <1>3 DEF TypeOK
    <2> QED BY <1>1, <1>3, <1>4, <2>1, <2>2, Zenon DEF TypeOK
  <1>7. Active' = Active /\ Committers' = Committers
    BY <1>1, Zenon DEF Active, Committers, TypeOK, Process
  <1>8. pc'[Boot] = pc[Boot] /\ Up'
    BY <1>1, <1>2, Zenon DEF TypeOK, Process, Up
  <1>9. /\ pc'[o] = "run" /\ buf'[o] = Absent /\ wrote'[o] = wrote[o] \cup {b}
        /\ \A q \in Op : q # o => /\ pc'[q] = pc[q] /\ buf'[q] = buf[q]
                                 /\ wrote'[q] = wrote[q]
    BY Zenon, <1>1 DEF TypeOK, Process
  <1>10. ControlOK'
    BY <1>1, <1>2, <1>7, <1>8, <1>9 DEF ControlOK, Up
  <1>11. LoggedOK'
    <2>1. \A i, j \in DOMAIN lh' : lh'[i] = lh'[j] => i = j
      <3>1. CASE b \in Logged(lh)
        BY Zenon, <1>4, <3>1 DEF LoggedOK
      <3>2. CASE b \notin Logged(lh)
        <4>1. DOMAIN lh = 1..Len(lh) /\ DOMAIN lh' = 1..(Len(lh) + 1)
          BY <1>4, <3>2 DEF TypeOK
        <4> HIDE DEF b
        <4> QED BY <1>4, <3>2, <4>1 DEF LoggedOK, Logged
      <3> QED BY Zenon, <3>1, <3>2
    <2>2. \A q \in Op : wrote'[q] \subseteq Logged(lh')
      BY <1>5, <1>9, Zenon DEF LoggedOK
    <2>3. Logged(lh)' = Logged(lh')
      BY Zenon DEF Logged
    <2>4. Active' # {} /\ \A q \in Op : pc'[q] # "finish"
      BY <1>2, <1>7, <1>9, Zenon DEF Committers
    <2> QED BY Zenon, <1>8, <2>1, <2>2, <2>3, <2>4 DEF LoggedOK, Up
  <1>12. CacheOK'
    <2>1. \A d \in Block : Held(d)' <=> d # b /\ Held(d)
      BY <1>3, <1>9 DEF Held, ControlOK
    <2>2. Logged(lh)' = Logged(lh')
      BY Zenon DEF Logged
    <2>3. cache[b] # Absent
      BY <1>3, Zenon DEF CacheOK
    <2> QED BY <1>1, <1>5, <1>8, <2>1, <2>2, <2>3, Zenon DEF CacheOK
  <1>13. HeaderOK'
    <2>1. ASSUME NEW p \in Process
          PROVE  pc'[p] \notin {"write_log", "install"} /\ tail'[p] = 0
      <3>1. tail[p] = 0
        BY Zenon, <1>2 DEF HeaderOK
      <3> QED BY Zenon, <1>1, <1>2, <1>8, <1>9, <3>1 DEF Process
    <2>2. Op \subseteq Process /\ head' = <<>> /\ Len(head) <= SIZE - 1
          /\ \A i, j \in DOMAIN head : head[i] = head[j] => i = j
      BY Zenon, <1>1, <1>2 DEF HeaderOK, Process
    <2> QED BY Zenon, <1>1, <1>2, <2>1, <2>2 DEF HeaderOK
  <1>14. ReservationOK'
    <2> DEFINE u == Cardinality(Unused(Active, wrote))
               u1 == Cardinality(Unused(Active, wrote'))
               m == (MAXOPBLOCKS - OPBLOCKS) * Cardinality(Active)
    <2>1. Active \in SUBSET Op
      BY Zenon DEF Active
    <2>2. u \in Nat /\ u1 \in Nat /\ Cardinality(Active) \in Nat
      BY <2>1, FiniteSets, Zenon
    <2>3. m \in Nat
      BY <2>2, Sizes, Distribute, Zenon
    <2>4. /\ u1 <= u
          /\ b \notin wrote[o] /\ Cardinality(wrote[o]) < OPBLOCKS => u1 <= u - 1
      <3>1. \A q \in Active : IsFiniteSet(wrote[q])
        BY <2>1, Zenon DEF ReservationOK
      <3>2. \A q \in Active : wrote'[q] = IF q = o THEN wrote[q] \cup {b} ELSE wrote[q]
        BY <1>9, <2>1, Zenon
      <3> QED BY <1>2, <2>1, <3>1, <3>2, UnusedShrinks, Zenon
    <2>5. b \notin Logged(lh) => b \notin wrote[o] /\ Cardinality(wrote[o]) < OPBLOCKS
      BY <1>3, Zenon DEF LoggedOK, ReservationOK
    <2>6. Len(lh) + u + m <= LOGSIZE
      BY <1>2, Zenon DEF ReservationOK
    <2>7. Len(lh) + u < SIZE - 1
      BY Zenon, <1>2, SpaceLeft
    <2>8. Len(lh') + u1 + m <= LOGSIZE /\ Len(lh') <= SIZE - 1
      <3> HIDE DEF u, u1, m
      <3>1. CASE b \in Logged(lh)
        BY <1>4, <2>2, <2>3, <2>4, <2>6, <2>7, <3>1, Sizes
      <3>2. CASE b \notin Logged(lh)
        BY <1>4, <2>2, <2>3, <2>4, <2>5, <2>6, <2>7, <3>2, Sizes
      <3> QED BY <3>1, <3>2, Zenon
    <2>9. Unused(Active, wrote)' = Unused(Active, wrote')
      BY Zenon, <1>7 DEF Unused
    <2>10. \A q \in Op : IsFiniteSet(wrote'[q])
      BY Zenon, <1>9, FS_AddElement DEF ReservationOK
    <2> QED BY <1>7, <1>9, <2>8, <2>9, <2>10, Zenon DEF ReservationOK
  <1> QED BY Zenon, <1>1, <1>6, <1>10, <1>11, <1>12, <1>13, <1>14

\* The end_op() of the last running call, which will commit.
LEMMA EndLastInv ==
  ASSUME LogInv, NEW o \in Op, end_op(o), outstanding = 1 PROVE LogInv'
  <1> USE LogAssumption DEF LogInv
  <1>1. /\ pc' = [pc EXCEPT ![o] = "commit"] /\ pc[o] = "run"
        /\ outstanding' = 0 /\ panicked' = committing /\ committing' = TRUE
        /\ wrote' = [wrote EXCEPT ![o] = {}]
        /\ UNCHANGED <<disk, logBlk, head, cache, dirty, lh, tail, buf>>
    BY DEF end_op, Goto, diskVars, TypeOK
  <1>2. /\ o \in Active /\ Up /\ ~committing /\ Committers = {} /\ head = <<>>
        /\ \A p \in Process : pc[p] \notin {"write_log", "install", "read_head"}
    BY Zenon, <1>1, RunningFacts
  <1>3. Active = {o}
    <2>1. Active \in SUBSET Op
      BY Zenon DEF Active
    <2>2. Cardinality(Active) = 1 /\ IsFiniteSet(Active)
      BY <2>1, FiniteSets, Zenon DEF ControlOK
    <2> QED BY <1>2, <2>2, FS_Singleton
  <1>4. TypeOK' /\ panicked' = FALSE
    <2>1. pc' \in [Process -> PCs] /\ wrote' \in [Op -> SUBSET Block]
      BY <1>1, Zenon DEF TypeOK, PCs
    <2> QED BY <1>1, <1>2, <2>1, Zenon DEF TypeOK
  <1>5. /\ pc'[o] = "commit" /\ wrote'[o] = {}
        /\ \A q \in Op : q # o => pc'[q] = pc[q] /\ wrote'[q] = wrote[q]
    BY Zenon, <1>1 DEF TypeOK, Process
  <1>6. Active' = {} /\ Committers' = {o}
    BY Zenon, <1>2, <1>3, <1>5 DEF Active, Committers
  <1>7. pc'[Boot] = pc[Boot] /\ Up'
    BY <1>1, <1>2, Zenon DEF TypeOK, Process, Up
  <1>8. ControlOK'
    <2>1. outstanding' = Cardinality(Active')
      BY Zenon, <1>1, <1>6, FS_EmptySet
    <2>2. buf[o] = Absent
      <3>1. pc[o] = "append" <=> buf[o] # Absent
        BY Zenon DEF ControlOK
      <3> QED BY <1>1, <3>1, Zenon
    <2> QED BY Zenon, <1>1, <1>2, <1>5, <1>6, <1>7, <2>1, <2>2 DEF ControlOK, Up
  <1>9. LoggedOK'
    <2>1. \A q \in Op : wrote'[q] \subseteq Logged(lh) /\ pc'[q] # "finish"
      BY Zenon, <1>2, <1>5 DEF LoggedOK, Committers
    <2> QED BY <1>1, <1>7, <2>1 DEF LoggedOK, Logged, Up
  <1>10. CacheOK'
    BY Zenon, <1>1, <1>7 DEF CacheOK, Held, Logged
  <1>11. HeaderOK'
    <2>1. Content' = Content
      BY <1>1, Zenon DEF Content
    <2>2. tail[o] = 0
      BY <1>2, Zenon DEF HeaderOK, Process
    <2> QED BY <1>1, <1>2, <1>5, <1>7, <2>1, <2>2 DEF HeaderOK, Process
  <1>12. ReservationOK'
    <2>1. \A q \in Op : IsFiniteSet(wrote'[q])
      BY <1>5, FS_EmptySet, Zenon DEF ReservationOK
    <2>2. buf[o] = Absent
      <3>1. pc[o] = "append" <=> buf[o] # Absent
        BY Zenon DEF ControlOK
      <3> QED BY Zenon, <1>1, <3>1
    <2> QED BY <1>1, <1>5, <1>6, <2>1, <2>2, Zenon DEF ReservationOK
  <1> QED BY <1>4, <1>8, <1>9, <1>10, <1>11, <1>12, Zenon

\* wakeup(&log) by p makes the sleepers ready and moves only them and p.
LEMMA WakeAllFacts ==
  ASSUME TypeOK, NEW p \in Op, NEW l \in PCs, WakeAll(p, l)
  PROVE  /\ pc' \in [Process -> PCs] /\ pc'[p] = l
         /\ \A q \in Process : q # p =>
              pc'[q] = IF pc[q] = "asleep" THEN "woken" ELSE pc[q]
  <1>1. pc \in [Process -> PCs] /\ p \in Process
    BY Zenon DEF TypeOK, Process
  <1>2. "woken" \in PCs
    BY Zenon DEF PCs
  <1> QED BY Zenon, <1>1, <1>2 DEF WakeAll

\* An end_op() that leaves other calls running.
LEMMA EndInv ==
  ASSUME LogInv, NEW o \in Op, end_op(o), outstanding # 1 PROVE LogInv'
  <1> USE LogAssumption DEF LogInv
  <1>1. /\ WakeAll(o, "idle") /\ pc[o] = "run"
        /\ outstanding' = outstanding - 1 /\ panicked' = committing
        /\ wrote' = [wrote EXCEPT ![o] = {}]
        /\ UNCHANGED <<disk, logBlk, head, cache, dirty, lh, committing, tail, buf>>
    BY Zenon DEF end_op, diskVars
  <1>2. /\ o \in Active /\ Up /\ ~committing /\ Committers = {} /\ head = <<>>
        /\ \A p \in Process : pc[p] \notin {"write_log", "install", "read_head"}
    BY <1>1, RunningFacts, Zenon
  <1>3. /\ pc' \in [Process -> PCs] /\ pc'[o] = "idle"
        /\ \A q \in Process : q # o =>
             pc'[q] = IF pc[q] = "asleep" THEN "woken" ELSE pc[q]
    BY <1>1, WakeAllFacts, Zenon DEF PCs
  <1>4. /\ wrote'[o] = {}
        /\ \A q \in Op : q # o => wrote'[q] = wrote[q]
    BY <1>1, Zenon DEF TypeOK
  <1>5. /\ Active' = Active \ {o} /\ Committers' = Committers
        /\ Active \in SUBSET Op /\ Active' \in SUBSET Op
    BY Zenon, <1>2, <1>3 DEF Active, Committers, Process
  <1>6. pc'[Boot] = pc[Boot] /\ Up'
    BY <1>2, <1>3, Zenon DEF Process, Up
  <1>7. /\ IsFiniteSet(Active) /\ Cardinality(Active) \in Nat
        /\ IsFiniteSet(Active') /\ Cardinality(Active') \in Nat
    BY <1>5, FiniteSets, Zenon
  <1>8. Cardinality(Active') = Cardinality(Active) - 1
    BY Zenon, <1>2, <1>5, <1>7, FS_RemoveElement
  <1>9. outstanding = Cardinality(Active) /\ Active' # {}
    <2>1. outstanding = Cardinality(Active)
      BY Zenon DEF ControlOK
    <2>2. Cardinality(Active') # 0
      BY <1>7, <1>8, <2>1
    <2> QED BY <2>1, <2>2, FS_EmptySet, Zenon
  <1>10. TypeOK' /\ panicked' = FALSE
    <2>1. wrote' \in [Op -> SUBSET Block]
      BY <1>1, Zenon DEF TypeOK
    <2>2. outstanding' \in Nat
      BY <1>1, <1>7, <1>8, <1>9, Zenon
    <2> QED BY <1>1, <1>2, <1>3, <2>1, <2>2, Zenon DEF TypeOK
  <1>11. buf[o] = Absent
    <2>1. pc[o] = "append" <=> buf[o] # Absent
      BY Zenon DEF ControlOK
    <2> QED BY <1>1, <2>1, Zenon
  <1>12. ControlOK'
    <2>1. \A q \in Op : q # o =>
            /\ pc'[q] = "append" <=> pc[q] = "append"
            /\ pc'[q] \in {"run", "append"} <=> pc[q] \in {"run", "append"}
      BY Zenon, <1>3 DEF Process
    <2>2. \A q \in Op : pc'[q] # "read_head"
      BY Zenon, <1>2, <1>3 DEF Process
    <2>3. outstanding' = Cardinality(Active')
      BY Zenon, <1>1, <1>8, <1>9
    <2> QED BY Zenon, <1>1, <1>2, <1>3, <1>4, <1>5, <1>6, <1>11, <2>1, <2>2, <2>3
            DEF ControlOK, Up
  <1>13. LoggedOK'
    <2>1. \A q \in Op : wrote'[q] \subseteq Logged(lh)
      BY Zenon, <1>4 DEF LoggedOK
    <2>2. \A q \in Op : pc'[q] # "finish"
      BY <1>2, <1>5, Zenon DEF Committers
    <2> QED BY <1>1, <1>6, <1>9, <2>1, <2>2 DEF LoggedOK, Logged, Up
  <1>14. CacheOK'
    BY Zenon, <1>1, <1>6 DEF CacheOK, Held, Logged
  <1>15. HeaderOK'
    <2>1. \A p \in Process : pc'[p] \notin {"write_log", "install", "read_head"}
      BY <1>2, <1>3, Zenon
    <2> QED BY <1>1, <1>2, <2>1, Zenon DEF HeaderOK, Process
  <1>16. ReservationOK'
    <2> DEFINE u == Cardinality(Unused(Active, wrote))
               u1 == Cardinality(Unused(Active', wrote'))
               n == Cardinality(Active)
    <2>1. u \in Nat /\ u1 \in Nat /\ IsFiniteSet(Unused(Active, wrote))
      BY <1>5, FiniteSets, Zenon
    <2>2. Unused(Active', wrote') \in SUBSET Unused(Active, wrote)
      BY <1>4, <1>5, Zenon DEF Unused
    <2>3. u1 <= u
      BY <2>1, <2>2, FS_Subset, Zenon
    <2>4. (MAXOPBLOCKS - OPBLOCKS) * Cardinality(Active')
            <= (MAXOPBLOCKS - OPBLOCKS) * n
      <3> HIDE DEF n
      <3>1. Cardinality(Active') = n - 1 /\ n \in Nat
        BY <1>7, <1>8, Zenon DEF n
      <3> QED BY <3>1, Sizes
    <2>5. (MAXOPBLOCKS - OPBLOCKS) * n \in Nat
          /\ (MAXOPBLOCKS - OPBLOCKS) * Cardinality(Active') \in Nat
      BY <1>7, Sizes, Distribute, Zenon
    <2>6. Len(lh) + u + (MAXOPBLOCKS - OPBLOCKS) * n <= LOGSIZE
      BY <1>2, Zenon DEF ReservationOK
    <2>7. Len(lh) \in Nat
      BY DEF TypeOK
    <2>8. Len(lh) + u1 + (MAXOPBLOCKS - OPBLOCKS) * Cardinality(Active') <= LOGSIZE
      <3> HIDE DEF u, u1, n
      <3> QED BY <2>1, <2>3, <2>4, <2>5, <2>6, <2>7, Sizes
    <2>9. Unused(Active, wrote)' = Unused(Active', wrote')
      BY Zenon DEF Unused
    <2>10. \A q \in Op : IsFiniteSet(wrote'[q])
      BY <1>4, FS_EmptySet, Zenon DEF ReservationOK
    <2> QED BY <1>1, <1>4, <1>11, <2>8, <2>9, <2>10, Zenon DEF ReservationOK
  <1> QED BY Zenon, <1>10, <1>12, <1>13, <1>14, <1>15, <1>16

==============================================================================
