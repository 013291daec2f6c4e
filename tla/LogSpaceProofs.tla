--------------------------- MODULE LogSpaceProofs ---------------------------
(***************************************************************************)
(* The reservation of begin_op is enough for any number of processes and   *)
(* any sizes, as long as operations keep to it; they need not.             *)
(*                                                                         *)
(* The argument counts credits.  Let no operation have logged more than K  *)
(* blocks.  Then each one under way holds a credit for every block that it *)
(* may log before it has logged K.  Entries and credits together stay      *)
(* below the size, because an operation that begins beside another one     *)
(* leaves two times the difference between MAXOPBLOCKS and K, and one that *)
(* begins alone finds the log empty.                                       *)
(***************************************************************************)
EXTENDS LogSpace, FiniteSetTheorems, TLAPS

(* The sizes of param.h and mkfs.c satisfy this.  How much an operation    *)
(* writes is not restricted.                                               *)
Sizes ==
    /\ IsFiniteSet(Procs)
    /\ LOGSIZE \in Nat /\ NLog \in Nat /\ MAXOPBLOCKS \in Nat \ {0} /\ OpBlocks \in Nat
    /\ MAXOPBLOCKS <= LOGSIZE /\ LOGSIZE <= NLog /\ MAXOPBLOCKS < NLog

TypeOK ==
    /\ n \in Nat /\ committing \in BOOLEAN /\ panicked \in BOOLEAN
    /\ state \in [Procs -> {"out", "in", "append", "absorb"}]
    /\ used \in [Procs -> Nat] /\ peak \in Nat

(* What holds whatever the operations write. *)
BaseInv ==
    /\ TypeOK
    /\ \A p \in Procs : /\ used[p] <= peak
                        /\ state[p] = "append" => used[p] > 0
                        /\ state[p] = "out" => used[p] = 0
    /\ committing => Inside = {}
    /\ Inside = {} /\ ~committing => n = 0

(* Blocks of p that are in the log, or were when p logged them *)
Entered(p) == IF state[p] = "append" THEN used[p] - 1 ELSE used[p]

Credits(K) == {c \in Inside \X (1..K) : c[2] > Entered(c[1])}

(* The bound on the entries that the log has or may still get before it is *)
(* committed, if no operation logs more than K blocks                      *)
Fits(K, e) == e <= K \/ e <= LOGSIZE - 2 * (MAXOPBLOCKS - K)

SpaceInv(K) ==
    peak <= K => /\ Fits(K, n + Cardinality(Credits(K)))
                 /\ K < MAXOPBLOCKS => ~panicked

IInv(K) == BaseInv /\ SpaceInv(K)

(* Credits of a set S of operations are at most K for each.                *)
LEMMA CreditsBounded ==
    ASSUME Sizes, NEW K \in Nat, NEW S \in SUBSET Procs, NEW C \in SUBSET (S \X (1..K))
    PROVE  /\ IsFiniteSet(S) /\ Cardinality(S) \in Nat
           /\ IsFiniteSet(C) /\ Cardinality(C) \in Nat
           /\ Cardinality(C) <= Cardinality(S) * K
  <1>1. IsFiniteSet(S)
    BY FS_Subset DEF Sizes
  <1>2. /\ IsFiniteSet(1..K)
        /\ Cardinality(1..K) = K
    BY FS_Interval
  <1>3. /\ IsFiniteSet(S \X (1..K))
        /\ Cardinality(S \X (1..K)) = Cardinality(S) * K
    BY <1>1, <1>2, FS_Product, Zenon
  <1>4. IsFiniteSet(C) /\ Cardinality(C) <= Cardinality(S) * K
    BY <1>3, FS_Subset
  <1> QED
    BY <1>1, <1>4, FS_CardinalityType

(* In particular the credits of the operations under way.                  *)
LEMMA CreditsFinite ==
    ASSUME Sizes, NEW K \in Nat
    PROVE  /\ IsFiniteSet(Inside) /\ outstanding \in Nat
           /\ IsFiniteSet(Credits(K)) /\ Cardinality(Credits(K)) \in Nat
  BY CreditsBounded DEF Inside, Credits, outstanding

(* Every step of begin_op, log_write, end_op and commit keeps BaseInv.     *)
LEMMA BaseInductive == ASSUME Sizes, BaseInv, [Next]_vars PROVE BaseInv'
  <1> USE DEF BaseInv, TypeOK, Inside
  <1>1. ASSUME NEW p \in Procs, BeginOp(p)  PROVE BaseInv'
    BY <1>1 DEF BeginOp, MayBegin
  <1>2. ASSUME NEW p \in Procs, NEW own \in BOOLEAN, NEW fresh \in BOOLEAN,
               Modify(p, own, fresh)
        PROVE  BaseInv'
    <2>1. /\ used'[p] \in Nat /\ used'[p] >= used[p] /\ (fresh => used'[p] > 0)
          /\ peak' \in Nat /\ used'[p] <= peak' /\ peak <= peak'
      BY <1>2 DEF Modify
    <2>2. /\ panicked' \in BOOLEAN /\ Inside' = Inside
      BY <1>2 DEF Modify
    <2>3. TypeOK'
      BY <1>2, <2>1, <2>2 DEF Modify
    <2>4. ASSUME NEW q \in Procs
          PROVE  /\ used'[q] <= peak'
                 /\ state'[q] = "append" => used'[q] > 0
                 /\ state'[q] = "out" => used'[q] = 0
      BY <1>2, <2>1 DEF Modify
    <2> QED
      BY <1>2, <2>2, <2>3, <2>4 DEF Modify
  <1>3. ASSUME NEW p \in Procs, LogWrite(p)  PROVE BaseInv'
    BY <1>3 DEF LogWrite
  <1>4. ASSUME NEW p \in Procs, EndOp(p)  PROVE BaseInv'
    <2>1. Inside' = Inside \ {p} /\ p \in Inside /\ n' = n /\ peak' = peak
      BY <1>4 DEF EndOp
    <2>2. ~committing /\ (committing' <=> Inside' = {})
      BY <1>4, <2>1, Zenon DEF EndOp
    <2>3. panicked' \in BOOLEAN /\ committing' \in BOOLEAN
      BY <1>4, <2>2, Zenon DEF EndOp
    <2>4. TypeOK'
      BY <1>4, <2>1, <2>3 DEF EndOp
    <2>5. ASSUME NEW q \in Procs
          PROVE  /\ used'[q] <= peak'
                 /\ state'[q] = "append" => used'[q] > 0
                 /\ state'[q] = "out" => used'[q] = 0
      BY <1>4, <2>1, <2>3 DEF EndOp
    <2> QED
      BY <2>1, <2>2, <2>4, <2>5, Zenon
  <1>5. CASE Erase \/ Finish \/ Restart
    <2>1. Inside' = {} /\ n' = 0 /\ panicked' \in BOOLEAN /\ committing' \in BOOLEAN
      <3>1. Inside' = {} /\ n' = 0
        BY <1>5 DEF Erase, Finish, Restart
      <3>2. panicked' \in BOOLEAN /\ committing' \in BOOLEAN
        BY <1>5, Zenon DEF Erase, Finish, Restart
      <3> QED
        BY <3>1, <3>2, Zenon
    <2>2. /\ state' \in [Procs -> {"out", "in", "append", "absorb"}]
          /\ used' \in [Procs -> Nat] /\ peak' \in Nat
          /\ \A q \in Procs : state'[q] = "out" /\ used'[q] = 0
      <3>1. CASE Erase \/ Finish
        BY <1>5, <3>1 DEF Erase, Finish
      <3>2. CASE Restart
        BY <3>2 DEF Restart
      <3> QED
        BY <1>5, <3>1, <3>2
    <2> QED
      BY <2>1, <2>2
  <1>7. CASE UNCHANGED vars
    BY <1>7 DEF vars
  <1> QED
    BY <1>1, <1>2, <1>3, <1>4, <1>5, <1>7 DEF Next

(* And, for each K, what follows while no operation logs more than K.      *)
LEMMA Inductive ==
    ASSUME Sizes, NEW K \in 0 .. MAXOPBLOCKS, IInv(K), [Next]_vars
    PROVE  IInv(K)'
  <1>0. /\ IsFiniteSet(Inside) /\ outstanding \in Nat
        /\ IsFiniteSet(Credits(K)) /\ Cardinality(Credits(K)) \in Nat
        /\ LOGSIZE \in Nat /\ NLog \in Nat /\ MAXOPBLOCKS \in Nat
        /\ K \in Nat /\ K <= MAXOPBLOCKS
    BY CreditsFinite DEF Sizes
  <1>9. BaseInv /\ BaseInv'
    BY BaseInductive DEF IInv
  <1> USE <1>9 DEF BaseInv, TypeOK
  <1> SUFFICES ASSUME peak' <= K
               PROVE  /\ Fits(K, n' + Cardinality(Credits(K)'))
                      /\ K < MAXOPBLOCKS => ~panicked'
    BY DEF IInv, SpaceInv
  <1>8. peak <= K =>  /\ Fits(K, n + Cardinality(Credits(K)))
                      /\ K < MAXOPBLOCKS => ~panicked
    BY DEF IInv, SpaceInv
  <1> DEFINE Goal == /\ Fits(K, n' + Cardinality(Credits(K)'))
                     /\ K < MAXOPBLOCKS => ~panicked'
  <1>1. ASSUME NEW p \in Procs, BeginOp(p)  PROVE Goal
    <2>1. n' = n /\ ~committing /\ ~panicked /\ ~panicked' /\ peak' = peak
      BY <1>1 DEF BeginOp, MayBegin
    <2>2. Inside' = Inside \cup {p} /\ p \notin Inside
      BY <1>1 DEF BeginOp, Inside
    <2>3. outstanding' = outstanding + 1
      BY <2>2, <1>0, FS_AddElement, Zenon DEF outstanding
    <2>4. Cardinality(Credits(K)') <= outstanding' * K /\ Cardinality(Credits(K)') \in Nat
      <3>1. Inside' \in SUBSET Procs /\ Credits(K)' \in SUBSET (Inside' \X (1..K))
        BY DEF Inside, Credits
      <3> QED
        BY <3>1, <1>0, CreditsBounded DEF outstanding
    <2>5. n + (outstanding + 1) * MAXOPBLOCKS <= LOGSIZE
      BY <1>1 DEF BeginOp, MayBegin
    <2>6. CASE Inside = {}
      <3>1. n = 0 /\ outstanding = 0
        BY <2>1, <2>6, FS_EmptySet DEF outstanding
      <3> QED
        BY <2>1, <2>3, <2>4, <3>1, <1>0 DEF Fits
    <2>7. CASE Inside # {}
      <3> DEFINE o == outstanding + 1
                 d == MAXOPBLOCKS - K
      <3>1. o \in Nat /\ o >= 2 /\ d \in Nat
        BY <2>7, <1>0, FS_EmptySet DEF outstanding
      <3>2. o * MAXOPBLOCKS = o * K + o * d
        BY <3>1, <1>0
      <3>3. o * d >= 2 * d /\ o * K \in Nat /\ o * d \in Nat
        BY <3>1, <1>0
      <3>4. Cardinality(Credits(K)') <= o * K /\ n + o * MAXOPBLOCKS <= LOGSIZE
        BY <2>3, <2>4, <2>5
      <3> HIDE DEF o, d
      <3>5. n + Cardinality(Credits(K)') <= LOGSIZE - 2 * d
        BY <2>4, <3>1, <3>2, <3>3, <3>4, <1>0
      <3> QED
        BY <2>1, <3>5, <1>0 DEF Fits, d
    <2> QED
      BY <2>6, <2>7
  <1>2. ASSUME NEW p \in Procs, NEW own \in BOOLEAN, NEW fresh \in BOOLEAN,
               Modify(p, own, fresh)
        PROVE  Goal
    <2>1. /\ Inside' = Inside /\ p \in Inside /\ n' = n
          /\ used'[p] \in Nat /\ peak' >= used'[p] /\ peak <= peak'
      BY <1>2 DEF Modify, Inside
    <2>2. Credits(K)' \in SUBSET Credits(K)
      BY <1>2, <2>1, <1>0 DEF Modify, Credits, Entered, Inside
    <2>3. Cardinality(Credits(K)') <= Cardinality(Credits(K)) /\ Cardinality(Credits(K)') \in Nat
      BY <2>2, <1>0, FS_Subset, FS_CardinalityType
    <2>4. Fits(K, n + Cardinality(Credits(K)))
      BY <2>1, <1>8, <1>0
    <2>5. ASSUME K < MAXOPBLOCKS PROVE ~panicked'
      <3>1. outstanding # 0
        BY <2>1, <1>0, FS_EmptySet DEF outstanding
      <3>2. n < LOGSIZE /\ n < NLog - 1
        BY <2>4, <2>5, <1>0 DEF Fits, Sizes
      <3> QED
        BY <1>2, <3>1, <3>2, <1>0 DEF Modify, LogFull
    <2> QED
      BY <2>1, <2>3, <2>4, <2>5, <1>0 DEF Fits
  <1>3. ASSUME NEW p \in Procs, LogWrite(p)  PROVE Goal
    <2>1. /\ Inside' = Inside /\ p \in Inside /\ peak' = peak
          /\ ~panicked /\ panicked' = panicked
      BY <1>3 DEF LogWrite, Inside
    <2>2. Fits(K, n + Cardinality(Credits(K)))
      BY <2>1, <1>8
    <2>3. CASE state[p] = "absorb"
      <3>1. n' = n /\ Credits(K)' = Credits(K)
        BY <1>3, <2>1, <2>3 DEF LogWrite, Credits, Entered, Inside
      <3> QED
        BY <2>1, <2>2, <3>1
    <2>4. CASE state[p] = "append"
      <3> DEFINE c == <<p, used[p]>>
      <3>1. /\ Entered(p) = used[p] - 1 /\ used[p] \in Nat /\ used[p] > 0
            /\ used[p] <= K /\ n' = n + 1
        BY <1>3, <2>1, <2>4, <1>0 DEF LogWrite, Entered
      <3>2. c \in Credits(K)
        BY <2>1, <3>1, <1>0 DEF Credits
      <3>3. Credits(K)' = Credits(K) \ {c}
        BY <1>3, <2>1, <2>4, <3>1, <1>0 DEF LogWrite, Credits, Entered, Inside
      <3> HIDE DEF c
      <3>4. Cardinality(Credits(K)') = Cardinality(Credits(K)) - 1
        BY <3>2, <3>3, <1>0, FS_RemoveElement, Zenon
      <3>5. n' + Cardinality(Credits(K)') = n + Cardinality(Credits(K))
        BY <3>1, <3>4, <1>0
      <3> QED
        BY <2>1, <2>2, <3>5
    <2> QED
      BY <1>3, <2>3, <2>4 DEF LogWrite
  <1>4. ASSUME NEW p \in Procs, EndOp(p)  PROVE Goal
    <2>1. Inside' = Inside \ {p} /\ p \in Inside /\ n' = n /\ peak' = peak
      BY <1>4 DEF EndOp, Inside
    <2>2. Credits(K)' \in SUBSET Credits(K)
      BY <1>4, <2>1 DEF EndOp, Credits, Entered, Inside
    <2>3. Cardinality(Credits(K)') <= Cardinality(Credits(K)) /\ Cardinality(Credits(K)') \in Nat
      BY <2>2, <1>0, FS_Subset, FS_CardinalityType
    <2>4. ~panicked'
      BY <1>4, <2>1, Zenon DEF EndOp
    <2> QED
      BY <2>1, <2>3, <2>4, <1>8, <1>0 DEF Fits
  <1>5. CASE Erase \/ Finish \/ Restart
    <2>1. Inside' = {} /\ n' = 0 /\ ~panicked'
      BY <1>5 DEF Erase, Finish, Restart, Inside
    <2>2. Credits(K)' = {}
      BY <2>1 DEF Credits
    <2> QED
      BY <2>1, <2>2, <1>0, FS_EmptySet DEF Fits
  <1>6. CASE UNCHANGED vars
    <2>1. Credits(K)' = Credits(K)
      BY <1>6 DEF vars, Inside, Credits, Entered
    <2> QED
      BY <1>6, <2>1, <1>8 DEF vars
  <1> QED
    BY <1>1, <1>2, <1>3, <1>4, <1>5, <1>6 DEF Next

(* The two values of K that matter. *)
BothInv == IInv(MAXOPBLOCKS) /\ IInv(MAXOPBLOCKS - 1)

(* For any number of processes, all sizes and whatever the operations      *)
(* write: while none has logged more than MAXOPBLOCKS blocks, the entries  *)
(* fit logheader.block[]; while none has logged that many, log_write and   *)
(* end_op do not panic and the entries fit the log (log.c:132, 216).       *)
THEOREM ReservationSafe == Sizes => (Spec => []ReservationSuffices)
  <1> SUFFICES ASSUME Sizes PROVE Spec => []ReservationSuffices
    OBVIOUS
  <1>0. /\ MAXOPBLOCKS \in 0 .. MAXOPBLOCKS /\ MAXOPBLOCKS - 1 \in 0 .. MAXOPBLOCKS
        /\ MAXOPBLOCKS \in Nat /\ MAXOPBLOCKS - 1 \in Nat
        /\ LOGSIZE \in Nat /\ NLog \in Nat
    BY DEF Sizes
  <1>1. Init => BothInv
    <2> SUFFICES ASSUME Init PROVE BothInv
      OBVIOUS
    <2>1. Inside = {}
      BY DEF Init, Inside
    <2>2. committing \in BOOLEAN /\ panicked \in BOOLEAN
      BY Zenon DEF Init
    <2>3. BaseInv
      BY <2>1, <2>2 DEF Init, BaseInv, TypeOK
    <2>4. ASSUME NEW K \in Nat PROVE SpaceInv(K)
      <3>1. Credits(K) = {}
        BY <2>1 DEF Credits
      <3> QED
        BY <3>1, FS_EmptySet DEF SpaceInv, Fits, Init
    <2> QED
      BY <2>3, <2>4, <1>0 DEF BothInv, IInv
  <1>2. BothInv /\ [Next]_vars => BothInv'
    BY <1>0, Inductive DEF BothInv
  <1>3. BothInv => ReservationSuffices
    <2> SUFFICES ASSUME BothInv PROVE ReservationSuffices
      OBVIOUS
    <2>1. n \in Nat /\ peak \in Nat
      BY DEF BothInv, IInv, BaseInv, TypeOK
    <2>2. Cardinality(Credits(MAXOPBLOCKS)) \in Nat /\ Cardinality(Credits(MAXOPBLOCKS - 1)) \in Nat
      BY <1>0, CreditsFinite
    <2>3. peak <= MAXOPBLOCKS => n <= LOGSIZE
      BY <1>0, <2>1, <2>2 DEF BothInv, IInv, SpaceInv, Fits, Sizes
    <2>4. peak < MAXOPBLOCKS => NoPanic /\ n <= NLog - 1
      BY <1>0, <2>1, <2>2 DEF BothInv, IInv, SpaceInv, Fits, Sizes, NoPanic
    <2> QED
      BY <2>3, <2>4 DEF ReservationSuffices
  <1> QED
    BY <1>1, <1>2, <1>3, PTL DEF Spec

=============================================================================
