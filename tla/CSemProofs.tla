----------------------------- MODULE CSemProofs -----------------------------
(***************************************************************************)
(* The counting semaphore of uthread.c is correct for any set of threads,  *)
(* any initial value and any number of calls: proofs of the invariants of  *)
(* CSem and of the safety part of its refinement of CountingSem.           *)
(*                                                                         *)
(* None of the invariants is inductive alone.  What carries them is the    *)
(* bookkeeping of a token: while val > 0 exactly one party is entitled to  *)
(* let the next thread through the gate, either the free gate itself or    *)
(* one thread on its way from the gate to val-- or on its way to open it.  *)
(***************************************************************************)
EXTENDS CSem, TLAPS

(* Membership of a queue, as BinSem's Waiting states it. *)
In(q, t) == \E i \in 1..Len(q) : q[i] = t

(* bsem_down puts the caller, and nobody else, into the list. *)
LEMMA AppendFacts ==
    ASSUME NEW q \in Seq(Threads), NEW t \in Threads, NoDuplicates(q), ~In(q, t)
    PROVE  /\ Append(q, t) \in Seq(Threads)
           /\ NoDuplicates(Append(q, t))
           /\ \A u : In(Append(q, t), u) <=> In(q, u) \/ u = t
  <1> DEFINE r == Append(q, t)
  <1>1. r \in Seq(Threads) /\ Len(r) = Len(q) + 1 /\ r[Len(q) + 1] = t
    OBVIOUS
  <1>2. \A i \in 1..Len(q) : r[i] = q[i]
    OBVIOUS
  <1>3. NoDuplicates(r)
    BY <1>1, <1>2 DEF NoDuplicates, In
  <1>4. \A u : In(r, u) <=> In(q, u) \/ u = t
    BY <1>1, <1>2 DEF In
  <1> QED
    BY <1>1, <1>3, <1>4

(* bsem_up takes the longest waiter, and nobody else, out of the list. *)
LEMMA TailFacts ==
    ASSUME NEW q \in Seq(Threads), q # <<>>, NoDuplicates(q)
    PROVE  /\ Tail(q) \in Seq(Threads)
           /\ NoDuplicates(Tail(q))
           /\ q[1] \in Threads /\ In(q, q[1])
           /\ \A u : In(Tail(q), u) <=> In(q, u) /\ u # q[1]
  <1> DEFINE r == Tail(q)
  <1>1. /\ r \in Seq(Threads) /\ Len(r) = Len(q) - 1
        /\ Len(q) \in Nat /\ Len(q) >= 1 /\ q[1] \in Threads
    OBVIOUS
  <1>2. \A i \in 1..Len(r) : r[i] = q[i + 1]
    OBVIOUS
  <1>3. NoDuplicates(r)
    BY <1>1, <1>2 DEF NoDuplicates
  <1>4. \A u : In(r, u) => In(q, u) /\ u # q[1]
    BY <1>1, <1>2 DEF In, NoDuplicates
  <1>5. ASSUME NEW u, In(q, u), u # q[1]  PROVE In(r, u)
    <2>1. PICK i \in 1..Len(q) : q[i] = u
      BY <1>5 DEF In
    <2>2. i # 1 /\ i - 1 \in 1..Len(r) /\ r[i - 1] = q[i]
      BY <2>1, <1>1, <1>2, <1>5
    <2> QED
      BY <2>1, <2>2 DEF In
  <1> QED
    BY <1>1, <1>3, <1>4, <1>5 DEF In

-----------------------------------------------------------------------------
(* Who waits after one call of bsem_down or bsem_up on s1 and on s2. *)

LEMMA S1Down ==
    ASSUME TypeOK, NoDuplicates(q1), NEW t \in Threads, S1!Down(t)
    PROVE  /\ s1' = 0 /\ q1' \in Seq(Threads) /\ NoDuplicates(q1')
           /\ s1 = 1 => /\ q1' = q1
                        /\ \A u \in Threads : S1!Waiting(u)' <=> S1!Waiting(u)
           /\ s1 = 0 => \A u \in Threads :
                           S1!Waiting(u)' <=> S1!Waiting(u) \/ u = t
  <1>1. \A u : (S1!Waiting(u) <=> In(q1, u)) /\ (S1!Waiting(u)' <=> In(q1', u))
    BY DEF S1!Waiting, In
  <1>2. CASE S1!Take
    BY <1>1, <1>2 DEF S1!Take, TypeOK, In
  <1>3. CASE S1!Wait(t)
    <2>1. ~In(q1, t)
      BY <1>1 DEF S1!Down
    <2>2. /\ q1' \in Seq(Threads) /\ NoDuplicates(q1')
          /\ \A u : In(q1', u) <=> In(q1, u) \/ u = t
      BY <1>3, <2>1, AppendFacts DEF S1!Wait, TypeOK
    <2> QED
      BY <1>1, <1>3, <2>2 DEF S1!Wait
  <1> QED
    BY <1>2, <1>3 DEF S1!Down

LEMMA S2Down ==
    ASSUME TypeOK, NoDuplicates(q2), NEW t \in Threads, S2!Down(t)
    PROVE  /\ s2' = 0 /\ q2' \in Seq(Threads) /\ NoDuplicates(q2')
           /\ s2 = 1 => /\ q2' = q2
                        /\ \A u \in Threads : S2!Waiting(u)' <=> S2!Waiting(u)
           /\ s2 = 0 => \A u \in Threads :
                           S2!Waiting(u)' <=> S2!Waiting(u) \/ u = t
  <1>1. \A u : (S2!Waiting(u) <=> In(q2, u)) /\ (S2!Waiting(u)' <=> In(q2', u))
    BY DEF S2!Waiting, In
  <1>2. CASE S2!Take
    BY <1>1, <1>2 DEF S2!Take, TypeOK, In
  <1>3. CASE S2!Wait(t)
    <2>1. ~In(q2, t)
      BY <1>1 DEF S2!Down
    <2>2. /\ q2' \in Seq(Threads) /\ NoDuplicates(q2')
          /\ \A u : In(q2', u) <=> In(q2, u) \/ u = t
      BY <1>3, <2>1, AppendFacts DEF S2!Wait, TypeOK
    <2> QED
      BY <1>1, <1>3, <2>2 DEF S2!Wait
  <1> QED
    BY <1>2, <1>3 DEF S2!Down

(* On a taken semaphore bsem_up either frees it or wakes one thread. *)
LEMMA S1Up ==
    ASSUME TypeOK, NoDuplicates(q1), s1 = 0, S1!Up
    PROVE  /\ q1' \in Seq(Threads) /\ NoDuplicates(q1')
           /\ \/ /\ s1' = 1 /\ q1 = <<>> /\ q1' = <<>>
                 /\ \A u \in Threads : ~S1!Waiting(u) /\ ~S1!Waiting(u)'
              \/ /\ s1' = 0
                 /\ \E h \in Threads :
                      /\ S1!Waiting(h)
                      /\ \A u \in Threads :
                           S1!Waiting(u)' <=> S1!Waiting(u) /\ u # h
  <1>1. CASE S1!Release
    BY <1>1 DEF S1!Release, S1!Waiting, TypeOK, NoDuplicates
  <1>2. CASE S1!HandOff
    <2>1. /\ q1' \in Seq(Threads) /\ NoDuplicates(q1')
          /\ q1[1] \in Threads /\ In(q1, q1[1])
          /\ \A u : In(q1', u) <=> In(q1, u) /\ u # q1[1]
      BY <1>2, TailFacts DEF S1!HandOff, TypeOK
    <2>2. \A u : (S1!Waiting(u) <=> In(q1, u)) /\ (S1!Waiting(u)' <=> In(q1', u))
      BY DEF S1!Waiting, In
    <2> QED
      BY <1>2, <2>1, <2>2 DEF S1!HandOff
  <1> QED
    BY <1>1, <1>2 DEF S1!Up, S1!UpFree

LEMMA S2Up ==
    ASSUME TypeOK, NoDuplicates(q2), s2 = 0, S2!Up
    PROVE  /\ q2' \in Seq(Threads) /\ NoDuplicates(q2')
           /\ \/ /\ s2' = 1 /\ q2 = <<>> /\ q2' = <<>>
                 /\ \A u \in Threads : ~S2!Waiting(u) /\ ~S2!Waiting(u)'
              \/ /\ s2' = 0
                 /\ \E h \in Threads :
                      /\ S2!Waiting(h)
                      /\ \A u \in Threads :
                           S2!Waiting(u)' <=> S2!Waiting(u) /\ u # h
  <1>1. CASE S2!Release
    BY <1>1 DEF S2!Release, S2!Waiting, TypeOK, NoDuplicates
  <1>2. CASE S2!HandOff
    <2>1. /\ q2' \in Seq(Threads) /\ NoDuplicates(q2')
          /\ q2[1] \in Threads /\ In(q2, q2[1])
          /\ \A u : In(q2', u) <=> In(q2, u) /\ u # q2[1]
      BY <1>2, TailFacts DEF S2!HandOff, TypeOK
    <2>2. \A u : (S2!Waiting(u) <=> In(q2, u)) /\ (S2!Waiting(u)' <=> In(q2', u))
      BY DEF S2!Waiting, In
    <2> QED
      BY <1>2, <2>1, <2>2 DEF S2!HandOff
  <1> QED
    BY <1>1, <1>2 DEF S2!Up, S2!UpFree

LEMMA EmptyS1 == q1 = <<>> => \A u \in Threads : ~S1!Waiting(u)
  BY Len(<<>>) = 0 DEF S1!Waiting

LEMMA EmptyS2 == q2 = <<>> => \A u \in Threads : ~S2!Waiting(u)
  BY Len(<<>>) = 0 DEF S2!Waiting

LEMMA S1Same == q1' = q1 => \A u \in Threads : S1!Waiting(u)' <=> S1!Waiting(u)
  BY DEF S1!Waiting

LEMMA S2Same == q2' = q2 => \A u \in Threads : S2!Waiting(u)' <=> S2!Waiting(u)
  BY DEF S2!Waiting

-----------------------------------------------------------------------------
(* The inductive invariant *)

LEMMA InitIInv == Init => IInv
  <1> SUFFICES ASSUME Init PROVE IInv
    OBVIOUS
  <1> USE InitValAssumption DEF Init
  <1>1. TypeOK
    BY DEF TypeOK, Labels
  <1>2. \A t \in Threads : ~S1!Waiting(t) /\ ~S2!Waiting(t)
    BY EmptyS1, EmptyS2, Zenon
  <1>3. QueuesInv
    BY <1>2 DEF QueuesInv, NoDuplicates
  <1>4. LockInv
    BY DEF LockInv, InLock, ValIsLocked
  <1>5. GateInv
    BY <1>2 DEF GateInv, HasToken
  <1> QED
    BY <1>1, <1>3, <1>4, <1>5 DEF IInv

(* One step per statement of down() and up(). *)
LEMMA StepIInv == IInv /\ [Next]_vars => IInv'
  <1> SUFFICES ASSUME IInv, [Next]_vars PROVE IInv'
    OBVIOUS
  <1> USE DEF IInv
  <1>1. ASSUME NEW t \in Threads, CallDown(t) PROVE IInv'
    <2> USE <1>1, S1Same, S2Same DEF CallDown, Goto, Asleep
    <2>1. TypeOK'
      BY DEF TypeOK, Labels, DownLabels, UpLabels, QueuesInv
    <2>2. QueuesInv'
      BY DEF TypeOK, QueuesInv
    <2>3. LockInv'
      BY DEF TypeOK, QueuesInv, LockInv, InLock, ValIsLocked
    <2>4. GateInv'
      BY DEF TypeOK, QueuesInv, GateInv, HasToken, LockInv, InLock, ValIsLocked
    <2> QED
      BY <2>1, <2>2, <2>3, <2>4
  <1>2. ASSUME NEW t \in Threads, CallUp(t) PROVE IInv'
    <2> USE <1>2, S1Same, S2Same DEF CallUp, Goto, Asleep
    <2>1. TypeOK'
      BY DEF TypeOK, Labels, DownLabels, UpLabels, QueuesInv
    <2>2. QueuesInv'
      BY DEF TypeOK, QueuesInv
    <2>3. LockInv'
      BY DEF TypeOK, QueuesInv, LockInv, InLock, ValIsLocked
    <2>4. GateInv'
      BY DEF TypeOK, QueuesInv, GateInv, HasToken, LockInv, InLock, ValIsLocked
    <2> QED
      BY <2>1, <2>2, <2>3, <2>4
  <1>3. ASSUME NEW t \in Threads, DownGate(t) PROVE IInv'
    <2> USE <1>3, S1Same, S2Down DEF DownGate, Goto, Asleep
    <2>1. TypeOK'
      BY DEF TypeOK, Labels, DownLabels, UpLabels, QueuesInv
    <2>2. QueuesInv'
      BY DEF TypeOK, QueuesInv
    <2>3. LockInv'
      BY DEF TypeOK, QueuesInv, LockInv, InLock, ValIsLocked
    <2>4. GateInv'
      BY DEF TypeOK, QueuesInv, GateInv, HasToken, LockInv, InLock, ValIsLocked
    <2> QED
      BY <2>1, <2>2, <2>3, <2>4
  <1>4. ASSUME NEW t \in Threads, DownLock(t) PROVE IInv'
    <2> USE <1>4, S1Down, S2Same DEF DownLock, Goto, Asleep
    <2>1. TypeOK'
      BY DEF TypeOK, Labels, DownLabels, UpLabels, QueuesInv
    <2>2. QueuesInv'
      BY DEF TypeOK, QueuesInv
    <2>3. LockInv'
      BY DEF TypeOK, QueuesInv, LockInv, InLock, ValIsLocked
    <2>4. GateInv'
      BY DEF TypeOK, QueuesInv, GateInv, HasToken, LockInv, InLock, ValIsLocked
    <2> QED
      BY <2>1, <2>2, <2>3, <2>4
  <1>5. ASSUME NEW t \in Threads, DownDec(t) PROVE IInv'
    <2> USE <1>5, S1Same, S2Same DEF DownDec, Goto, Asleep
    <2>1. TypeOK'
      BY DEF TypeOK, Labels, DownLabels, UpLabels, QueuesInv
    <2>2. QueuesInv'
      BY DEF TypeOK, QueuesInv
    <2>3. LockInv'
      BY DEF TypeOK, QueuesInv, LockInv, InLock, ValIsLocked
    <2>4. GateInv'
      BY DEF TypeOK, QueuesInv, GateInv, HasToken, LockInv, InLock, ValIsLocked
    <2> QED
      BY <2>1, <2>2, <2>3, <2>4
  <1>6. ASSUME NEW t \in Threads, DownTest(t) PROVE IInv'
    <2> USE <1>6, S1Same, S2Same DEF DownTest, Goto, Asleep
    <2>1. TypeOK'
      BY DEF TypeOK, Labels, DownLabels, UpLabels, QueuesInv
    <2>2. QueuesInv'
      BY DEF TypeOK, QueuesInv
    <2>3. LockInv'
      BY DEF TypeOK, QueuesInv, LockInv, InLock, ValIsLocked
    <2>4. GateInv'
      BY DEF TypeOK, QueuesInv, GateInv, HasToken, LockInv, InLock, ValIsLocked
    <2> QED
      BY <2>1, <2>2, <2>3, <2>4
  <1>7. ASSUME NEW t \in Threads, DownReopen(t) PROVE IInv'
    <2> USE <1>7 DEF DownReopen, Goto, Asleep
    <2>1. s2 = 0
      BY DEF GateInv, HasToken
    <2>2. /\ q2' \in Seq(Threads) /\ NoDuplicates(q2')
          /\ \A u \in Threads : S1!Waiting(u)' <=> S1!Waiting(u)
          /\ \/ /\ s2' = 1 /\ q2 = <<>> /\ q2' = <<>>
                /\ \A u \in Threads : ~S2!Waiting(u) /\ ~S2!Waiting(u)'
             \/ /\ s2' = 0
                /\ \E h \in Threads :
                     /\ S2!Waiting(h)
                     /\ \A u \in Threads :
                          S2!Waiting(u)' <=> S2!Waiting(u) /\ u # h
      BY <2>1, S2Up, S1Same DEF QueuesInv
    <2>3. TypeOK'
      BY <2>1, <2>2 DEF TypeOK, Labels, DownLabels, UpLabels, QueuesInv
    <2>4. QueuesInv'
      BY <2>1, <2>2 DEF TypeOK, QueuesInv
    <2>5. LockInv'
      BY <2>1, <2>2 DEF TypeOK, QueuesInv, LockInv, InLock, ValIsLocked
    <2>6. GateInv'
      BY <2>1, <2>2 DEF TypeOK, QueuesInv, GateInv, HasToken, LockInv, InLock, ValIsLocked
    <2> QED
      BY <2>3, <2>4, <2>5, <2>6
  <1>8. ASSUME NEW t \in Threads, DownUnlock(t) PROVE IInv'
    <2> USE <1>8 DEF DownUnlock, Goto, Asleep
    <2>1. s1 = 0
      BY DEF LockInv, InLock, QueuesInv
    <2>2. /\ q1' \in Seq(Threads) /\ NoDuplicates(q1')
          /\ \A u \in Threads : S2!Waiting(u)' <=> S2!Waiting(u)
          /\ \/ /\ s1' = 1 /\ q1 = <<>> /\ q1' = <<>>
                /\ \A u \in Threads : ~S1!Waiting(u) /\ ~S1!Waiting(u)'
             \/ /\ s1' = 0
                /\ \E h \in Threads :
                     /\ S1!Waiting(h)
                     /\ \A u \in Threads :
                          S1!Waiting(u)' <=> S1!Waiting(u) /\ u # h
      BY <2>1, S1Up, S2Same DEF QueuesInv
    <2>3. TypeOK'
      BY <2>1, <2>2 DEF TypeOK, Labels, DownLabels, UpLabels, QueuesInv
    <2>4. QueuesInv'
      BY <2>1, <2>2 DEF TypeOK, QueuesInv
    <2>5. LockInv'
      BY <2>1, <2>2 DEF TypeOK, QueuesInv, LockInv, InLock, ValIsLocked
    <2>6. GateInv'
      BY <2>1, <2>2 DEF TypeOK, QueuesInv, GateInv, HasToken, LockInv, InLock, ValIsLocked
    <2> QED
      BY <2>3, <2>4, <2>5, <2>6
  <1>9. ASSUME NEW t \in Threads, UpLock(t) PROVE IInv'
    <2> USE <1>9, S1Down, S2Same DEF UpLock, Goto, Asleep
    <2>1. TypeOK'
      BY DEF TypeOK, Labels, DownLabels, UpLabels, QueuesInv
    <2>2. QueuesInv'
      BY DEF TypeOK, QueuesInv
    <2>3. LockInv'
      BY DEF TypeOK, QueuesInv, LockInv, InLock, ValIsLocked
    <2>4. GateInv'
      BY DEF TypeOK, QueuesInv, GateInv, HasToken, LockInv, InLock, ValIsLocked
    <2> QED
      BY <2>1, <2>2, <2>3, <2>4
  <1>10. ASSUME NEW t \in Threads, UpInc(t) PROVE IInv'
    <2> USE <1>10, S1Same, S2Same DEF UpInc, Goto, Asleep
    <2>1. TypeOK'
      BY DEF TypeOK, Labels, DownLabels, UpLabels, QueuesInv
    <2>2. QueuesInv'
      BY DEF TypeOK, QueuesInv
    <2>3. LockInv'
      BY DEF TypeOK, QueuesInv, LockInv, InLock, ValIsLocked
    <2>4. GateInv'
      BY DEF TypeOK, QueuesInv, GateInv, HasToken, LockInv, InLock, ValIsLocked
    <2> QED
      BY <2>1, <2>2, <2>3, <2>4
  <1>11. ASSUME NEW t \in Threads, UpTest(t) PROVE IInv'
    <2> USE <1>11, S1Same, S2Same DEF UpTest, Goto, Asleep
    <2>1. TypeOK'
      BY DEF TypeOK, Labels, DownLabels, UpLabels, QueuesInv
    <2>2. QueuesInv'
      BY DEF TypeOK, QueuesInv
    <2>3. LockInv'
      BY DEF TypeOK, QueuesInv, LockInv, InLock, ValIsLocked
    <2>4. GateInv'
      BY DEF TypeOK, QueuesInv, GateInv, HasToken, LockInv, InLock, ValIsLocked
    <2> QED
      BY <2>1, <2>2, <2>3, <2>4
  <1>12. ASSUME NEW t \in Threads, UpOpen(t) PROVE IInv'
    <2> USE <1>12 DEF UpOpen, Goto, Asleep
    <2>1. s2 = 0
      BY DEF GateInv, HasToken
    <2>2. /\ q2' \in Seq(Threads) /\ NoDuplicates(q2')
          /\ \A u \in Threads : S1!Waiting(u)' <=> S1!Waiting(u)
          /\ \/ /\ s2' = 1 /\ q2 = <<>> /\ q2' = <<>>
                /\ \A u \in Threads : ~S2!Waiting(u) /\ ~S2!Waiting(u)'
             \/ /\ s2' = 0
                /\ \E h \in Threads :
                     /\ S2!Waiting(h)
                     /\ \A u \in Threads :
                          S2!Waiting(u)' <=> S2!Waiting(u) /\ u # h
      BY <2>1, S2Up, S1Same DEF QueuesInv
    <2>3. TypeOK'
      BY <2>1, <2>2 DEF TypeOK, Labels, DownLabels, UpLabels, QueuesInv
    <2>4. QueuesInv'
      BY <2>1, <2>2 DEF TypeOK, QueuesInv
    <2>5. LockInv'
      BY <2>1, <2>2 DEF TypeOK, QueuesInv, LockInv, InLock, ValIsLocked
    <2>6. GateInv'
      BY <2>1, <2>2 DEF TypeOK, QueuesInv, GateInv, HasToken, LockInv, InLock, ValIsLocked
    <2> QED
      BY <2>3, <2>4, <2>5, <2>6
  <1>13. ASSUME NEW t \in Threads, UpUnlock(t) PROVE IInv'
    <2> USE <1>13 DEF UpUnlock, Goto, Asleep
    <2>1. s1 = 0
      BY DEF LockInv, InLock, QueuesInv
    <2>2. /\ q1' \in Seq(Threads) /\ NoDuplicates(q1')
          /\ \A u \in Threads : S2!Waiting(u)' <=> S2!Waiting(u)
          /\ \/ /\ s1' = 1 /\ q1 = <<>> /\ q1' = <<>>
                /\ \A u \in Threads : ~S1!Waiting(u) /\ ~S1!Waiting(u)'
             \/ /\ s1' = 0
                /\ \E h \in Threads :
                     /\ S1!Waiting(h)
                     /\ \A u \in Threads :
                          S1!Waiting(u)' <=> S1!Waiting(u) /\ u # h
      BY <2>1, S1Up, S2Same DEF QueuesInv
    <2>3. TypeOK'
      BY <2>1, <2>2 DEF TypeOK, Labels, DownLabels, UpLabels, QueuesInv
    <2>4. QueuesInv'
      BY <2>1, <2>2 DEF TypeOK, QueuesInv
    <2>5. LockInv'
      BY <2>1, <2>2 DEF TypeOK, QueuesInv, LockInv, InLock, ValIsLocked
    <2>6. GateInv'
      BY <2>1, <2>2 DEF TypeOK, QueuesInv, GateInv, HasToken, LockInv, InLock, ValIsLocked
    <2> QED
      BY <2>3, <2>4, <2>5, <2>6
  <1>14. CASE UNCHANGED vars
    BY <1>14 DEF vars, TypeOK, QueuesInv, LockInv, InLock, ValIsLocked, GateInv,
       HasToken, S1!Waiting, S2!Waiting
  <1> QED
    BY <1>1, <1>2, <1>3, <1>4, <1>5, <1>6, <1>7, <1>8, <1>9, <1>10, <1>11, <1>12, <1>13, <1>14 DEF Next, Down, Up

LEMMA Invariance == Spec => []IInv
  BY InitIInv, StepIInv, PTL DEF Spec

-----------------------------------------------------------------------------
(* The variables of the counting semaphore keep their types, whatever the  *)
(* interleaving of down() and up().                                        *)
THEOREM TypeCorrect == Spec => []TypeOK
  BY Invariance, PTL DEF IInv

(* At most one thread at a time is between bsem_down(s1) and bsem_up(s1)   *)
(* of down() and up(), so val is never accessed by two threads at once.    *)
THEOREM MutualExclusion == Spec => []ValIsLocked
  <1>1. IInv => ValIsLocked
    BY DEF IInv, LockInv
  <1> QED
    BY <1>1, Invariance, PTL

(* val never falls below zero: down() reaches val-- only with a unit left. *)
THEOREM NoOverdraft == Spec => []NeverOverdrawn
  <1>1. IInv => NeverOverdrawn
    BY DEF IInv, GateInv, NeverOverdrawn
  <1> QED
    BY <1>1, Invariance, PTL

(* down() and up() never reach the early return of bsem_up, which would    *)
(* leave the process without an alarm.                                     *)
THEOREM UpsFindSemaphoreTaken == Spec => []NoRedundantUp
  <1>1. IInv => NoRedundantUp
    BY Zenon DEF IInv, QueuesInv, LockInv, InLock, GateInv, HasToken, NoRedundantUp
  <1> QED
    BY <1>1, Invariance, PTL

(* With nobody awake inside a call, the gate is open exactly when val > 0, *)
(* so no thread sleeps in down() while a unit is left.                     *)
THEOREM UnitsAreServed == Spec => []NoUnitForgotten
  <1>1. ASSUME IInv, \A t \in Threads : pc[t] = "idle" \/ Asleep(t)
        PROVE  s1 = 1 /\ (s2 = 1 <=> val > 0) /\ (q2 # <<>> => val = 0)
    <2>1. s1 = 1
      BY <1>1 DEF IInv, TypeOK, QueuesInv, LockInv, InLock, Asleep
    <2>2. \A t \in Threads : ~S1!Waiting(t)
      BY <1>1, <2>1, EmptyS1, Zenon DEF IInv, LockInv
    <2>3. \A t \in Threads : ~HasToken(t)
      BY <1>1, <2>2, Zenon DEF IInv, QueuesInv, HasToken, Asleep
    <2> QED
      BY <1>1, <2>1, <2>3 DEF IInv, TypeOK, GateInv
  <1>2. IInv => NoUnitForgotten
    BY <1>1 DEF NoUnitForgotten
  <1> QED
    BY <1>2, Invariance, PTL

-----------------------------------------------------------------------------
(* Every execution of down() and up() is an execution of the abstract      *)
(* counting semaphore: each call takes effect in the one step that changes *)
(* val, and down() only while the count is positive.                       *)
THEOREM Refinement == Spec => Abstract!Spec
  <1> DEFINE call == [t \in Threads |-> AbstractCall(t)]
  <1>1. Init => Abstract!Init
    BY DEF Init, Abstract!Init, AbstractCall
  <1>2. ASSUME IInv, [Next]_vars
        PROVE  [Abstract!Next]_<<val, call>>
    <2> USE <1>2 DEF Goto
    <2>1. ASSUME NEW t \in Threads, NEW l \in Labels,
                 pc' = [pc EXCEPT ![t] = l]
          PROVE  call' = [call EXCEPT ![t] = AbstractCall(t)']
      BY <2>1, Zenon DEF IInv, TypeOK, AbstractCall
    <2>2. ASSUME NEW t \in Threads, CallDown(t)
          PROVE  Abstract!CallDown(t)
      BY <2>1, <2>2, ZenonT(30) DEF IInv, TypeOK, Labels, DownLabels, UpLabels,
         AbstractCall, CallDown, Abstract!CallDown
    <2>3. ASSUME NEW t \in Threads, CallUp(t)
          PROVE  Abstract!CallUp(t)
      BY <2>1, <2>3, ZenonT(30) DEF IInv, TypeOK, Labels, DownLabels, UpLabels,
         AbstractCall, CallUp, Abstract!CallUp
    <2>4. ASSUME NEW t \in Threads, DownDec(t)
          PROVE  Abstract!Down(t)
      <3>1. val > 0
        BY <2>4 DEF IInv, GateInv, HasToken, DownDec
      <3> QED
        BY <2>1, <2>4, <3>1, ZenonT(30) DEF IInv, TypeOK, Labels, DownLabels, UpLabels,
           AbstractCall, DownDec, Abstract!Down
    <2>5. ASSUME NEW t \in Threads, UpInc(t)
          PROVE  Abstract!Up(t)
      BY <2>1, <2>5, Zenon DEF IInv, TypeOK, Labels, DownLabels, UpLabels,
         AbstractCall, UpInc, Abstract!Up
    <2>6. ASSUME NEW t \in Threads, DownUnlock(t) \/ UpUnlock(t)
          PROVE  Abstract!Return(t)
      BY <2>1, <2>6 DEF IInv, TypeOK, Labels, DownLabels, UpLabels,
         AbstractCall, DownUnlock, UpUnlock, Abstract!Return
    <2>7. ASSUME NEW t \in Threads,
                 \/ DownGate(t) \/ DownLock(t) \/ DownTest(t) \/ DownReopen(t)
                 \/ UpLock(t) \/ UpTest(t) \/ UpOpen(t)
          PROVE  UNCHANGED <<val, call>>
      BY <2>1, <2>7 DEF IInv, TypeOK, Labels, DownLabels, UpLabels,
         AbstractCall, DownGate, DownLock, DownTest, DownReopen, UpLock, UpTest,
         UpOpen
    <2>8. CASE UNCHANGED vars
      BY <2>8 DEF vars, AbstractCall
    <2> QED
      BY <2>2, <2>3, <2>4, <2>5, <2>6, <2>7, <2>8 DEF Next, Down, Up,
         Abstract!Next
  <1> QED
    BY <1>1, <1>2, Invariance, PTL DEF Spec, Abstract!Spec

=============================================================================
