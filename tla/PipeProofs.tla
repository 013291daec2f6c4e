----------------------------- MODULE PipeProofs -----------------------------
(***************************************************************************)
(* The pipe is correct for any number of readers and writers, any ring     *)
(* size and any width of nread and nwrite: SleepersHaveReason and          *)
(* NoUseAfterFree are invariants of Pipe, and Pipe implements Fifo.        *)
(*                                                                         *)
(* What carries them is that p->lock belongs to the process between        *)
(* acquire and release, that an end stays open as long as somebody has it  *)
(* or is on the way to close it, and that a process that changes the ring  *)
(* holds the lock until it has woken those who sleep at the other end.     *)
(***************************************************************************)
EXTENDS Pipe, SequenceTheorems, TLAPS

(* The constants are what their names say. *)
Constants == Nobody \notin Procs /\ Bytes # {}

Labels == {"user", "w_acquire", "w_loop", "w_sleep", "r_acquire", "r_loop",
           "r_sleep", "r_copy", "c_acquire", "c_close"}

TypeOK ==
    /\ lock \in Procs \cup {Nobody}
    /\ data \in [0 .. PIPESIZE - 1 -> Bytes]
    /\ nread \in 0 .. UMod - 1 /\ nwrite \in 0 .. UMod - 1
    /\ readopen \in BOOLEAN /\ writeopen \in BOOLEAN /\ freed \in BOOLEAN
    /\ news \in {"none", "put", "left"}
    /\ refs \in [Procs -> SUBSET {"r", "w"}]
    /\ killed \in [Procs -> BOOLEAN]
    /\ chan \in [Procs -> {NoChan, "nread", "nwrite"}]
    /\ pc \in [Procs -> Labels]
    /\ i \in [Procs -> Nat] /\ count \in [Procs -> Nat]
    /\ got \in Bytes

Inside == {"w_loop", "w_sleep", "r_loop", "r_sleep", "r_copy", "c_close"}

(* Who holds the lock, and where processes sleep. *)
LockInv ==
    /\ \A p \in Procs : lock = p <=> pc[p] \in Inside
    /\ \A p \in Procs : /\ chan[p] = "nread" => pc[p] = "r_acquire"
                        /\ chan[p] = "nwrite" => pc[p] = "w_acquire"

ClosesWrite(p) == Closing(p) /\ i[p] = 1
ClosesRead(p) == Closing(p) /\ i[p] # 1

(* Who has the ends, and that the last one to close an end is alone. *)
EndsInv ==
    /\ \A p \in Procs : Reading(p) => "r" \in refs[p]
    /\ \A p \in Procs : Writing(p) => "w" \in refs[p]
    /\ \A p \in Procs : "w" \in refs[p] => writeopen /\ p \in Writers
    /\ \A p \in Procs : "r" \in refs[p] => readopen
    /\ \A p, q \in Procs : ClosesWrite(p) =>
          writeopen /\ "w" \notin refs[q] /\ (ClosesWrite(q) => p = q)
    /\ \A p, q \in Procs : ClosesRead(p) =>
          readopen /\ "r" \notin refs[q] /\ (ClosesRead(q) => p = q)
    /\ freed => ~readopen /\ ~writeopen

(* Why processes sleep, or are about to. *)
SleepInv ==
    /\ \A p \in Procs : pc[p] = "r_sleep" => Empty /\ writeopen
    /\ \A p \in Procs : pc[p] = "w_sleep" => Full /\ readopen
    /\ \A p \in Procs : chan[p] = "nread" =>
          /\ writeopen
          /\ Empty \/ news = "left" \/ (news = "put" /\ \E q \in Procs : pc[q] = "w_loop")
    /\ \A p \in Procs : chan[p] = "nwrite" =>
          readopen /\ (Full \/ \E q \in Procs : pc[q] = "r_copy")

IInv == TypeOK /\ LockInv /\ EndsInv /\ SleepInv /\ Length <= PIPESIZE

-----------------------------------------------------------------------------
(* Arithmetic.  Multiples of P are at least P apart, ... *)
LEMMA Scaled ==
    ASSUME NEW P \in Nat \ {0}, NEW q \in Int, NEW s \in Int, q < s
    PROVE  P * q + P <= P * s
  <1>1. PICK d \in Nat : s = q + 1 + d
    <2>1. s - q - 1 \in Nat /\ s = q + 1 + (s - q - 1)
      OBVIOUS
    <2> QED
      BY <2>1, Zenon
  <1>2. P * s = P * q + P + P * d
    BY <1>1
  <1>3. P * d \in Nat /\ P * q \in Int
    OBVIOUS
  <1> QED
    BY <1>2, <1>3

(* ... so that a remainder is determined by its number. *)
LEMMA RemainderUnique ==
    ASSUME NEW P \in Nat \ {0}, NEW q \in Int, NEW s \in Int,
           NEW r \in 0 .. P - 1, NEW t \in 0 .. P - 1,
           P * q + r = P * s + t
    PROVE  r = t
  <1>1. P * q \in Int /\ P * s \in Int
    OBVIOUS
  <1>2. CASE q < s
    BY <1>1, <1>2, Scaled
  <1>3. CASE s < q
    <2>1. P * s + P <= P * q
      BY <1>3, Scaled, Zenon
    <2> QED
      BY <1>1, <2>1
  <1>4. CASE q = s
    BY <1>1, <1>4
  <1> QED
    BY <1>2, <1>3, <1>4

(* What the operators % and \div compute. *)
LEMMA DivMod ==
    ASSUME NEW P \in Nat \ {0}, NEW a \in Int
    PROVE  /\ a % P \in 0 .. P - 1
           /\ a \div P \in Int
           /\ a = P * (a \div P) + (a % P)
  OBVIOUS

(* A multiple of P does not count modulo P. *)
LEMMA ModShift ==
    ASSUME NEW P \in Nat \ {0}, NEW a \in Int, NEW q \in Int
    PROVE  (a + P * q) % P = a % P
  <1> DEFINE b == a + P * q
             d == a \div P
             e == b \div P
             r == a % P
             t == b % P
  <1>0. P * q \in Int /\ b \in Int
    OBVIOUS
  <1>1. r \in 0 .. P - 1 /\ d \in Int /\ a = P * d + r
    BY DivMod, Zenon
  <1>2. t \in 0 .. P - 1 /\ e \in Int /\ b = P * e + t
    BY <1>0, DivMod, Zenon
  <1>3. P * (d + q) = P * d + P * q /\ d + q \in Int
    BY <1>1
  <1> HIDE DEF d, e, r, t
  <1>4. P * d \in Int /\ P * e \in Int
    BY <1>1, <1>2
  <1>5. P * (d + q) + r = P * e + t
    BY <1>0, <1>1, <1>2, <1>3, <1>4
  <1>6. r = t
    BY <1>1, <1>2, <1>3, <1>5, RemainderUnique, Zenon
  <1> QED
    BY <1>6, Zenon DEF r, t

(* Remainders of numbers near the range, as nread and nwrite wrap around. *)
LEMMA ModNear ==
    ASSUME NEW P \in Nat \ {0}, NEW a \in Int
    PROVE  /\ a \in 0 .. P - 1 => a % P = a
           /\ a \in P .. 2 * P - 1 => a % P = a - P
           /\ a \in -P .. -1 => a % P = a + P
  <1>1. ASSUME a \in 0 .. P - 1
        PROVE  a % P = a
    <2>1. a % P \in 0 .. P - 1 /\ a \div P \in Int /\ a = P * (a \div P) + (a % P)
      BY DivMod, Zenon
    <2>2. P * 0 + a = P * (a \div P) + (a % P)
      BY <2>1
    <2> QED
      BY <1>1, <2>1, <2>2, RemainderUnique
  <1>2. ASSUME a \in P .. 2 * P - 1
        PROVE  a % P = a - P
    <2>1. a % P \in 0 .. P - 1 /\ a \div P \in Int /\ a = P * (a \div P) + (a % P)
      BY DivMod, Zenon
    <2>2. P * 1 + (a - P) = P * (a \div P) + (a % P) /\ a - P \in 0 .. P - 1
      BY <1>2, <2>1
    <2> QED
      BY <2>1, <2>2, RemainderUnique
  <1>3. ASSUME a \in -P .. -1
        PROVE  a % P = a + P
    <2>1. a % P \in 0 .. P - 1 /\ a \div P \in Int /\ a = P * (a \div P) + (a % P)
      BY DivMod, Zenon
    <2>2. P * (-1) + (a + P) = P * (a \div P) + (a % P) /\ a + P \in 0 .. P - 1
      BY <1>3, <2>1
    <2> QED
      BY <2>1, <2>2, RemainderUnique
  <1> QED
    BY <1>1, <1>2, <1>3, Zenon

(* Numbers less than P apart have different remainders. *)
LEMMA ModDistinct ==
    ASSUME NEW P \in Nat \ {0}, NEW a \in Int, NEW b \in Int, a < b, b < a + P
    PROVE  a % P # b % P
  <1> DEFINE d == a \div P
             e == b \div P
             r == a % P
             t == b % P
  <1>1. r \in 0 .. P - 1 /\ d \in Int /\ a = P * d + r
    BY DivMod, Zenon
  <1>2. t \in 0 .. P - 1 /\ e \in Int /\ b = P * e + t
    BY DivMod, Zenon
  <1> HIDE DEF d, e, r, t
  <1>3. P * d \in Int /\ P * e \in Int
    BY <1>1, <1>2
  <1>4. ASSUME r = t
        PROVE  FALSE
    <2>1. CASE d < e
      <3>1. P * d + P <= P * e
        BY <1>1, <1>2, <2>1, Scaled, Zenon
      <3> QED
        BY <1>1, <1>2, <1>3, <1>4, <3>1
    <2>2. CASE e < d
      <3>1. P * e + P <= P * d
        BY <1>1, <1>2, <2>2, Scaled, Zenon
      <3> QED
        BY <1>1, <1>2, <1>3, <1>4, <3>1
    <2>3. CASE d = e
      BY <1>1, <1>2, <1>3, <1>4, <2>3
    <2> QED
      BY <1>1, <1>2, <2>1, <2>2, <2>3
  <1> QED
    BY <1>4, Zenon DEF r, t

-----------------------------------------------------------------------------
(* The ring: r and w stand for nread and nwrite, d for data. *)

LengthOf(r, w) == (w - r) % UMod
Ring(d, r, n) == [k \in 1 .. n |-> d[((r + k - 1) % UMod) % PIPESIZE]]

(* How a counter advances. *)
LEMMA Advance ==
    ASSUME NEW a \in 0 .. UMod - 1, NEW n \in 0 .. UMod - 1
    PROVE  (a + n) % UMod = IF a + n < UMod THEN a + n ELSE a + n - UMod
  <1>1. UMod \in Nat \ {0}
    BY SizeAssumption
  <1>2. a + n \in Int
    OBVIOUS
  <1>3. CASE a + n < UMod
    <2>1. a + n \in 0 .. UMod - 1
      BY <1>1, <1>3
    <2> QED
      BY <1>1, <1>2, <1>3, <2>1, ModNear, Zenon
  <1>4. CASE ~(a + n < UMod)
    <2>1. a + n \in UMod .. 2 * UMod - 1
      BY <1>1, <1>4
    <2>2. (a + n) % UMod = (a + n) - UMod
      BY <1>1, <1>2, <2>1, ModNear, Zenon
    <2> QED
      BY <1>1, <1>4, <2>2
  <1> QED
    BY <1>3, <1>4, Zenon

(* The length of the ring, as pipewrite and piperead test it. *)
LEMMA RingLength ==
    ASSUME NEW r \in 0 .. UMod - 1, NEW w \in 0 .. UMod - 1
    PROVE  /\ LengthOf(r, w) \in 0 .. UMod - 1
           /\ LengthOf(r, w) = IF w >= r THEN w - r ELSE w - r + UMod
           /\ w = r <=> LengthOf(r, w) = 0
           /\ w = (r + PIPESIZE) % UMod <=> LengthOf(r, w) = PIPESIZE
  <1>1. UMod \in Nat \ {0} /\ PIPESIZE \in 0 .. UMod - 1
    BY SizeAssumption
  <1>2. LengthOf(r, w) = IF w >= r THEN w - r ELSE w - r + UMod
    <2>1. CASE w >= r
      <3>1. w - r \in 0 .. UMod - 1 /\ w - r \in Int
        BY <1>1, <2>1
      <3> QED
        BY <1>1, <2>1, <3>1, ModNear, Zenon DEF LengthOf
    <2>2. CASE ~(w >= r)
      <3>1. w - r \in -UMod .. -1 /\ w - r \in Int
        BY <1>1, <2>2
      <3> QED
        BY <1>1, <2>2, <3>1, ModNear, Zenon DEF LengthOf
    <2> QED
      BY <2>1, <2>2, Zenon
  <1>3. (r + PIPESIZE) % UMod =
           IF r + PIPESIZE < UMod THEN r + PIPESIZE ELSE r + PIPESIZE - UMod
    BY <1>1, Advance, Zenon
  <1> QED
    BY <1>1, <1>2, <1>3

(* Because UMod is a multiple of PIPESIZE, the wrap-around of the counters *)
(* does not disturb the ring.                                              *)
LEMMA RingIndex ==
    ASSUME NEW a \in Int
    PROVE  (a % UMod) % PIPESIZE = a % PIPESIZE
  <1>1. UMod \in Nat \ {0} /\ PIPESIZE \in Nat \ {0} /\ UMod % PIPESIZE = 0
    BY SizeAssumption
  <1> DEFINE Q == UMod \div PIPESIZE
             d == a \div UMod
  <1>2. Q \in Int /\ UMod = PIPESIZE * Q
    BY <1>1, DivMod
  <1>3. d \in Int /\ a % UMod \in Int /\ a = UMod * d + (a % UMod)
    BY <1>1, DivMod
  <1> HIDE DEF Q, d
  <1>4. UMod * d = PIPESIZE * (Q * d) /\ Q * d \in Int
    BY <1>1, <1>2, <1>3
  <1>5. a = (a % UMod) + PIPESIZE * (Q * d)
    <2>1. UMod * d \in Int
      BY <1>1, <1>3
    <2> QED
      BY <1>3, <1>4, <2>1
  <1>6. ((a % UMod) + PIPESIZE * (Q * d)) % PIPESIZE = (a % UMod) % PIPESIZE
    BY <1>1, <1>3, <1>4, ModShift, Zenon
  <1> QED
    BY <1>5, <1>6, Zenon

(* The ring is a sequence of bytes; its entries without the wrap-around of *)
(* the counters.                                                           *)
LEMMA RingSequence ==
    ASSUME NEW d \in [0 .. PIPESIZE - 1 -> Bytes], NEW r \in 0 .. UMod - 1,
           NEW n \in Nat
    PROVE  /\ Ring(d, r, n) \in Seq(Bytes) /\ Len(Ring(d, r, n)) = n
           /\ DOMAIN Ring(d, r, n) = 1 .. n
           /\ \A k \in 1 .. n : Ring(d, r, n)[k] = d[(r + k - 1) % PIPESIZE]
  <1>1. PIPESIZE \in Nat \ {0} /\ UMod \in Nat \ {0}
    BY SizeAssumption
  <1>2. ASSUME NEW k \in 1 .. n
        PROVE  /\ Ring(d, r, n)[k] = d[(r + k - 1) % PIPESIZE]
               /\ Ring(d, r, n)[k] \in Bytes
    <2>1. r + k - 1 \in Int
      OBVIOUS
    <2>2. Ring(d, r, n)[k] = d[((r + k - 1) % UMod) % PIPESIZE]
      BY <1>2, Zenon DEF Ring
    <2>3. ((r + k - 1) % UMod) % PIPESIZE = (r + k - 1) % PIPESIZE
      BY <2>1, RingIndex, Zenon
    <2>4. (r + k - 1) % PIPESIZE \in 0 .. PIPESIZE - 1
      BY <1>1, <2>1, DivMod, Zenon
    <2> QED
      BY <2>2, <2>3, <2>4, Zenon
  <1>3. Ring(d, r, n) \in [1 .. n -> Bytes]
    BY <1>2, Zenon DEF Ring
  <1> QED
    BY <1>2, <1>3

(* pipewrite stores a byte behind the others, in a free slot. *)
LEMMA RingPut ==
    ASSUME NEW d \in [0 .. PIPESIZE - 1 -> Bytes],
           NEW r \in 0 .. UMod - 1, NEW w \in 0 .. UMod - 1, NEW b \in Bytes,
           LengthOf(r, w) < PIPESIZE
    PROVE  /\ LengthOf(r, (w + 1) % UMod) = LengthOf(r, w) + 1
           /\ Ring([d EXCEPT ![w % PIPESIZE] = b], r, LengthOf(r, w) + 1)
                = Append(Ring(d, r, LengthOf(r, w)), b)
  <1> DEFINE n == LengthOf(r, w)
             e == [d EXCEPT ![w % PIPESIZE] = b]
             v == (w + 1) % UMod
             m == n + 1
  <1>1. PIPESIZE \in Nat \ {0} /\ UMod \in Nat \ {0} /\ PIPESIZE < UMod
    BY SizeAssumption
  <1>0. n \in 0 .. UMod - 1 /\ n = IF w >= r THEN w - r ELSE w - r + UMod
    BY RingLength, Zenon
  <1>2. n \in Nat /\ n + 1 \in Nat /\ n < PIPESIZE
    BY <1>0, <1>1
  <1>3. v = (IF w + 1 < UMod THEN w + 1 ELSE w + 1 - UMod) /\ v \in 0 .. UMod - 1
    BY <1>1, Advance
  <1>4. LengthOf(r, v) = IF v >= r THEN v - r ELSE v - r + UMod
    BY <1>3, RingLength, Zenon
  <1> HIDE DEF n
  <1>5. w % PIPESIZE = (r + n) % PIPESIZE
    <2>1. w = (r + n) % UMod
      <3>1. (r + n) % UMod = IF r + n < UMod THEN r + n ELSE r + n - UMod
        BY <1>0, Advance, Zenon
      <3> QED
        BY <1>0, <1>1, <3>1
    <2> QED
      BY <1>2, <2>1, RingIndex
  <1>6. w % PIPESIZE \in 0 .. PIPESIZE - 1 /\ e \in [0 .. PIPESIZE - 1 -> Bytes]
    BY <1>1, DivMod
  <1>7. m \in Nat /\ m = n + 1 /\ LengthOf(r, v) = m
    BY <1>0, <1>1, <1>2, <1>3, <1>4
  <1> HIDE DEF e, v, m
  <1>8. /\ Ring(e, r, m) \in Seq(Bytes) /\ Len(Ring(e, r, m)) = m
        /\ \A k \in 1 .. m : Ring(e, r, m)[k] = e[(r + k - 1) % PIPESIZE]
    BY <1>6, <1>7, RingSequence, Zenon
  <1>9. /\ Ring(d, r, n) \in Seq(Bytes) /\ Len(Ring(d, r, n)) = n
        /\ \A k \in 1 .. n : Ring(d, r, n)[k] = d[(r + k - 1) % PIPESIZE]
    BY <1>2, RingSequence, Zenon
  <1>10. /\ Append(Ring(d, r, n), b) \in Seq(Bytes)
         /\ Len(Append(Ring(d, r, n), b)) = m
         /\ \A k \in 1 .. n : Append(Ring(d, r, n), b)[k] = Ring(d, r, n)[k]
         /\ Append(Ring(d, r, n), b)[m] = b
    BY <1>7, <1>9, AppendProperties
  <1>11. ASSUME NEW k \in 1 .. m
         PROVE  Ring(e, r, m)[k] = Append(Ring(d, r, n), b)[k]
    <2>1. CASE k = m
      <3>1. (r + k - 1) % PIPESIZE = w % PIPESIZE
        BY <1>2, <1>5, <1>7, <2>1
      <3> QED
        BY <1>6, <1>8, <1>10, <2>1, <3>1, Zenon DEF e
    <2>2. CASE k \in 1 .. n
      <3>1. r + k - 1 \in Int /\ r + n \in Int /\ r + k - 1 < r + n /\ r + n < r + k - 1 + PIPESIZE
        BY <1>1, <1>2, <2>2
      <3>2. (r + k - 1) % PIPESIZE # w % PIPESIZE
        BY <1>1, <1>5, <3>1, ModDistinct, Zenon
      <3>3. (r + k - 1) % PIPESIZE \in 0 .. PIPESIZE - 1
        BY <1>1, <3>1, DivMod, Zenon
      <3> QED
        BY <1>2, <1>6, <1>7, <1>8, <1>9, <1>10, <2>2, <3>2, <3>3, Zenon DEF e
    <2>3. k = m \/ k \in 1 .. n
      BY <1>2, <1>7
    <2> QED
      BY <2>1, <2>2, <2>3, Zenon
  <1>12. Ring(e, r, m) = Append(Ring(d, r, n), b)
    BY <1>8, <1>10, <1>11, SeqEqual, Zenon
  <1> QED
    BY <1>7, <1>12, Zenon DEF n, e, v, m

(* piperead takes the byte that has been in the ring longest. *)
LEMMA RingGet ==
    ASSUME NEW d \in [0 .. PIPESIZE - 1 -> Bytes],
           NEW r \in 0 .. UMod - 1, NEW w \in 0 .. UMod - 1, r # w
    PROVE  /\ LengthOf((r + 1) % UMod, w) = LengthOf(r, w) - 1
           /\ Ring(d, r, LengthOf(r, w)) # <<>>
           /\ d[r % PIPESIZE] = Head(Ring(d, r, LengthOf(r, w)))
           /\ Ring(d, (r + 1) % UMod, LengthOf(r, w) - 1)
                = Tail(Ring(d, r, LengthOf(r, w)))
  <1> DEFINE n == LengthOf(r, w)
             q == (r + 1) % UMod
             m == n - 1
  <1>1. PIPESIZE \in Nat \ {0} /\ UMod \in Nat \ {0} /\ PIPESIZE < UMod
    BY SizeAssumption
  <1>0. n \in 0 .. UMod - 1 /\ n # 0 /\ n = IF w >= r THEN w - r ELSE w - r + UMod
    BY RingLength, Zenon
  <1>2. n \in Nat /\ n # 0 /\ m \in Nat /\ m = n - 1
    BY <1>0, <1>1
  <1>3. q = (IF r + 1 < UMod THEN r + 1 ELSE r + 1 - UMod) /\ q \in 0 .. UMod - 1
    BY <1>1, Advance
  <1>4. LengthOf(q, w) = IF w >= q THEN w - q ELSE w - q + UMod
    BY <1>3, RingLength, Zenon
  <1> HIDE DEF n, q, m
  <1>5. LengthOf(q, w) = m
    BY <1>0, <1>1, <1>2, <1>3, <1>4
  <1>6. /\ Ring(d, r, n) \in Seq(Bytes) /\ Len(Ring(d, r, n)) = n
        /\ \A k \in 1 .. n : Ring(d, r, n)[k] = d[(r + k - 1) % PIPESIZE]
    BY <1>2, RingSequence, Zenon
  <1>q. q \in 0 .. UMod - 1 /\ m \in Nat
    BY <1>2, <1>3, Zenon
  <1>7. /\ Ring(d, q, m) \in Seq(Bytes) /\ Len(Ring(d, q, m)) = m
        /\ \A k \in 1 .. m : Ring(d, q, m)[k] = d[(q + k - 1) % PIPESIZE]
    BY <1>q, RingSequence, Zenon
  <1>8. Ring(d, r, n) # <<>>
    BY <1>2, <1>6, EmptySeq, Zenon
  <1>9. d[r % PIPESIZE] = Head(Ring(d, r, n))
    <2>1. Head(Ring(d, r, n)) = Ring(d, r, n)[1]
      BY <1>6, <1>8
    <2>2. r + 1 - 1 = r /\ 1 \in 1 .. n
      BY <1>2
    <2> QED
      BY <1>6, <2>1, <2>2, Zenon
  <1>10. /\ Tail(Ring(d, r, n)) \in Seq(Bytes) /\ Len(Tail(Ring(d, r, n))) = m
         /\ \A k \in 1 .. m : Tail(Ring(d, r, n))[k] = Ring(d, r, n)[k + 1]
    BY <1>2, <1>6, <1>8, HeadTailProperties
  <1>11. ASSUME NEW k \in 1 .. m
         PROVE  Ring(d, q, m)[k] = Tail(Ring(d, r, n))[k]
    <2>1. (q + k - 1) % PIPESIZE = (r + k) % PIPESIZE
      <3>1. CASE r + 1 < UMod
        BY <1>3, <3>1
      <3>2. CASE ~(r + 1 < UMod)
        <4>1. q = 0 /\ r + k = k - 1 + UMod /\ k - 1 \in 0 .. UMod - 1
          BY <1>0, <1>1, <1>2, <1>3, <3>2, SMTT(30)
        <4>2. (k - 1 + UMod) % UMod = k - 1
          <5>1. k - 1 + UMod \in UMod .. 2 * UMod - 1 /\ k - 1 + UMod \in Int
            BY <1>1, <4>1
          <5>2. (k - 1 + UMod) % UMod = (k - 1 + UMod) - UMod
            BY <1>1, <5>1, ModNear, Zenon
          <5> QED
            BY <1>1, <4>1, <5>2
        <4>3. ((r + k) % UMod) % PIPESIZE = (r + k) % PIPESIZE
          BY RingIndex
        <4> QED
          BY <4>1, <4>2, <4>3
      <3> QED
        BY <3>1, <3>2, Zenon
    <2>2. r + (k + 1) - 1 = r + k /\ k + 1 \in 1 .. n
      BY <1>2
    <2>3. Ring(d, r, n)[k + 1] = d[(r + k) % PIPESIZE]
      BY <1>6, <2>2, Zenon
    <2> QED
      BY <1>7, <1>10, <2>1, <2>3, Zenon
  <1>12. Ring(d, q, m) = Tail(Ring(d, r, n))
    BY <1>7, <1>10, <1>11, SeqEqual, Zenon
  <1> QED
    BY <1>5, <1>8, <1>9, <1>12, Zenon DEF n, q, m

-----------------------------------------------------------------------------
(* One lemma for each action: it keeps the inductive invariant. *)

(* The length depends on the counters only. *)
LEMMA LengthKept ==
    ASSUME nread' = nread, nwrite' = nwrite
    PROVE  Length' = Length /\ (Empty' <=> Empty) /\ (Full' <=> Full)
  BY Zenon DEF Length, Empty, Full

LEMMA CallWriteKeeps ==
    ASSUME Constants, IInv, NEW p \in Procs, NEW k \in Counts, CallWrite(p, k)
    PROVE  IInv'
  <1> USE DEF CallWrite, At, ringVars, pipeVars, callVars, Goto
  <1>1. TypeOK'
    BY SizeAssumption, Zenon DEF IInv, TypeOK, Labels, NoChan
  <1>2. LockInv'
    BY Zenon DEF Constants, IInv, TypeOK, LockInv, Inside, Labels, NoChan
  <1>3. EndsInv'
    BY SMTT(30) DEF IInv, TypeOK, LockInv, EndsInv, Inside, Reading, Writing, Closing, ClosesRead, ClosesWrite
  <1>4. SleepInv'
    <2>1. (Empty' <=> Empty) /\ (Full' <=> Full)
      BY LengthKept, Zenon
    <2>2. ASSUME NEW q \in Procs
          PROVE  /\ pc'[q] = "r_sleep" => Empty /\ writeopen'
                 /\ pc'[q] = "w_sleep" => Full /\ readopen'
      BY Zenon DEF IInv, TypeOK, LockInv, EndsInv, SleepInv, Inside
    <2>3. ASSUME NEW q \in Procs, chan'[q] = "nread"
          PROVE  /\ writeopen'
                 /\ Empty \/ news' = "left" \/ (news' = "put" /\ \E x \in Procs : pc'[x] = "w_loop")
      BY <2>3, Zenon DEF IInv, TypeOK, LockInv, EndsInv, SleepInv, Inside, Reading, NoChan, Procs
    <2>4. ASSUME NEW q \in Procs, chan'[q] = "nwrite"
          PROVE  readopen' /\ (Full \/ \E x \in Procs : pc'[x] = "r_copy")
      BY <2>4, ZenonT(30) DEF IInv, TypeOK, LockInv, EndsInv, SleepInv, Inside, Writing, NoChan
    <2> QED
      BY <2>1, <2>2, <2>3, <2>4, Zenon DEF SleepInv
  <1>5. Length' <= PIPESIZE
    BY LengthKept, Zenon DEF IInv
  <1> QED
    BY <1>1, <1>2, <1>3, <1>4, <1>5, Zenon DEF IInv

LEMMA CallReadKeeps ==
    ASSUME Constants, IInv, NEW p \in Procs, NEW k \in Counts, CallRead(p, k)
    PROVE  IInv'
  <1> USE DEF CallRead, At, ringVars, pipeVars, callVars, Goto
  <1>1. TypeOK'
    BY SizeAssumption, Zenon DEF IInv, TypeOK, Labels, NoChan
  <1>2. LockInv'
    BY Zenon DEF Constants, IInv, TypeOK, LockInv, Inside, Labels, NoChan
  <1>3. EndsInv'
    BY SMTT(30) DEF IInv, TypeOK, LockInv, EndsInv, Inside, Reading, Writing, Closing, ClosesRead, ClosesWrite
  <1>4. SleepInv'
    BY LengthKept, ZenonT(30) DEF IInv, TypeOK, LockInv, EndsInv, SleepInv, Inside, Reading, Writing, NoChan
  <1>5. Length' <= PIPESIZE
    BY LengthKept, Zenon DEF IInv
  <1> QED
    BY <1>1, <1>2, <1>3, <1>4, <1>5, Zenon DEF IInv

LEMMA AcquireKeeps ==
    ASSUME Constants, IInv, NEW p \in Procs, Acquire(p)
    PROVE  IInv'
  <1> USE DEF Acquire, At, ringVars, pipeVars, callVars, Goto
  <1>1. TypeOK'
    BY SizeAssumption, Zenon DEF IInv, TypeOK, Labels, NoChan
  <1>2. LockInv'
    BY Zenon DEF Constants, IInv, TypeOK, LockInv, Inside, Labels, NoChan
  <1>3. EndsInv'
    BY SMTT(30) DEF IInv, TypeOK, LockInv, EndsInv, Inside, Reading, Writing, Closing, ClosesRead, ClosesWrite
  <1>4. SleepInv'
    <2>1. (Empty' <=> Empty) /\ (Full' <=> Full)
      BY LengthKept, Zenon
    <2>2. ASSUME NEW q \in Procs
          PROVE  /\ pc'[q] = "r_sleep" => Empty /\ writeopen'
                 /\ pc'[q] = "w_sleep" => Full /\ readopen'
      BY DEF IInv, TypeOK, LockInv, EndsInv, SleepInv, Inside
    <2>3. ASSUME NEW q \in Procs, chan'[q] = "nread"
          PROVE  /\ writeopen'
                 /\ Empty \/ news' = "left" \/ (news' = "put" /\ \E x \in Procs : pc'[x] = "w_loop")
      BY <2>3, Zenon DEF IInv, TypeOK, LockInv, EndsInv, SleepInv, Inside, Reading, NoChan, Procs
    <2>4. ASSUME NEW q \in Procs, chan'[q] = "nwrite"
          PROVE  readopen' /\ (Full \/ \E x \in Procs : pc'[x] = "r_copy")
      BY <2>4 DEF IInv, TypeOK, LockInv, EndsInv, SleepInv, Inside, Writing, NoChan
    <2> QED
      BY <2>1, <2>2, <2>3, <2>4, Zenon DEF SleepInv
  <1>5. Length' <= PIPESIZE
    BY LengthKept, Zenon DEF IInv
  <1> QED
    BY <1>1, <1>2, <1>3, <1>4, <1>5, Zenon DEF IInv

LEMMA WriteFailKeeps ==
    ASSUME Constants, IInv, NEW p \in Procs, WriteFail(p)
    PROVE  IInv'
  <1> USE DEF WriteFail, At, ringVars, pipeVars, callVars, Return, Goto
  <1>1. TypeOK'
    BY SizeAssumption, Zenon DEF IInv, TypeOK, Labels, NoChan
  <1>2. LockInv'
    BY DEF Constants, IInv, TypeOK, LockInv, Inside, Labels, NoChan
  <1>3. EndsInv'
    BY SMTT(30) DEF IInv, TypeOK, LockInv, EndsInv, Inside, Reading, Writing, Closing, ClosesRead, ClosesWrite
  <1>4. SleepInv'
    BY LengthKept DEF IInv, TypeOK, LockInv, EndsInv, SleepInv, Inside, Reading, Writing, NoChan
  <1>5. Length' <= PIPESIZE
    BY LengthKept, Zenon DEF IInv
  <1> QED
    BY <1>1, <1>2, <1>3, <1>4, <1>5, Zenon DEF IInv

LEMMA WriteFullKeeps ==
    ASSUME Constants, IInv, NEW p \in Procs, WriteFull(p)
    PROVE  IInv'
  <1> USE DEF WriteFull, At, ringVars, pipeVars, callVars, Wakeup, WakeReaders, Goto
  <1>1. TypeOK'
    BY SizeAssumption, Zenon DEF IInv, TypeOK, Labels, NoChan
  <1>2. LockInv'
    BY Zenon DEF Constants, IInv, TypeOK, LockInv, Inside, Labels, NoChan
  <1>3. EndsInv'
    BY DEF IInv, TypeOK, LockInv, EndsInv, Inside, Reading, Writing, Closing, ClosesRead, ClosesWrite
  <1>4. SleepInv'
    BY LengthKept DEF IInv, TypeOK, LockInv, EndsInv, SleepInv, Inside, Reading, Writing, NoChan
  <1>5. Length' <= PIPESIZE
    BY LengthKept, Zenon DEF IInv
  <1> QED
    BY <1>1, <1>2, <1>3, <1>4, <1>5, Zenon DEF IInv

LEMMA WriteSleepKeeps ==
    ASSUME Constants, IInv, NEW p \in Procs, WriteSleep(p)
    PROVE  IInv'
  <1> USE DEF WriteSleep, At, ringVars, pipeVars, callVars, Goto
  <1>1. TypeOK'
    BY SizeAssumption, Zenon DEF IInv, TypeOK, Labels, NoChan
  <1>2. LockInv'
    BY Zenon DEF Constants, IInv, TypeOK, LockInv, Inside, Labels, NoChan
  <1>3. EndsInv'
    BY DEF IInv, TypeOK, LockInv, EndsInv, Inside, Reading, Writing, Closing, ClosesRead, ClosesWrite
  <1>4. SleepInv'
    BY LengthKept, ZenonT(30) DEF IInv, TypeOK, LockInv, EndsInv, SleepInv, Inside, Reading, Writing, NoChan
  <1>5. Length' <= PIPESIZE
    BY LengthKept, Zenon DEF IInv
  <1> QED
    BY <1>1, <1>2, <1>3, <1>4, <1>5, Zenon DEF IInv

LEMMA WriteDoneKeeps ==
    ASSUME Constants, IInv, NEW p \in Procs, WriteDone(p)
    PROVE  IInv'
  <1> USE DEF WriteDone, At, ringVars, pipeVars, callVars, Wakeup, WakeReaders, Return, Goto
  <1>1. TypeOK'
    BY SizeAssumption, Zenon DEF IInv, TypeOK, Labels, NoChan
  <1>2. LockInv'
    BY DEF Constants, IInv, TypeOK, LockInv, Inside, Labels, NoChan
  <1>3. EndsInv'
    BY DEF IInv, TypeOK, LockInv, EndsInv, Inside, Reading, Writing, Closing, ClosesRead, ClosesWrite
  <1>4. SleepInv'
    BY LengthKept DEF IInv, TypeOK, LockInv, EndsInv, SleepInv, Inside, Reading, Writing, NoChan
  <1>5. Length' <= PIPESIZE
    BY LengthKept, Zenon DEF IInv
  <1> QED
    BY <1>1, <1>2, <1>3, <1>4, <1>5, Zenon DEF IInv

LEMMA ReadEmptyKeeps ==
    ASSUME Constants, IInv, NEW p \in Procs, ReadEmpty(p)
    PROVE  IInv'
  <1> USE DEF ReadEmpty, At, ringVars, pipeVars, callVars, Goto
  <1>1. TypeOK'
    BY SizeAssumption, Zenon DEF IInv, TypeOK, Labels, NoChan
  <1>2. LockInv'
    BY Zenon DEF Constants, IInv, TypeOK, LockInv, Inside, Labels, NoChan
  <1>3. EndsInv'
    BY DEF IInv, TypeOK, LockInv, EndsInv, Inside, Reading, Writing, Closing, ClosesRead, ClosesWrite
  <1>4. SleepInv'
    BY LengthKept DEF IInv, TypeOK, LockInv, EndsInv, SleepInv, Inside, Reading, Writing, NoChan
  <1>5. Length' <= PIPESIZE
    BY LengthKept, Zenon DEF IInv
  <1> QED
    BY <1>1, <1>2, <1>3, <1>4, <1>5, Zenon DEF IInv

LEMMA ReadFailKeeps ==
    ASSUME Constants, IInv, NEW p \in Procs, ReadFail(p)
    PROVE  IInv'
  <1> USE DEF ReadFail, At, ringVars, pipeVars, callVars, Return, Goto
  <1>1. TypeOK'
    BY SizeAssumption, Zenon DEF IInv, TypeOK, Labels, NoChan
  <1>2. LockInv'
    BY SMTT(30) DEF Constants, IInv, TypeOK, LockInv, Inside, Labels, NoChan
  <1>3. EndsInv'
    BY SMTT(30) DEF IInv, TypeOK, LockInv, EndsInv, Inside, Reading, Writing, Closing, ClosesRead, ClosesWrite
  <1>4. SleepInv'
    BY LengthKept DEF IInv, TypeOK, LockInv, EndsInv, SleepInv, Inside, Reading, Writing, NoChan
  <1>5. Length' <= PIPESIZE
    BY LengthKept, Zenon DEF IInv
  <1> QED
    BY <1>1, <1>2, <1>3, <1>4, <1>5, Zenon DEF IInv

LEMMA ReadSleepKeeps ==
    ASSUME Constants, IInv, NEW p \in Procs, ReadSleep(p)
    PROVE  IInv'
  <1> USE DEF ReadSleep, At, ringVars, pipeVars, callVars, Goto
  <1>1. TypeOK'
    BY SizeAssumption, Zenon DEF IInv, TypeOK, Labels, NoChan
  <1>2. LockInv'
    BY Zenon DEF Constants, IInv, TypeOK, LockInv, Inside, Labels, NoChan
  <1>3. EndsInv'
    BY DEF IInv, TypeOK, LockInv, EndsInv, Inside, Reading, Writing, Closing, ClosesRead, ClosesWrite
  <1>4. SleepInv'
    BY LengthKept DEF IInv, TypeOK, LockInv, EndsInv, SleepInv, Inside, Reading, Writing, NoChan
  <1>5. Length' <= PIPESIZE
    BY LengthKept, Zenon DEF IInv
  <1> QED
    BY <1>1, <1>2, <1>3, <1>4, <1>5, Zenon DEF IInv

LEMMA ReadReadyKeeps ==
    ASSUME Constants, IInv, NEW p \in Procs, ReadReady(p)
    PROVE  IInv'
  <1> USE DEF ReadReady, At, ringVars, pipeVars, callVars, Goto
  <1>1. TypeOK'
    BY SizeAssumption, Zenon DEF IInv, TypeOK, Labels, NoChan
  <1>2. LockInv'
    BY Zenon DEF Constants, IInv, TypeOK, LockInv, Inside, Labels, NoChan
  <1>3. EndsInv'
    BY SMTT(30) DEF IInv, TypeOK, LockInv, EndsInv, Inside, Reading, Writing, Closing, ClosesRead, ClosesWrite
  <1>4. SleepInv'
    BY LengthKept, Zenon DEF IInv, TypeOK, LockInv, EndsInv, SleepInv, Inside, Reading, Writing, NoChan
  <1>5. Length' <= PIPESIZE
    BY LengthKept, Zenon DEF IInv
  <1> QED
    BY <1>1, <1>2, <1>3, <1>4, <1>5, Zenon DEF IInv

LEMMA ReadDoneKeeps ==
    ASSUME Constants, IInv, NEW p \in Procs, ReadDone(p)
    PROVE  IInv'
  <1> USE DEF ReadDone, At, ringVars, pipeVars, callVars, Wakeup, WakeReaders, Return, Goto
  <1>1. TypeOK'
    BY SizeAssumption, Zenon DEF IInv, TypeOK, Labels, NoChan
  <1>2. LockInv'
    BY Zenon DEF Constants, IInv, TypeOK, LockInv, Inside, Labels, NoChan
  <1>3. EndsInv'
    BY DEF IInv, TypeOK, LockInv, EndsInv, Inside, Reading, Writing, Closing, ClosesRead, ClosesWrite
  <1>4. SleepInv'
    BY LengthKept, Zenon DEF IInv, TypeOK, LockInv, EndsInv, SleepInv, Inside, Reading, Writing, NoChan
  <1>5. Length' <= PIPESIZE
    BY LengthKept, Zenon DEF IInv
  <1> QED
    BY <1>1, <1>2, <1>3, <1>4, <1>5, Zenon DEF IInv

LEMMA CloseSharedKeeps ==
    ASSUME Constants, IInv, NEW p \in Procs, NEW end \in {"r", "w"}, CloseShared(p, end)
    PROVE  IInv'
  <1> USE DEF CloseShared, At, ringVars, pipeVars, callVars, LastRef, Goto
  <1>1. TypeOK'
    BY SizeAssumption, Zenon DEF IInv, TypeOK, Labels, NoChan
  <1>2. LockInv'
    BY Zenon DEF Constants, IInv, TypeOK, LockInv, Inside, Labels, NoChan
  <1>3. EndsInv'
    BY SMTT(30) DEF IInv, TypeOK, LockInv, EndsInv, Inside, Reading, Writing, Closing, ClosesRead, ClosesWrite
  <1>4. SleepInv'
    BY LengthKept, Zenon DEF IInv, TypeOK, LockInv, EndsInv, SleepInv, Inside, Reading, Writing, NoChan
  <1>5. Length' <= PIPESIZE
    BY LengthKept, Zenon DEF IInv
  <1> QED
    BY <1>1, <1>2, <1>3, <1>4, <1>5, Zenon DEF IInv

LEMMA CloseLastKeeps ==
    ASSUME Constants, IInv, NEW p \in Procs, NEW end \in {"r", "w"}, CloseLast(p, end)
    PROVE  IInv'
  <1> USE DEF CloseLast, At, ringVars, pipeVars, callVars, LastRef, Goto
  <1>1. TypeOK'
    BY SizeAssumption, Zenon DEF IInv, TypeOK, Labels, NoChan
  <1>2. LockInv'
    BY Zenon DEF Constants, IInv, TypeOK, LockInv, Inside, Labels, NoChan
  <1>3. EndsInv'
    BY SMTT(30) DEF IInv, TypeOK, LockInv, EndsInv, Inside, Reading, Writing, Closing, ClosesRead, ClosesWrite
  <1>4. SleepInv'
    BY LengthKept, Zenon DEF IInv, TypeOK, LockInv, EndsInv, SleepInv, Inside, Reading, Writing, NoChan
  <1>5. Length' <= PIPESIZE
    BY LengthKept, Zenon DEF IInv
  <1> QED
    BY <1>1, <1>2, <1>3, <1>4, <1>5, Zenon DEF IInv

LEMMA PipeCloseKeeps ==
    ASSUME Constants, IInv, NEW p \in Procs, PipeClose(p)
    PROVE  IInv'
  <1> USE DEF PipeClose, At, ringVars, pipeVars, callVars, Return, Wakeup, WakeReaders, Goto
  <1>1. TypeOK'
    BY SizeAssumption, Zenon DEF IInv, TypeOK, Labels, NoChan
  <1>2. LockInv'
    <2>1. ASSUME NEW q \in Procs PROVE chan'[q] = chan[q] \/ chan'[q] = NoChan
      BY Zenon
    <2>2. lock' = Nobody /\ pc' = [pc EXCEPT ![p] = "user"]
      BY Zenon
    <2> QED
      BY <2>1, <2>2 DEF Constants, IInv, TypeOK, LockInv, Inside, Labels, NoChan
  <1>3. EndsInv'
    BY DEF IInv, TypeOK, LockInv, EndsInv, Inside, Reading, Writing, Closing, ClosesRead, ClosesWrite
  <1>4. SleepInv'
    <2>1. (Empty' <=> Empty) /\ (Full' <=> Full)
      BY LengthKept, Zenon
    <2>2. ASSUME NEW q \in Procs
          PROVE  /\ pc'[q] = "r_sleep" => Empty /\ writeopen'
                 /\ pc'[q] = "w_sleep" => Full /\ readopen'
      BY Zenon DEF IInv, TypeOK, LockInv, EndsInv, SleepInv, Inside
    <2>3. ASSUME NEW q \in Procs, chan'[q] = "nread"
          PROVE  /\ writeopen'
                 /\ Empty \/ news' = "left" \/ (news' = "put" /\ \E x \in Procs : pc'[x] = "w_loop")
      BY <2>3, SMTT(30) DEF IInv, TypeOK, LockInv, EndsInv, SleepInv, Inside, Reading, NoChan, Procs
    <2>4. ASSUME NEW q \in Procs, chan'[q] = "nwrite"
          PROVE  readopen' /\ (Full \/ \E x \in Procs : pc'[x] = "r_copy")
      BY <2>4 DEF IInv, TypeOK, LockInv, EndsInv, SleepInv, Inside, Writing, NoChan
    <2> QED
      BY <2>1, <2>2, <2>3, <2>4, Zenon DEF SleepInv
  <1>5. Length' <= PIPESIZE
    BY LengthKept, Zenon DEF IInv
  <1> QED
    BY <1>1, <1>2, <1>3, <1>4, <1>5, Zenon DEF IInv

LEMMA KillKeeps ==
    ASSUME Constants, IInv, NEW p \in Procs, Kill(p)
    PROVE  IInv'
  <1> USE DEF Kill, At, ringVars, pipeVars, callVars
  <1>1. TypeOK'
    BY SizeAssumption, Zenon DEF IInv, TypeOK, Labels, NoChan
  <1>2. LockInv'
    BY Zenon DEF Constants, IInv, TypeOK, LockInv, Inside, Labels, NoChan
  <1>3. EndsInv'
    BY ZenonT(60) DEF IInv, EndsInv, Reading, Writing, Closing, ClosesRead, ClosesWrite
  <1>4. SleepInv'
    <2>1. (Empty' <=> Empty) /\ (Full' <=> Full)
      BY LengthKept, Zenon
    <2>2. ASSUME NEW q \in Procs
          PROVE  /\ pc'[q] = "r_sleep" => Empty /\ writeopen'
                 /\ pc'[q] = "w_sleep" => Full /\ readopen'
      BY Zenon DEF IInv, TypeOK, LockInv, EndsInv, SleepInv, Inside
    <2>3. ASSUME NEW q \in Procs, chan'[q] = "nread"
          PROVE  /\ writeopen'
                 /\ Empty \/ news' = "left" \/ (news' = "put" /\ \E x \in Procs : pc'[x] = "w_loop")
      BY <2>3, Zenon DEF IInv, TypeOK, LockInv, EndsInv, SleepInv, Inside, Reading, NoChan, Procs
    <2>4. ASSUME NEW q \in Procs, chan'[q] = "nwrite"
          PROVE  readopen' /\ (Full \/ \E x \in Procs : pc'[x] = "r_copy")
      BY <2>4, Zenon DEF IInv, TypeOK, LockInv, EndsInv, SleepInv, Inside, Writing, NoChan
    <2> QED
      BY <2>1, <2>2, <2>3, <2>4, Zenon DEF SleepInv
  <1>5. Length' <= PIPESIZE
    BY LengthKept, Zenon DEF IInv
  <1> QED
    BY <1>1, <1>2, <1>3, <1>4, <1>5, Zenon DEF IInv

LEMMA WritePutKeeps ==
    ASSUME Constants, IInv, NEW p \in Procs, NEW b \in Bytes, WritePut(p, b)
    PROVE  IInv' /\ Contents' = Append(Contents, b) /\ Length < PIPESIZE
  <1> USE DEF WritePut, At
  <1>0. Length = LengthOf(nread, nwrite) /\ Length' = LengthOf(nread, (nwrite + 1) % UMod)
    BY Zenon DEF Length, LengthOf
  <1>1. /\ PIPESIZE \in Nat \ {0} /\ UMod \in Nat \ {0}
        /\ nread \in 0 .. UMod - 1 /\ nwrite \in 0 .. UMod - 1
        /\ data \in [0 .. PIPESIZE - 1 -> Bytes]
    BY SizeAssumption DEF IInv, TypeOK
  <1>2. Length \in 0 .. UMod - 1 /\ Length # PIPESIZE
    BY <1>0, <1>1, RingLength, Zenon DEF Full
  <1>3. Length < PIPESIZE
    BY <1>1, <1>2 DEF IInv
  <1>4. (nwrite + 1) % UMod \in 0 .. UMod - 1 /\ nwrite % PIPESIZE \in 0 .. PIPESIZE - 1
    BY <1>1, DivMod
  <1>5. Length' = Length + 1 /\ Ring(data', nread, Length + 1) = Append(Ring(data, nread, Length), b)
    BY <1>0, <1>1, <1>3, RingPut, Zenon
  <1>6. Contents' = Append(Contents, b)
    BY <1>5, Zenon DEF Contents, Ring
  <1>7. TypeOK'
    BY <1>1, <1>4, SMTT(30) DEF IInv, TypeOK
  <1>8. LockInv'
    BY Zenon DEF IInv, LockInv
  <1>9. EndsInv'
    BY DEF IInv, TypeOK, LockInv, EndsInv, Inside, Reading, Writing, Closing, ClosesRead, ClosesWrite
  <1>10. SleepInv'
    BY Zenon DEF IInv, TypeOK, LockInv, EndsInv, SleepInv, Inside
  <1> QED
    BY <1>1, <1>2, <1>3, <1>5, <1>6, <1>7, <1>8, <1>9, <1>10, SMTT(30) DEF IInv

LEMMA ReadCopyKeeps ==
    ASSUME Constants, IInv, NEW p \in Procs, ReadCopy(p)
    PROVE  /\ IInv' /\ Contents # <<>>
           /\ got' = Head(Contents) /\ Contents' = Tail(Contents)
  <1> USE DEF ReadCopy, At
  <1>0. Length = LengthOf(nread, nwrite) /\ Length' = LengthOf((nread + 1) % UMod, nwrite)
    BY Zenon DEF Length, LengthOf
  <1>1. /\ PIPESIZE \in Nat \ {0} /\ UMod \in Nat \ {0} /\ nread # nwrite
        /\ nread \in 0 .. UMod - 1 /\ nwrite \in 0 .. UMod - 1
        /\ data \in [0 .. PIPESIZE - 1 -> Bytes] /\ nread \in Int /\ nread + 1 \in Int
    BY SizeAssumption DEF IInv, TypeOK, Empty
  <1>2. Length \in 0 .. UMod - 1
    BY <1>0, <1>1, RingLength, Zenon
  <1>3. (nread + 1) % UMod \in 0 .. UMod - 1 /\ nread % PIPESIZE \in 0 .. PIPESIZE - 1
    <2>1. (nread + 1) % UMod \in 0 .. UMod - 1
      BY <1>1, DivMod, Zenon
    <2>2. nread % PIPESIZE \in 0 .. PIPESIZE - 1
      BY <1>1, DivMod, Zenon
    <2> QED
      BY <2>1, <2>2, Zenon
  <1>4. /\ Length' = Length - 1 /\ Ring(data, nread, Length) # <<>>
        /\ data[nread % PIPESIZE] = Head(Ring(data, nread, Length))
        /\ Ring(data, (nread + 1) % UMod, Length - 1) = Tail(Ring(data, nread, Length))
    BY <1>0, <1>1, RingGet, Zenon
  <1>5. Contents = Ring(data, nread, Length) /\ Contents' = Ring(data', nread', Length')
    BY Zenon DEF Contents, Ring
  <1>6. Contents # <<>> /\ got' = Head(Contents) /\ Contents' = Tail(Contents)
    BY <1>4, <1>5, Zenon
  <1>7. TypeOK'
    BY <1>1, <1>3, SMTT(30) DEF IInv, TypeOK
  <1>8. LockInv'
    BY Zenon DEF IInv, LockInv
  <1>9. EndsInv'
    BY DEF IInv, TypeOK, LockInv, EndsInv, Inside, Reading, Writing, Closing, ClosesRead, ClosesWrite
  <1>10. SleepInv'
    BY Zenon DEF IInv, TypeOK, LockInv, EndsInv, SleepInv, Inside
  <1> QED
    BY <1>1, <1>2, <1>4, <1>6, <1>7, <1>8, <1>9, <1>10, SMTT(30) DEF IInv

(* Steps that leave the ring alone leave its contents alone. *)
LEMMA ContentsKept ==
    ASSUME UNCHANGED <<data, nread, nwrite, got>>
    PROVE  UNCHANGED <<Contents, got>>
  BY Zenon DEF Contents, Length

(* Every step keeps the invariant and is a step of Fifo or leaves its      *)
(* state alone.                                                            *)
LEMMA Step ==
    ASSUME Constants, IInv, [Next]_vars
    PROVE  IInv' /\ [Abstract!Next]_<<Contents, got>>
  <1>1. ASSUME NEW p \in Procs, NEW b \in Bytes, WritePut(p, b)
        PROVE  IInv' /\ [Abstract!Next]_<<Contents, got>>
    <2>1. IInv' /\ Contents' = Append(Contents, b) /\ Length < PIPESIZE /\ got' = got
      BY <1>1, WritePutKeeps, Zenon DEF WritePut
    <2>2. Len(Contents) = Length
      <3>1. /\ UMod \in Nat \ {0} /\ nread \in 0 .. UMod - 1 /\ nwrite \in 0 .. UMod - 1
            /\ data \in [0 .. PIPESIZE - 1 -> Bytes]
        BY SizeAssumption DEF IInv, TypeOK
      <3>2. Length \in Nat
        BY <3>1, RingLength DEF Length, LengthOf
      <3>3. Len(Ring(data, nread, Length)) = Length
        BY <3>1, <3>2, RingSequence, Zenon
      <3> QED
        BY <3>3, Zenon DEF Contents, Ring
    <2> QED
      BY <2>1, <2>2, Zenon DEF Abstract!Next, Abstract!Put
  <1>2. ASSUME NEW p \in Procs, ReadCopy(p)
        PROVE  IInv' /\ [Abstract!Next]_<<Contents, got>>
    BY <1>2, ReadCopyKeeps, Zenon DEF Abstract!Next, Abstract!Get
  <1>3. ASSUME NEW p \in Procs, Acquire(p) \/ Kill(p) \/ PipeClose(p) \/ Close(p)
        PROVE  IInv' /\ UNCHANGED <<Contents, got>>
    <2>1. IInv'
      BY <1>3, AcquireKeeps, KillKeeps, PipeCloseKeeps, CloseSharedKeeps, CloseLastKeeps, Zenon DEF Close
    <2>2. UNCHANGED <<data, nread, nwrite, got>>
      BY <1>3, Zenon DEF Acquire, Kill, PipeClose, Close, CloseShared, CloseLast, ringVars, pipeVars
    <2> QED
      BY <2>1, <2>2, ContentsKept, Zenon
  <1>4. ASSUME NEW p \in Procs, WriteFail(p) \/ WriteFull(p) \/ WriteSleep(p) \/ WriteDone(p)
        PROVE  IInv' /\ UNCHANGED <<Contents, got>>
    <2>1. IInv'
      BY <1>4, WriteFailKeeps, WriteFullKeeps, WriteSleepKeeps, WriteDoneKeeps, Zenon
    <2>2. UNCHANGED <<data, nread, nwrite, got>>
      BY <1>4, Zenon DEF WriteFail, WriteFull, WriteSleep, WriteDone, ringVars, pipeVars
    <2> QED
      BY <2>1, <2>2, ContentsKept, Zenon
  <1>5. ASSUME NEW p \in Procs,
               ReadEmpty(p) \/ ReadFail(p) \/ ReadSleep(p) \/ ReadReady(p) \/ ReadDone(p)
        PROVE  IInv' /\ UNCHANGED <<Contents, got>>
    <2>1. IInv'
      BY <1>5, ReadEmptyKeeps, ReadFailKeeps, ReadSleepKeeps, ReadReadyKeeps, ReadDoneKeeps, Zenon
    <2>2. UNCHANGED <<data, nread, nwrite, got>>
      BY <1>5, Zenon DEF ReadEmpty, ReadFail, ReadSleep, ReadReady, ReadDone, ringVars, pipeVars
    <2> QED
      BY <2>1, <2>2, ContentsKept, Zenon
  <1>6. ASSUME NEW p \in Procs, NEW k \in Counts, CallWrite(p, k) \/ CallRead(p, k)
        PROVE  IInv' /\ UNCHANGED <<Contents, got>>
    <2>1. IInv'
      BY <1>6, CallWriteKeeps, CallReadKeeps, Zenon
    <2>2. UNCHANGED <<data, nread, nwrite, got>>
      BY <1>6, Zenon DEF CallWrite, CallRead, ringVars, pipeVars
    <2> QED
      BY <2>1, <2>2, ContentsKept, Zenon
  <1>7. CASE UNCHANGED vars
    <2>1. IInv'
      BY <1>7 DEF vars, IInv, TypeOK, LockInv, EndsInv, SleepInv, Length, Empty, Full,
                  Reading, Writing, Closing, ClosesRead, ClosesWrite
    <2> QED
      BY <1>7, <2>1, ContentsKept, Zenon DEF vars
  <1> QED
    BY <1>1, <1>2, <1>3, <1>4, <1>5, <1>6, <1>7, Zenon DEF Next, Progress

(* The pipe as pipealloc and fork leave it.  *)
LEMMA Start ==
    ASSUME Constants, Init
    PROVE  IInv /\ Abstract!Init
  <1>1. PIPESIZE \in Nat \ {0} /\ UMod \in Nat \ {0} /\ 0 \in 0 .. UMod - 1
    BY SizeAssumption
  <1>2. (CHOOSE b \in Bytes : TRUE) \in Bytes
    BY Zenon DEF Constants
  <1>3. TypeOK
    BY <1>1, <1>2, Zenon DEF Init, TypeOK, Labels, NoChan
  <1>4. LockInv
    BY Zenon DEF Init, LockInv, Inside, Constants, NoChan
  <1>5. EndsInv
    BY Zenon DEF Init, EndsInv, Reading, Writing, Closing, ClosesRead, ClosesWrite, Procs
  <1>6. SleepInv
    BY Zenon DEF Init, SleepInv, NoChan
  <1>7. Length = 0
    BY <1>1, RingLength, Zenon DEF Init, Length, LengthOf
  <1>8. Contents = <<>>
    BY <1>7 DEF Contents
  <1> QED
    BY <1>1, <1>2, <1>3, <1>4, <1>5, <1>6, <1>7, <1>8, SMTT(30) DEF IInv, Abstract!Init, Init

LEMMA Invariance == Constants /\ Spec => []IInv
  <1> SUFFICES ASSUME Constants
               PROVE  Spec => []IInv
    BY Zenon
  <1>1. Init => IInv
    BY Start, Zenon
  <1>2. IInv /\ [Next]_vars => IInv'
    BY Step, Zenon
  <1> QED
    BY <1>1, <1>2, PTL DEF Spec

-----------------------------------------------------------------------------
(* A process sleeps on the pipe only for a reason that still holds         *)
(* (sleep and wakeup in pipewrite, piperead and pipeclose), for any number *)
(* of processes and any sizes; but a reader may sleep beside bytes whose   *)
(* writer was killed and returned -1 from a full pipe (pipe.c:86-88),      *)
(* until the next wakeup(&p->nread).                                       *)
THEOREM SleepersJustified == Constants /\ Spec => []SleepersHaveReason
  <1> SUFFICES ASSUME Constants
               PROVE  Spec => []SleepersHaveReason
    BY Zenon
  <1>1. IInv => SleepersHaveReason
    BY Zenon DEF Constants, IInv, LockInv, SleepInv, SleepersHaveReason, Inside
  <1> QED
    BY <1>1, Invariance, PTL

(* pipeclose gives the page to kfree only when no process is in pipewrite, *)
(* piperead or pipeclose any more.                                         *)
THEOREM PageFreedLast == Constants /\ Spec => []NoUseAfterFree
  <1>1. IInv => NoUseAfterFree
    BY Zenon DEF IInv, EndsInv, NoUseAfterFree, ClosesRead, ClosesWrite
  <1> QED
    BY <1>1, Invariance, PTL

(* The ring buffer of pipe.c is a bounded first-in first-out queue, across *)
(* every wrap-around of the ring and of the counters.                      *)
THEOREM RingIsFifo == Constants /\ Spec => IsFifo
  <1> SUFFICES ASSUME Constants
               PROVE  Spec => IsFifo
    BY Zenon
  <1>1. Init => Abstract!Init
    BY Start, Zenon
  <1>2. IInv /\ [Next]_vars => [Abstract!Next]_<<Contents, got>>
    BY Step, Zenon
  <1> QED
    BY <1>1, <1>2, Invariance, PTL DEF Spec, IsFifo, Abstract!Spec

=============================================================================
