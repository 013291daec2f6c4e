------------------------------ MODULE LogProofs ------------------------------
(***************************************************************************)
(* The redo log is crash-safe for any number of processes and blocks:      *)
(* whenever the machine stops, also during commit or recovery, the disk    *)
(* recovers to the contents of a moment at which no operation was under    *)
(* way.  The log uses its space as LogSpace says, and nobody sleeps in     *)
(* begin_op without somebody to wake it.                                   *)
(*                                                                         *)
(* The invariant comes in two parts.  OpInv counts the operations under    *)
(* way and says who commits; it is enough for the space accounting, which  *)
(* through LogSpaceProofs bounds the length of the log as long as          *)
(* operations keep to what is reserved.  ContentInv, which needs the       *)
(* entries to fit the log, relates cache, log and home blocks at each      *)
(* statement of commit and of recovery.                                    *)
(***************************************************************************)
EXTENDS Log, FiniteSetTheorems, TLAPS

(* What one operation reserves fits the log (param.h: LOGSIZE is           *)
(* MAXOPBLOCKS * 3), which has a header.                                   *)
Constants ==
    /\ IsFiniteSet(Procs) /\ Blocks # {}
    /\ MAXOPBLOCKS <= LOGSIZE /\ NLog > 0

Active == {p \in Procs : pc[p] \in {"in", "append"}}
Committing == {"write_log", "write_head", "install", "erase", "finish"}

TypeOK ==
    /\ header \in Seq(Blocks) /\ lh \in Seq(Blocks)
    /\ outstanding \in Nat /\ tail \in Nat
    /\ committing \in BOOLEAN /\ panicked \in BOOLEAN
    /\ boot \in {"up", "read_head", "install", "erase"}
    /\ pc \in [Procs -> {"out", "begin", "asleep", "in", "append"} \cup Committing]
    /\ blk \in [Procs -> Blocks]
    /\ wrote \in [Procs -> SUBSET Blocks]

(* The sizes of param.h and mkfs.c satisfy what LogSpaceProofs needs. *)
Sizes == LOGSIZE <= NLog /\ MAXOPBLOCKS < NLog

(* Operations, and the one process that commits. *)
OpInv ==
    /\ outstanding = Cardinality(Active)
    /\ committing => Active = {}
    /\ \A p \in Procs : pc[p] \in Committing => committing
    /\ \A p, q \in Procs : pc[p] \in Committing /\ pc[q] \in Committing => p = q
    /\ boot # "up" => ~committing /\ ~panicked /\ \A p \in Procs : pc[p] = "out"
    /\ boot = "up" /\ Active = {} /\ ~committing => lh = <<>>
    /\ \A p \in Procs : pc[p] \in Committing => (pc[p] = "finish" <=> lh = <<>>)
    /\ SleepersHaveWaker

(* What operations have written is in the log, or is about to be. *)
WroteInv ==
    /\ \A p, q \in Procs : pc[p] = "append" /\ pc[q] = "append" /\ blk[p] = blk[q] => p = q
    /\ \A p \in Procs : IsFiniteSet(wrote[p]) /\ (p \notin Active => wrote[p] = {})
    /\ \A p \in Active : \A b \in wrote[p] :
          b \in Range(lh) \/ (pc[p] = "append" /\ b = blk[p])

IInv == TypeOK /\ OpInv /\ WroteInv

(* The statements at which log blocks or home blocks are written. *)
Writing == {"write_log", "write_head", "install", "erase"}

(* The first k log blocks hold the contents c of the blocks in s. *)
Holds(c, s, k) == \A i \in 1 .. k : c[s[i]] = logdata[i]

(* The contents of cache, log and home blocks at each statement. *)
ContentInv ==
    /\ home \in [Blocks -> Values] /\ cache \in [Blocks -> Values]
    /\ logdata \in [1 .. NLog - 1 -> Values]
    /\ Len(header) <= NLog - 1
    /\ IsInjective(lh) /\ IsInjective(header)
    /\ boot = "up" => \A b \in Blocks :
          cache[b] = home[b] \/ b \in Range(lh) \/ Locked(b)
    /\ boot # "up" => cache = home
    /\ boot = "up" /\ (\A p \in Procs : pc[p] \notin {"install", "erase"}) => header = <<>>
    /\ boot = "up" /\ (\A p \in Procs : pc[p] \notin {"write_log", "install"}) => tail = 0
    /\ \A p \in Procs :
          /\ pc[p] = "write_log" => tail < Len(lh) /\ Holds(cache, lh, tail)
          /\ pc[p] = "write_head" => Holds(cache, lh, Len(lh))
          /\ pc[p] = "install" => /\ header = lh /\ Holds(cache, lh, Len(lh))
                                  /\ tail < Len(lh) /\ Holds(home, lh, tail)
          /\ pc[p] = "erase" => /\ header = lh /\ Holds(cache, lh, Len(lh))
                                /\ Holds(home, lh, Len(lh))
    /\ boot = "read_head" => tail = 0
    /\ boot = "install" => /\ header = lh /\ tail < Len(lh)
                           /\ Holds(home, lh, tail)
    /\ boot = "erase" => header = lh /\ tail = 0 /\ Holds(home, lh, Len(lh))

-----------------------------------------------------------------------------
(* Operations, sleepers and the space accounting *)

LEMMA ActiveFinite ==
    ASSUME Constants
    PROVE  IsFiniteSet(Active) /\ Cardinality(Active) \in Nat
           /\ (Cardinality(Active) = 0 <=> Active = {})
  BY FS_Subset, FS_CardinalityType, FS_EmptySet, Zenon DEF Constants, Active

(* LogSpace brings its own copies of the operators of FiniteSets. *)
LEMMA SameCardinality ==
    ASSUME NEW S
    PROVE  Space!Cardinality(S) = Cardinality(S)
  BY Zenon DEF Space!Cardinality, Cardinality

(* The operations under way are those inside in LogSpace. *)
LEMMA SameOutstanding ==
    ASSUME IInv
    PROVE  /\ Space!Inside = Active /\ Space!outstanding = outstanding
           /\ \A p \in Procs : p \in Active <=> Where[p] # "out"
  <1>1. Space!Inside = Active /\ \A p \in Procs : p \in Active <=> Where[p] # "out"
    BY Zenon DEF IInv, TypeOK, Space!Inside, Where, Active
  <1> QED
    BY <1>1, SameCardinality, Zenon DEF Space!outstanding, IInv, OpInv

(* A function changes in one place. *)
LEMMA Updated ==
    ASSUME NEW S, NEW f, NEW g, NEW p \in S, NEW v,
           f = [q \in S |-> f[q]], g = [q \in S |-> g[q]],
           \A q \in S : g[q] = IF q = p THEN v ELSE f[q]
    PROVE  g = [f EXCEPT ![p] = v]
  BY Zenon

(* Where and Logged are functions on Procs. *)
LEMMA Functional ==
    /\ Where = [q \in Procs |-> Where[q]] /\ Logged = [q \in Procs |-> Logged[q]]
    /\ Where' = [q \in Procs |-> Where'[q]] /\ Logged' = [q \in Procs |-> Logged'[q]]
  BY Zenon DEF Where, Logged

(* An entry is appended to the log. *)
LEMMA AppendSet ==
    ASSUME NEW s \in Seq(Blocks), NEW b \in Blocks
    PROVE  /\ Append(s, b) \in Seq(Blocks) /\ Len(Append(s, b)) = Len(s) + 1
           /\ Range(Append(s, b)) = Range(s) \cup {b}
           /\ Range(s) \in SUBSET Blocks
           /\ (s = <<>> <=> Len(s) = 0) /\ (s = <<>> <=> Range(s) = {})
           /\ Range(<<>>) = {} /\ Append(s, b) # <<>>
  <1>1. /\ Append(s, b) \in Seq(Blocks) /\ Len(Append(s, b)) = Len(s) + 1
        /\ \A i \in 1 .. Len(s) : Append(s, b)[i] = s[i]
        /\ Append(s, b)[Len(s) + 1] = b
        /\ DOMAIN s = 1 .. Len(s) /\ Len(s) \in Nat
        /\ DOMAIN Append(s, b) = 1 .. Len(s) + 1
    OBVIOUS
  <1>2. ASSUME NEW c PROVE c \in Range(Append(s, b)) <=> c \in Range(s) \cup {b}
    <2>1. c \in Range(s) => c \in Range(Append(s, b))
      BY <1>1 DEF Range
    <2>2. b \in Range(Append(s, b))
      <3>1. Len(s) + 1 \in 1 .. Len(s) + 1
        BY <1>1
      <3> QED
        BY <1>1, <3>1, Zenon DEF Range
    <2>3. c \in Range(Append(s, b)) => c \in Range(s) \cup {b}
      <3> SUFFICES ASSUME NEW i \in 1 .. Len(s) + 1, c = Append(s, b)[i]
                   PROVE  c \in Range(s) \cup {b}
        BY <1>1, Zenon DEF Range
      <3>1. CASE i \in 1 .. Len(s)
        BY <1>1, <3>1, Zenon DEF Range
      <3>2. CASE i = Len(s) + 1
        BY <1>1, <3>2, Zenon
      <3> QED
        BY <1>1, <3>1, <3>2
    <2> QED
      BY <2>1, <2>2, <2>3, Zenon
  <1>3. Range(s) \in SUBSET Blocks
    BY DEF Range
  <1>4. s = <<>> <=> Range(s) = {}
    BY DEF Range
  <1>5. (s = <<>> <=> Len(s) = 0) /\ Append(s, b) # <<>>
    BY SMTT(30)
  <1>6. Range(<<>>) = {}
    BY DEF Range
  <1>7. Range(Append(s, b)) = Range(s) \cup {b}
    BY <1>2, Zenon
  <1> QED
    BY <1>1, <1>3, <1>4, <1>5, <1>6, <1>7, Zenon

(* A step that changes neither operations nor the log. *)
LEMMA QuietKeeps ==
    ASSUME Constants, IInv, NEW p \in Procs, NEW l \in {"begin"} \cup (Committing \ {"finish"}),
           boot = "up", pc' = [pc EXCEPT ![p] = l],
           <<pc[p], l>> \in {<<"out", "begin">>} \cup
               ((Committing \ {"finish"}) \X (Committing \ {"finish"})),
           tail' \in Nat, header' \in Seq(Blocks),
           UNCHANGED <<lh, outstanding, committing, boot, panicked, blk, wrote, peak>>
    PROVE  IInv' /\ UNCHANGED Space!vars
  <1>1. \A q \in Procs : pc'[q] = IF q = p THEN l ELSE pc[q]
    BY Zenon DEF IInv, TypeOK
  <1>2. l \in {"begin", "write_log", "write_head", "install", "erase"}
        /\ pc[p] \in {"out", "write_log", "write_head", "install", "erase"}
        /\ (pc[p] \in Committing <=> l \in Committing) /\ pc[p] # "finish"
    BY Zenon DEF Committing
  <1>3. TypeOK'
    BY <1>2, Zenon DEF IInv, TypeOK, Committing
  <1>4. Active' = Active
    BY <1>1, <1>2, Zenon DEF Active
  <1>5. OpInv'
    <2>1. \A q \in Procs : pc'[q] \in Committing <=> pc[q] \in Committing
      BY <1>1, <1>2, Zenon
    <2>2. \A q \in Procs : pc'[q] \in Committing => (pc'[q] = "finish" <=> pc[q] = "finish")
      BY <1>1, <1>2, Zenon DEF Committing
    <2>3. \A q \in Procs : pc'[q] = "asleep" => pc[q] = "asleep"
      BY <1>1, <1>2, Zenon
    <2> QED
      BY <1>4, <2>1, <2>2, <2>3, Zenon DEF IInv, OpInv, SleepersHaveWaker
  <1>6. \A q \in Procs : /\ pc'[q] = "append" <=> pc[q] = "append"
                         /\ pc'[q] = "in" <=> pc[q] = "in"
    BY <1>1, <1>2, Zenon
  <1>7. WroteInv'
    BY <1>4, <1>6 DEF IInv, WroteInv
  <1>8. UNCHANGED <<Entries, Where, Logged>>
    BY <1>6, Zenon DEF Entries, Where, Logged
  <1> QED
    BY <1>3, <1>5, <1>7, <1>8, Zenon DEF IInv, Space!vars

(* begin_op finds no space, or a commit: somebody else is active then,     *)
(* since one operation alone fits an empty log.                            *)
LEMMA BeginSleepKeeps ==
    ASSUME Constants, IInv, NEW p \in Procs, BeginSleep(p)
    PROVE  IInv' /\ UNCHANGED Space!vars
  <1>0. /\ boot = "up" /\ pc[p] = "begin" /\ ~MayBegin /\ pc' = [pc EXCEPT ![p] = "asleep"]
        /\ UNCHANGED <<header, lh, outstanding, committing, tail, boot, panicked, blk, wrote, peak>>
    BY Zenon DEF BeginSleep, Running, Goto, diskVars, memVars, opVars
  <1>1. \A q \in Procs : pc'[q] = IF q = p THEN "asleep" ELSE pc[q]
    BY <1>0, Zenon DEF IInv, TypeOK
  <1>2. TypeOK'
    BY <1>0, Zenon DEF IInv, TypeOK
  <1>3. Active' = Active
    BY <1>0, <1>1 DEF Active
  <1>4. outstanding > 0 \/ committing
    <2> SUFFICES ASSUME ~committing, outstanding = 0 PROVE FALSE
      BY DEF IInv, TypeOK
    <2>1. lh = <<>>
      BY <1>0, ActiveFinite, Zenon DEF IInv, OpInv
    <2> QED
      BY <1>0, <2>1, SizesAssumption DEF MayBegin, Constants
  <1>5. OpInv'
    BY <1>0, <1>1, <1>3, <1>4 DEF IInv, OpInv, SleepersHaveWaker, Committing
  <1>6. \A q \in Procs : /\ pc'[q] = "append" <=> pc[q] = "append"
                         /\ pc'[q] = "in" <=> pc[q] = "in"
    BY <1>0, <1>1, SMTT(30)
  <1>7. WroteInv'
    BY <1>0, <1>3, <1>6 DEF IInv, WroteInv
  <1>8. UNCHANGED <<Entries, Where, Logged>>
    BY <1>0, <1>6, Zenon DEF Entries, Where, Logged
  <1> QED
    BY <1>0, <1>2, <1>5, <1>7, <1>8, Zenon DEF IInv, Space!vars

LEMMA BeginOpKeeps ==
    ASSUME Constants, IInv, NEW p \in Procs, BeginOp(p)
    PROVE  IInv' /\ Space!BeginOp(p)
  <1>0. /\ boot = "up" /\ ~panicked /\ pc[p] = "begin" /\ MayBegin
        /\ pc' = [pc EXCEPT ![p] = "in"] /\ outstanding' = outstanding + 1
        /\ UNCHANGED <<header, lh, committing, tail, boot, panicked, blk, wrote, peak>>
    BY Zenon DEF BeginOp, Running, Goto, diskVars, memVars, opVars
  <1>1. \A q \in Procs : pc'[q] = IF q = p THEN "in" ELSE pc[q]
    BY <1>0, Zenon DEF IInv, TypeOK
  <1>2. TypeOK'
    BY <1>0 DEF IInv, TypeOK
  <1>3. Active' = Active \cup {p} /\ p \notin Active
    BY <1>0, <1>1, Zenon DEF Active
  <1>4. outstanding' = Cardinality(Active')
    BY <1>0, <1>3, ActiveFinite, FS_AddElement, Zenon DEF IInv, OpInv
  <1>5. ~committing
    BY <1>0, Zenon DEF MayBegin
  <1>6. OpInv'
    BY <1>0, <1>1, <1>2, <1>3, <1>4, <1>5, SMTT(30)
       DEF IInv, TypeOK, OpInv, SleepersHaveWaker, Committing
  <1>7. wrote[p] = {}
    BY <1>0, Zenon DEF IInv, WroteInv, Active
  <1>8. WroteInv'
    BY <1>0, <1>1, <1>3, <1>7, SMTT(30) DEF IInv, WroteInv
  <1>9. Where' = [Where EXCEPT ![p] = "in"] /\ Where[p] = "out" /\ UNCHANGED <<Entries, Logged>>
    <2>1. \A q \in Procs : Where'[q] = IF q = p THEN "in" ELSE Where[q]
      BY <1>0, <1>1 DEF Where
    <2>2. Where' = [Where EXCEPT ![p] = "in"]
      BY <2>1, Updated, Functional, Zenon
    <2> QED
      BY <1>0, <2>2, Zenon DEF Where, Entries, Logged
  <1>10. Space!MayBegin
    <2>1. Space!outstanding = outstanding /\ Entries = Len(lh)
      BY <1>0, SameOutstanding, Zenon DEF Entries
    <2> QED
      BY <1>0, <2>1, Zenon DEF MayBegin, Space!MayBegin
  <1> QED
    BY <1>0, <1>2, <1>6, <1>8, <1>9, <1>10, Zenon DEF IInv, Space!BeginOp

LEMMA ModifyKeeps ==
    ASSUME Constants, IInv, NEW p \in Procs, NEW b \in Blocks, NEW v \in Values, Modify(p, b, v)
    PROVE  IInv' /\ Space!Modify(p, b \notin wrote[p], b \notin Range(lh))
  <1>0. /\ boot = "up" /\ ~panicked /\ pc[p] = "in" /\ ~Locked(b)
        /\ Cardinality(wrote[p] \cup {b}) <= OpBlocks
        /\ wrote' = [wrote EXCEPT ![p] = @ \cup {b}]
        /\ peak' = IF Cardinality(wrote'[p]) > peak THEN Cardinality(wrote'[p]) ELSE peak
        /\ blk' = [blk EXCEPT ![p] = b]
        /\ panicked' = (LogFull \/ outstanding < 1)
        /\ pc' = [pc EXCEPT ![p] = "append"]
        /\ UNCHANGED <<header, lh, outstanding, committing, tail, boot>>
    BY Zenon DEF Modify, Running, Goto, diskVars
  <1>1. \A q \in Procs : /\ pc'[q] = IF q = p THEN "append" ELSE pc[q]
                         /\ blk'[q] = IF q = p THEN b ELSE blk[q]
                         /\ wrote'[q] = IF q = p THEN wrote[p] \cup {b} ELSE wrote[q]
    BY <1>0, Zenon DEF IInv, TypeOK
  <1>2. TypeOK'
    <2>1. panicked' \in BOOLEAN
      BY <1>0, Zenon
    <2>2. wrote' \in [Procs -> SUBSET Blocks]
      BY <1>0, Zenon DEF IInv, TypeOK
    <2> QED
      BY <1>0, <2>1, <2>2, Zenon DEF IInv, TypeOK
  <1>3. Active' = Active /\ p \in Active
    BY <1>0, <1>1, Zenon DEF Active
  <1>4. OpInv'
    <2>1. \A q \in Procs : /\ pc'[q] \in Committing => pc[q] = pc'[q]
                           /\ pc'[q] = "asleep" => pc[q] = "asleep"
      BY <1>0, <1>1 DEF Committing
    <2> QED
      BY <1>0, <1>3, <2>1, Zenon DEF IInv, OpInv, SleepersHaveWaker
  <1>5. IsFiniteSet(wrote[p]) /\ IsFiniteSet(wrote[p] \cup {b})
    BY FS_AddElement, Zenon DEF IInv, WroteInv
  <1>6. WroteInv'
    <2>1. ASSUME NEW q \in Procs, NEW r \in Procs,
                 pc'[q] = "append", pc'[r] = "append", blk'[q] = blk'[r]
          PROVE  q = r
      BY <1>0, <1>1, <2>1, SMTT(30) DEF IInv, WroteInv, Locked
    <2>2. ASSUME NEW q \in Active', NEW c \in wrote'[q]
          PROVE  c \in Range(lh') \/ (pc'[q] = "append" /\ c = blk'[q])
      BY <1>0, <1>1, <1>3, <2>2, SMTT(30) DEF IInv, WroteInv, Active
    <2>3. \A q \in Procs : IsFiniteSet(wrote'[q]) /\ (q \notin Active' => wrote'[q] = {})
      BY <1>1, <1>3, <1>5, Zenon DEF IInv, WroteInv
    <2> QED
      BY <2>1, <2>2, <2>3, Zenon DEF WroteInv
  <1>7. UNCHANGED Entries /\ Entries = Len(lh)
    BY <1>0, Zenon DEF Entries
  <1>8. Where' = [Where EXCEPT ![p] = IF b \notin Range(lh) THEN "append" ELSE "absorb"]
    <2>1. \A q \in Procs : Where'[q] = IF q = p THEN IF b \notin Range(lh) THEN "append" ELSE "absorb"
                                       ELSE Where[q]
      BY <1>0, <1>1, SMTT(30) DEF Where
    <2> QED
      BY <2>1, Updated, Functional, Zenon
  <1>9. /\ Logged[p] = Cardinality(wrote[p]) /\ Logged[p] \in Nat
        /\ b \in wrote[p] => wrote[p] \cup {b} = wrote[p] /\ Logged[p] > 0
        /\ b \notin wrote[p] => Cardinality(wrote[p] \cup {b}) = Logged[p] + 1
    BY <1>5, FS_AddElement, FS_EmptySet, FS_CardinalityType, SMTT(30) DEF Logged
  <1>10. Logged' = [Logged EXCEPT ![p] = IF b \notin wrote[p] THEN @ + 1 ELSE @]
    <2>1. \A q \in Procs : Logged'[q] = IF q = p
                                        THEN IF b \notin wrote[p] THEN Logged[p] + 1 ELSE Logged[p]
                                        ELSE Logged[q]
      BY <1>1, <1>9, Zenon DEF Logged
    <2> QED
      BY <2>1, Updated, Functional, Zenon
  <1>11. /\ b \notin Range(lh) => b \notin wrote[p]
         /\ IF b \notin wrote[p] THEN Logged[p] < OpBlocks ELSE Logged[p] > 0
         /\ ~(b \notin Range(lh)) => Entries > 0
    <2>1. b \notin Range(lh) => b \notin wrote[p]
      BY <1>0, <1>3, Zenon DEF IInv, WroteInv
    <2>2. IF b \notin wrote[p] THEN Logged[p] < OpBlocks ELSE Logged[p] > 0
      BY <1>0, <1>9, SizesAssumption, SMTT(30)
    <2>3. b \in Range(lh) => Entries > 0
      BY <1>7, AppendSet DEF IInv, TypeOK
    <2> QED
      BY <2>1, <2>2, <2>3, Zenon
  <1>12. Where[p] = "in" /\ panicked' = (Space!LogFull \/ Space!outstanding < 1)
    BY <1>0, <1>7, SameOutstanding, Zenon DEF Where, LogFull, Space!LogFull
  <1>13. peak' = IF Logged'[p] > peak THEN Logged'[p] ELSE peak
    <2>1. Logged'[p] = Cardinality(wrote'[p])
      BY Zenon DEF Logged
    <2> QED
      BY <1>0, <2>1
  <1> QED
    BY <1>0, <1>2, <1>4, <1>6, <1>7, <1>8, <1>10, <1>11, <1>12, <1>13, Zenon DEF IInv, Space!Modify

LEMMA LogWriteKeeps ==
    ASSUME Constants, IInv, NEW p \in Procs, LogWrite(p)
    PROVE  IInv' /\ Space!LogWrite(p)
  <1>0. /\ boot = "up" /\ ~panicked /\ pc[p] = "append"
        /\ lh' = IF blk[p] \in Range(lh) THEN lh ELSE Append(lh, blk[p])
        /\ blk' = [blk EXCEPT ![p] = NoBlock]
        /\ pc' = [pc EXCEPT ![p] = "in"]
        /\ UNCHANGED <<header, outstanding, committing, tail, boot, panicked, wrote, peak>>
    BY Zenon DEF LogWrite, Running, Goto, diskVars
  <1>1. \A q \in Procs : /\ pc'[q] = IF q = p THEN "in" ELSE pc[q]
                         /\ q # p => blk'[q] = blk[q]
    BY <1>0, Zenon DEF IInv, TypeOK
  <1>2. /\ lh' \in Seq(Blocks) /\ Range(lh') = Range(lh) \cup {blk[p]}
        /\ Len(lh') = IF blk[p] \in Range(lh) THEN Len(lh) ELSE Len(lh) + 1
    BY <1>0, AppendSet, Zenon DEF IInv, TypeOK
  <1>3. TypeOK'
    <2>1. NoBlock \in Blocks
      BY Zenon DEF NoBlock, Constants
    <2> QED
      BY <1>0, <1>2, <2>1, Zenon DEF IInv, TypeOK
  <1>4. Active' = Active /\ p \in Active
    BY <1>0, <1>1, Zenon DEF Active
  <1>5. OpInv'
    <2>1. ~committing
      BY <1>4, Zenon DEF IInv, OpInv
    <2>2. \A q \in Procs : /\ pc'[q] \notin Committing
                           /\ pc'[q] = "asleep" => pc[q] = "asleep"
      BY <1>0, <1>1, <2>1 DEF IInv, OpInv, Committing
    <2> QED
      BY <1>0, <1>4, <2>1, <2>2, Zenon DEF IInv, OpInv, SleepersHaveWaker
  <1>6. WroteInv'
    <2>1. \A q, r \in Procs : pc'[q] = "append" /\ pc'[r] = "append" /\ blk'[q] = blk'[r] => q = r
      BY <1>0, <1>1 DEF IInv, WroteInv
    <2>2. \A q \in Active' : \A c \in wrote'[q] :
             c \in Range(lh') \/ (pc'[q] = "append" /\ c = blk'[q])
      BY <1>0, <1>1, <1>2, <1>4, Zenon DEF IInv, WroteInv, Active
    <2>3. \A q \in Procs : IsFiniteSet(wrote'[q]) /\ (q \notin Active' => wrote'[q] = {})
      BY <1>0, <1>4, Zenon DEF IInv, WroteInv
    <2> QED
      BY <2>1, <2>2, <2>3, Zenon DEF WroteInv
  <1>7. Where' = [Where EXCEPT ![p] = "in"]
    <2>1. \A q \in Procs : q # p /\ pc[q] = "append" => blk[q] # blk[p]
      BY <1>0, Zenon DEF IInv, WroteInv
    <2>2. \A q \in Procs : Where'[q] = IF q = p THEN "in" ELSE Where[q]
      BY <1>0, <1>1, <1>2, <2>1, SMTT(30) DEF Where
    <2> QED
      BY <2>2, Updated, Functional, Zenon
  <1>8. Where[p] = IF blk[p] \in Range(lh) THEN "absorb" ELSE "append"
    BY <1>0, Zenon DEF Where
  <1>9. Entries' = IF Where[p] = "append" THEN Entries + 1 ELSE Entries
    BY <1>0, <1>2, <1>8, Zenon DEF Entries
  <1>10. UNCHANGED Logged
    BY <1>0, Zenon DEF Logged
  <1> QED
    BY <1>0, <1>3, <1>5, <1>6, <1>7, <1>8, <1>9, <1>10, Zenon DEF IInv, Space!LogWrite

(* What both outcomes of end_op have in common. *)
LEMMA EndOpCounts ==
    ASSUME Constants, IInv, NEW p \in Procs, NEW last \in BOOLEAN, EndOp(p, last),
           NEW l \in {"out", "finish", "write_log"},
           \A q \in Procs : pc'[q] = IF q = p THEN l
                                     ELSE IF ~last /\ pc[q] = "asleep" THEN "begin" ELSE pc[q],
           committing' = (committing \/ last)
    PROVE  /\ Active' = Active \ {p} /\ p \in Active /\ outstanding' = Cardinality(Active')
           /\ last <=> Active = {p}
           /\ ~committing /\ outstanding' \in Nat
           /\ WroteInv' /\ Space!EndOp(p)
  <1>0. /\ boot = "up" /\ ~panicked /\ pc[p] = "in"
        /\ last = (outstanding - 1 = 0)
        /\ outstanding' = outstanding - 1
        /\ panicked' = committing
        /\ wrote' = [wrote EXCEPT ![p] = {}]
        /\ UNCHANGED <<header, lh, tail, boot, blk, peak>>
    BY Zenon DEF EndOp, Running, diskVars, memVars
  <1>1. Active' = Active \ {p} /\ p \in Active
    BY <1>0, Zenon DEF Active
  <1>2. outstanding' = Cardinality(Active')
    BY <1>0, <1>1, ActiveFinite, FS_RemoveElement, Zenon DEF IInv, OpInv
  <1>3. last <=> Active = {p}
    <2>1. last <=> Cardinality(Active') = 0
      BY <1>0, <1>2, Zenon
    <2>2. Cardinality(Active') = 0 <=> Active' = {}
      BY <1>1, ActiveFinite, FS_RemoveElement, FS_EmptySet, Zenon
    <2> QED
      BY <1>1, <2>1, <2>2, Zenon
  <1>4. ~committing
    BY <1>1, Zenon DEF IInv, OpInv
  <1>5. outstanding' \in Nat
    BY <1>1, <1>2, ActiveFinite, FS_RemoveElement, FS_CardinalityType, Zenon
  <1>6. \A q \in Procs : wrote'[q] = IF q = p THEN {} ELSE wrote[q]
    BY <1>0, Zenon DEF IInv, TypeOK
  <1>7. \A q \in Procs : /\ pc'[q] = "append" <=> pc[q] = "append"
                         /\ pc'[q] = "in" <=> pc[q] = "in" /\ q # p
    BY <1>0, Zenon
  <1>8. WroteInv'
    <2>1. \A q \in Procs : IsFiniteSet(wrote'[q]) /\ (q \notin Active' => wrote'[q] = {})
      BY <1>1, <1>6, FS_EmptySet, Zenon DEF IInv, WroteInv
    <2>2. \A q, r \in Procs : pc'[q] = "append" /\ pc'[r] = "append" /\ blk'[q] = blk'[r] => q = r
      BY <1>0, <1>7, Zenon DEF IInv, WroteInv
    <2>3. \A q \in Active' : \A c \in wrote'[q] :
             c \in Range(lh') \/ (pc'[q] = "append" /\ c = blk'[q])
      BY <1>0, <1>1, <1>6, <1>7, Zenon DEF IInv, WroteInv, Active
    <2> QED
      BY <2>1, <2>2, <2>3, Zenon DEF WroteInv
  <1>9. Where[p] = "in" /\ Where' = [Where EXCEPT ![p] = "out"]
    <2>1. \A q \in Procs : Where'[q] = IF q = p THEN "out" ELSE Where[q]
      BY <1>0, <1>7, Zenon DEF Where
    <2> QED
      BY <1>0, <2>1, Updated, Functional, ZenonT(30) DEF Where
  <1>10. Logged' = [Logged EXCEPT ![p] = 0]
    <2>1. \A q \in Procs : Logged'[q] = IF q = p THEN 0 ELSE Logged[q]
      BY <1>6, FS_EmptySet, Zenon DEF Logged
    <2> QED
      BY <2>1, Updated, Functional, Zenon
  <1>11. committing' = (committing \/ Space!Inside = {p}) /\ UNCHANGED Entries
    BY <1>0, <1>3, SameOutstanding, Zenon DEF Entries
  <1>12. Space!EndOp(p)
    BY <1>0, <1>9, <1>10, <1>11, Zenon DEF Space!EndOp
  <1> QED
    BY <1>1, <1>2, <1>3, <1>4, <1>5, <1>8, <1>12, Zenon

LEMMA EndOpOtherKeeps ==
    ASSUME Constants, IInv, NEW p \in Procs, EndOpOther(p)
    PROVE  IInv' /\ Space!EndOp(p)
  <1>0. /\ EndOp(p, FALSE) /\ boot = "up" /\ pc[p] = "in"
        /\ pc' = Wakeup([pc EXCEPT ![p] = "out"]) /\ UNCHANGED committing
        /\ panicked' = committing /\ wrote' = [wrote EXCEPT ![p] = {}]
        /\ UNCHANGED <<header, lh, tail, boot, blk, peak>>
    BY Zenon DEF EndOpOther, EndOp, Running, diskVars, memVars
  <1>1. \A q \in Procs : pc'[q] = IF q = p THEN "out" ELSE IF pc[q] = "asleep" THEN "begin" ELSE pc[q]
    BY <1>0, Zenon DEF Wakeup, IInv, TypeOK
  <1>2. /\ Active' = Active \ {p} /\ p \in Active /\ outstanding' = Cardinality(Active')
        /\ Active # {p} /\ ~committing /\ outstanding' \in Nat
        /\ WroteInv' /\ Space!EndOp(p)
    <2>1. committing' = (committing \/ FALSE)
      BY <1>0, Zenon DEF IInv, TypeOK
    <2> QED
      BY <1>0, <1>1, <2>1, EndOpCounts, ZenonT(30)
  <1>3. TypeOK'
    <2>1. pc' \in [Procs -> {"out", "begin", "asleep", "in", "append"} \cup Committing]
      BY <1>0, Zenon DEF Wakeup, IInv, TypeOK
    <2> QED
      BY <1>0, <1>2, <2>1, Zenon DEF IInv, TypeOK
  <1>4. OpInv'
    <2>1. \A q \in Procs : pc'[q] \notin Committing /\ pc'[q] # "asleep"
      BY <1>1, <1>2, Zenon DEF IInv, OpInv, Committing
    <2>2. Active' # {}
      BY <1>2, Zenon
    <2> QED
      BY <1>0, <1>2, <2>1, <2>2, Zenon DEF IInv, OpInv, SleepersHaveWaker
  <1> QED
    BY <1>2, <1>3, <1>4, Zenon DEF IInv

LEMMA EndOpLastKeeps ==
    ASSUME Constants, IInv, NEW p \in Procs, EndOpLast(p)
    PROVE  IInv' /\ Space!EndOp(p)
  <1> DEFINE l == IF lh = <<>> THEN "finish" ELSE "write_log"
  <1>0. /\ EndOp(p, TRUE) /\ boot = "up" /\ pc[p] = "in"
        /\ pc' = [pc EXCEPT ![p] = l] /\ committing' = TRUE
        /\ panicked' = committing /\ wrote' = [wrote EXCEPT ![p] = {}]
        /\ UNCHANGED <<header, lh, tail, boot, blk, peak>>
    BY Zenon DEF EndOpLast, EndOp, Running, diskVars, memVars, Goto
  <1>1. \A q \in Procs : pc'[q] = IF q = p THEN l ELSE pc[q]
    BY <1>0, Zenon DEF IInv, TypeOK
  <1>2. /\ Active' = Active \ {p} /\ p \in Active /\ outstanding' = Cardinality(Active')
        /\ Active = {p} /\ ~committing /\ outstanding' \in Nat
        /\ WroteInv' /\ Space!EndOp(p)
    <2>1. committing' = (committing \/ TRUE)
      BY <1>0, Zenon
    <2> QED
      BY <1>0, <1>1, <2>1, EndOpCounts, ZenonT(30)
  <1>3. TypeOK'
    <2>1. pc' \in [Procs -> {"out", "begin", "asleep", "in", "append"} \cup Committing]
      BY <1>0, Zenon DEF Committing, IInv, TypeOK
    <2> QED
      BY <1>0, <1>2, <2>1, Zenon DEF IInv, TypeOK
  <1>4. OpInv'
    <2>1. \A q \in Procs : pc'[q] \in Committing => q = p
      BY <1>1, <1>2, Zenon DEF IInv, OpInv, Committing
    <2>2. Active' = {}
      BY <1>2, Zenon
    <2> QED
      BY <1>0, <1>1, <1>2, <2>1, <2>2 DEF IInv, OpInv, SleepersHaveWaker
  <1> QED
    BY <1>2, <1>3, <1>4, Zenon DEF IInv

LEMMA CallBeginOpKeeps ==
    ASSUME Constants, IInv, NEW p \in Procs, CallBeginOp(p)
    PROVE  IInv' /\ UNCHANGED Space!vars
  BY QuietKeeps, Zenon DEF CallBeginOp, Running, Goto, diskVars, memVars, opVars, IInv, TypeOK

(* A round of a loop of commit. *)
LEMMA CommitLoop ==
    ASSUME Constants, IInv, NEW p \in Procs, boot = "up",
           NEW again \in Committing \ {"finish"}, NEW done \in Committing \ {"finish"},
           pc[p] \in Committing \ {"finish"}, Loop(p, again, done), header' \in Seq(Blocks),
           UNCHANGED <<lh, outstanding, committing, boot, panicked, blk, wrote, peak>>
    PROVE  IInv' /\ UNCHANGED Space!vars
  <1> DEFINE l == IF LastRound THEN done ELSE again
  <1>1. tail' \in Nat /\ pc' = [pc EXCEPT ![p] = l] /\ l \in Committing \ {"finish"}
    BY DEF Loop, Goto, IInv, TypeOK
  <1> HIDE DEF l
  <1> QED
    BY <1>1, QuietKeeps, Zenon

LEMMA CommitKeeps ==
    ASSUME Constants, IInv, NEW p \in Procs, WriteLog(p) \/ WriteHead(p) \/ InstallTrans(p)
    PROVE  IInv' /\ UNCHANGED Space!vars
  <1>1. CASE WriteLog(p)
    BY <1>1, CommitLoop, Zenon DEF WriteLog, Running, memVars, opVars, Committing, IInv, TypeOK
  <1>2. CASE WriteHead(p)
    BY <1>2, QuietKeeps, Zenon DEF WriteHead, Goto, Running, memVars, opVars, Committing, IInv, TypeOK
  <1>3. CASE InstallTrans(p)
    BY <1>3, CommitLoop, Zenon DEF InstallTrans, Running, opVars, Committing, IInv, TypeOK
  <1> QED
    BY <1>1, <1>2, <1>3, Zenon

LEMMA EraseKeeps ==
    ASSUME Constants, IInv, NEW p \in Procs, Erase(p)
    PROVE  IInv' /\ Space!Erase
  <1>0. /\ boot = "up" /\ ~panicked /\ pc[p] = "erase" /\ lh' = <<>> /\ header' = <<>>
        /\ pc' = [pc EXCEPT ![p] = "finish"]
        /\ peak' = 0
        /\ UNCHANGED <<outstanding, committing, tail, boot, panicked, blk, wrote>>
    BY Zenon DEF Erase, EraseLog, Running, Goto, opVars
  <1>1. \A q \in Procs : pc'[q] = IF q = p THEN "finish" ELSE pc[q]
    BY <1>0, Zenon DEF IInv, TypeOK
  <1>2. committing /\ lh # <<>> /\ Active = {}
    BY <1>0, Zenon DEF IInv, OpInv, Committing
  <1>3. TypeOK'
    BY <1>0 DEF IInv, TypeOK, Committing
  <1>4. Active' = Active
    BY <1>0, <1>1 DEF Active
  <1>5. OpInv'
    <2>1. \A q \in Procs : pc'[q] \in Committing => q = p
      BY <1>0, <1>1, Zenon DEF IInv, OpInv, Committing
    <2> QED
      BY <1>0, <1>1, <1>2, <1>4, <2>1, Zenon DEF IInv, OpInv, SleepersHaveWaker, Committing
  <1>6. WroteInv'
    BY <1>0, <1>1, <1>2, <1>4, SMTT(30) DEF IInv, WroteInv
  <1>7. Where' = Where
    <2>1. \A q \in Procs : pc[q] \notin {"in", "append"} /\ pc'[q] \notin {"in", "append"}
      BY <1>2, <1>4, Zenon DEF Active
    <2> QED
      BY <2>1, Zenon DEF Where
  <1>8. Entries > 0 /\ Entries' = 0 /\ UNCHANGED Logged
    BY <1>0, <1>2 DEF Entries, Logged, IInv, TypeOK
  <1> QED
    BY <1>0, <1>2, <1>3, <1>5, <1>6, <1>7, <1>8, Zenon DEF IInv, Space!Erase

LEMMA FinishKeeps ==
    ASSUME Constants, IInv, NEW p \in Procs, Finish(p)
    PROVE  IInv' /\ Space!Finish
  <1>0. /\ boot = "up" /\ ~panicked /\ pc[p] = "finish" /\ committing' = FALSE
        /\ pc' = Wakeup([pc EXCEPT ![p] = "out"])
        /\ UNCHANGED <<header, lh, outstanding, tail, boot, panicked, blk, wrote, peak>>
    BY Zenon DEF Finish, Running, diskVars, memVars, opVars
  <1>1. \A q \in Procs : pc'[q] = IF q = p THEN "out" ELSE IF pc[q] = "asleep" THEN "begin" ELSE pc[q]
    BY <1>0, Zenon DEF Wakeup, IInv, TypeOK
  <1>2. committing /\ lh = <<>> /\ Active = {}
    BY <1>0, Zenon DEF IInv, OpInv, Committing
  <1>3. TypeOK'
    <2>1. pc' \in [Procs -> {"out", "begin", "asleep", "in", "append"} \cup Committing]
      BY <1>0, Zenon DEF Wakeup, IInv, TypeOK
    <2> QED
      BY <1>0, <2>1, Zenon DEF IInv, TypeOK
  <1>4. Active' = Active
    BY <1>0, <1>1, Zenon DEF Active
  <1>5. OpInv'
    <2>1. \A q \in Procs : pc'[q] \notin Committing /\ pc'[q] # "asleep"
      BY <1>0, <1>1, Zenon DEF IInv, OpInv, Committing
    <2> QED
      BY <1>0, <1>2, <1>4, <2>1, Zenon DEF IInv, OpInv, SleepersHaveWaker
  <1>6. WroteInv'
    <2>1. \A q \in Procs : pc'[q] # "append"
      BY <1>2, <1>4, Zenon DEF Active
    <2> QED
      BY <1>0, <1>2, <1>4, <2>1, Zenon DEF IInv, WroteInv
  <1>7. Where' = Where
    <2>1. \A q \in Procs : pc[q] \notin {"in", "append"} /\ pc'[q] \notin {"in", "append"}
      BY <1>2, <1>4, Zenon DEF Active
    <2> QED
      BY <2>1, Zenon DEF Where
  <1>8. Entries = 0 /\ UNCHANGED <<Entries, Logged>>
    BY <1>0, <1>2, Zenon DEF Entries, Logged
  <1> QED
    BY <1>0, <1>2, <1>3, <1>5, <1>6, <1>7, <1>8, Zenon DEF IInv, Space!Finish

LEMMA CrashKeeps ==
    ASSUME Constants, IInv, Crash
    PROVE  IInv' /\ Space!Restart
  <1>1. TypeOK'
    <2>1. NoBlock \in Blocks
      BY Zenon DEF NoBlock, Constants
    <2>2. committing' \in BOOLEAN /\ panicked' \in BOOLEAN
      BY Zenon DEF Crash
    <2> QED
      BY <2>1, <2>2 DEF Crash, diskVars, IInv, TypeOK
  <1>2. Active' = {} /\ Cardinality(Active') = 0
    BY FS_EmptySet, Zenon DEF Crash, Active
  <1>3. OpInv'
    BY <1>2, Zenon DEF Crash, OpInv, SleepersHaveWaker, Committing
  <1>4. WroteInv'
    BY <1>2, FS_EmptySet, Zenon DEF Crash, WroteInv
  <1>5. Where' = [p \in Procs |-> "out"] /\ Logged' = [p \in Procs |-> 0] /\ Entries' = 0
    BY FS_EmptySet, Zenon DEF Crash, Where, Logged, Entries
  <1> QED
    BY <1>1, <1>3, <1>4, <1>5, Zenon DEF IInv, Crash, Space!Restart

LEMMA RecoverKeeps ==
    ASSUME Constants, IInv, Recover
    PROVE  IInv' /\ UNCHANGED Space!vars
  <1>0. /\ boot # "up" /\ UNCHANGED <<outstanding, committing, panicked, pc, blk, wrote, peak>>
        /\ boot' \in {"up", "install", "erase"}
        /\ header' \in Seq(Blocks) /\ lh' \in Seq(Blocks) /\ tail' \in Nat
        /\ boot' = "up" => lh' = <<>>
    <2>1. CASE RecoverReadHead
      BY <2>1, Zenon DEF RecoverReadHead, diskVars, opVars, IInv, TypeOK
    <2>2. CASE RecoverInstall
      BY <2>2 DEF RecoverInstall, opVars, IInv, TypeOK
    <2>3. CASE RecoverErase
      BY <2>3 DEF RecoverErase, EraseLog, opVars, IInv, TypeOK
    <2> QED
      BY <2>1, <2>2, <2>3, Zenon DEF Recover
  <1>1. \A p \in Procs : pc[p] = "out"
    BY <1>0, Zenon DEF IInv, OpInv
  <1>2. TypeOK'
    BY <1>0, Zenon DEF IInv, TypeOK
  <1>3. Active' = Active
    BY <1>0, Zenon DEF Active
  <1>4. OpInv'
    BY <1>0, <1>1, <1>3, Zenon DEF IInv, OpInv, SleepersHaveWaker, Committing
  <1>5. WroteInv'
    BY <1>0, <1>1, <1>3, Zenon DEF IInv, WroteInv, Active
  <1>6. Entries = 0 /\ Entries' = 0
    BY <1>0, Zenon DEF Entries
  <1>7. UNCHANGED <<Where, Logged>>
    BY <1>0, <1>1, Zenon DEF Where, Logged
  <1> QED
    BY <1>0, <1>2, <1>4, <1>5, <1>6, <1>7, Zenon DEF IInv, Space!vars

LEMMA Start ==
    ASSUME Constants, Init
    PROVE  IInv /\ Space!Init
  <1>1. TypeOK
    <2>1. NoBlock \in Blocks
      BY Zenon DEF NoBlock, Constants
    <2>2. committing \in BOOLEAN /\ panicked \in BOOLEAN
      BY Zenon DEF Init
    <2> QED
      BY <2>1, <2>2 DEF Init, TypeOK
  <1>2. Active = {} /\ Cardinality(Active) = 0
    BY FS_EmptySet, Zenon DEF Init, Active
  <1>3. OpInv
    BY <1>2, Zenon DEF Init, OpInv, SleepersHaveWaker, Committing
  <1>4. WroteInv
    BY <1>2, FS_EmptySet, Zenon DEF Init, WroteInv
  <1>5. Where = [p \in Procs |-> "out"] /\ Logged = [p \in Procs |-> 0] /\ Entries = 0
    BY FS_EmptySet, Zenon DEF Init, Where, Logged, Entries
  <1> QED
    BY <1>1, <1>3, <1>4, <1>5, Zenon DEF IInv, Init, Space!Init

LEMMA StepKeeps ==
    ASSUME Constants, IInv, [Next]_vars
    PROVE  IInv' /\ [Space!Next]_Space!vars
  <1>1. CASE UNCHANGED vars
    BY <1>1, Zenon DEF vars, IInv, TypeOK, OpInv, WroteInv, Active, SleepersHaveWaker,
                Space!vars, Entries, Where, Logged
  <1>2. CASE Recover
    BY <1>2, RecoverKeeps, Zenon
  <1>3. CASE Crash
    BY <1>3, CrashKeeps, Zenon DEF Space!Next
  <1>4. ASSUME NEW p \in Procs, CallBeginOp(p) \/ Progress(p)
        PROVE  IInv' /\ [Space!Next]_Space!vars
    <2>1. CASE CallBeginOp(p) \/ BeginSleep(p)
      BY <2>1, CallBeginOpKeeps, BeginSleepKeeps, Zenon
    <2>2. CASE BeginOp(p) \/ LogWrite(p)
      BY <2>2, BeginOpKeeps, LogWriteKeeps, Zenon DEF Space!Next
    <2>3. CASE EndOpOther(p) \/ EndOpLast(p)
      BY <2>3, EndOpOtherKeeps, EndOpLastKeeps, Zenon DEF Space!Next
    <2>4. CASE WriteLog(p) \/ WriteHead(p) \/ InstallTrans(p)
      BY <2>4, CommitKeeps, Zenon
    <2>5. CASE Erase(p) \/ Finish(p)
      BY <2>5, EraseKeeps, FinishKeeps, Zenon DEF Space!Next
    <2> QED
      BY <1>4, <2>1, <2>2, <2>3, <2>4, <2>5, Zenon DEF Progress, Commit
  <1>5. ASSUME NEW p \in Procs, NEW b \in Blocks, NEW v \in Values, Modify(p, b, v)
        PROVE  IInv' /\ [Space!Next]_Space!vars
    <2>1. IInv' /\ Space!Modify(p, b \notin wrote[p], b \notin Range(lh))
      BY <1>5, ModifyKeeps, Zenon
    <2>2. \E own, fresh \in BOOLEAN : Space!Modify(p, own, fresh)
      <3>1. (b \notin wrote[p]) \in BOOLEAN /\ (b \notin Range(lh)) \in BOOLEAN
        BY Zenon
      <3> QED
        BY <2>1, <3>1, Zenon
    <2> QED
      BY <2>1, <2>2, Zenon DEF Space!Next
  <1> QED
    BY <1>1, <1>2, <1>3, <1>4, <1>5, Zenon DEF Next

LEMMA Invariance == Constants /\ Spec => []IInv /\ Space!Spec
  <1> SUFFICES ASSUME Constants PROVE Spec => []IInv /\ Space!Spec
    BY Zenon
  <1>1. Init => IInv /\ Space!Init
    BY Start, Zenon
  <1>2. IInv /\ [Next]_vars => IInv' /\ [Space!Next]_Space!vars
    BY StepKeeps, Zenon
  <1> QED
    BY <1>1, <1>2, PTL DEF Spec, Space!Spec

(* Whoever sleeps in begin_op is woken by an operation that ends or by the *)
(* process that commits, for any number of processes and any sizes with    *)
(* which one operation fits the log.                                       *)
THEOREM SleepersWoken == Constants /\ Spec => []SleepersHaveWaker
  <1>1. IInv => SleepersHaveWaker
    BY Zenon DEF IInv, OpInv
  <1> QED
    BY <1>1, Invariance, PTL

(* The log implements the space accounting of LogSpace, whatever the sizes *)
(* are: log.outstanding counts the operations under way, each block that   *)
(* is logged is charged once, and commits and operations exclude each      *)
(* other.                                                                  *)
THEOREM SpaceAccounted == Constants /\ Spec => SpaceAccounting
  BY Invariance, PTL DEF SpaceAccounting

-----------------------------------------------------------------------------
(* The contents of the disk *)

(* What recovery makes of log ld with header h and home blocks hm. *)
Recovery(h, ld, hm) == [b \in Blocks |-> IF \E i \in 1 .. Len(h) : h[i] = b
                                         THEN ld[CHOOSE i \in 1 .. Len(h) : h[i] = b]
                                         ELSE hm[b]]

(* It is what f says, when no block is in the header twice. *)
LEMMA RecoveredBy ==
    ASSUME NEW h \in Seq(Blocks), IsInjective(h), NEW ld, NEW hm, NEW f,
           f = [b \in Blocks |-> f[b]],
           \A i \in 1 .. Len(h) : f[h[i]] = ld[i],
           \A b \in Blocks : b \notin Range(h) => f[b] = hm[b]
    PROVE  Recovery(h, ld, hm) = f
  <1> SUFFICES ASSUME NEW b \in Blocks
               PROVE  f[b] = IF \E i \in 1 .. Len(h) : h[i] = b
                             THEN ld[CHOOSE i \in 1 .. Len(h) : h[i] = b]
                             ELSE hm[b]
    BY Zenon DEF Recovery
  <1>1. CASE \E i \in 1 .. Len(h) : h[i] = b
    <2> DEFINE j == CHOOSE i \in 1 .. Len(h) : h[i] = b
    <2>1. j \in 1 .. Len(h) /\ h[j] = b
      BY <1>1, Zenon
    <2> QED
      BY <1>1, <2>1, Zenon
  <1>2. CASE ~\E i \in 1 .. Len(h) : h[i] = b
    BY <1>2 DEF Range
  <1> QED
    BY <1>1, <1>2, Zenon

LEMMA RecoveredIs ==
    ASSUME NEW f, f = [b \in Blocks |-> f[b]], header \in Seq(Blocks), IsInjective(header),
           \A i \in 1 .. Len(header) : f[header[i]] = logdata[i],
           \A b \in Blocks : b \notin Range(header) => f[b] = home[b]
    PROVE  Recovered = f
  <1>1. Recovered = Recovery(header, logdata, home)
    BY Zenon DEF Recovered, Recovery
  <1>2. Recovery(header, logdata, home) = f
    BY RecoveredBy
  <1> QED
    BY <1>1, <1>2, Zenon

LEMMA RecoveredNext ==
    ASSUME NEW f, f = [b \in Blocks |-> f[b]], header' \in Seq(Blocks), IsInjective(header'),
           \A i \in 1 .. Len(header') : f[header'[i]] = logdata'[i],
           \A b \in Blocks : b \notin Range(header') => f[b] = home'[b]
    PROVE  Recovered' = f
  <1>1. Recovered' = Recovery(header', logdata', home')
    BY Zenon DEF Recovered, Recovery
  <1>2. Recovery(header', logdata', home') = f
    BY RecoveredBy
  <1> QED
    BY <1>1, <1>2, Zenon

LEMMA RecoveredAt ==
    ASSUME header \in Seq(Blocks), IsInjective(header)
    PROVE  /\ Recovered = [b \in Blocks |-> Recovered[b]]
           /\ \A i \in 1 .. Len(header) : Recovered[header[i]] = logdata[i]
           /\ \A b \in Blocks : b \notin Range(header) => Recovered[b] = home[b]
  <1>1. Recovered = [b \in Blocks |-> Recovered[b]]
    BY Zenon DEF Recovered
  <1>2. ASSUME NEW i \in 1 .. Len(header) PROVE Recovered[header[i]] = logdata[i]
    <2> DEFINE j == CHOOSE k \in 1 .. Len(header) : header[k] = header[i]
    <2>1. j \in 1 .. Len(header) /\ header[j] = header[i]
      BY Zenon
    <2>2. j = i
      BY <2>1 DEF IsInjective
    <2>3. header[i] \in Blocks /\ \E k \in 1 .. Len(header) : header[k] = header[i]
      OBVIOUS
    <2>4. Recovered[header[i]] = logdata[j]
      BY <2>3, Zenon DEF Recovered
    <2> QED
      BY <2>2, <2>4, Zenon
  <1>3. \A b \in Blocks : b \notin Range(header) => Recovered[b] = home[b]
    BY DEF Recovered, Range
  <1> QED
    BY <1>1, <1>2, <1>3, Zenon

(* An empty header: recovery changes nothing. *)
LEMMA EmptyHeader ==
    ASSUME NEW ld, NEW hm, hm = [b \in Blocks |-> hm[b]], NEW h, h = <<>>
    PROVE  /\ [b \in Blocks |-> IF \E i \in 1 .. Len(h) : h[i] = b
                                THEN ld[CHOOSE i \in 1 .. Len(h) : h[i] = b]
                                ELSE hm[b]] = hm
           /\ IsInjective(h) /\ h \in Seq(Blocks)
  BY DEF IsInjective

(* Nobody commits while an operation is under way. *)
LEMMA NobodyCommits ==
    ASSUME IInv, ContentInv, boot = "up", ~committing
    PROVE  /\ \A q \in Procs : pc[q] \notin Committing
           /\ header = <<>> /\ tail = 0 /\ Recovered = home
  <1>1. \A q \in Procs : pc[q] \notin Committing
    BY Zenon DEF IInv, OpInv
  <1>2. header = <<>> /\ tail = 0
    BY <1>1, Zenon DEF ContentInv, Committing
  <1> QED
    BY <1>1, <1>2, EmptyHeader, SMTT(30) DEF ContentInv, Recovered

(* A step that leaves disk, cache and log alone. *)
LEMMA ContentQuiet ==
    ASSUME IInv, ContentInv, boot = "up",
           UNCHANGED <<home, logdata, header, cache, lh, tail, boot>>,
           \A q \in Procs : pc[q] \in Writing => pc'[q] = pc[q],
           \A q \in Procs : pc'[q] \in Writing =>
              pc'[q] = pc[q] \/ (pc'[q] = "write_log" /\ lh # <<>> /\ ~committing),
           \A q \in Procs : pc[q] = "append" => pc'[q] = "append" /\ blk'[q] = blk[q]
    PROVE  ContentInv' /\ UNCHANGED <<cache, Recovered>> /\ boot' = "up"
  <1>1. \A b \in Blocks : Locked(b) => Locked(b)'
    BY Zenon DEF Locked
  <1>2. \A q \in Procs : pc'[q] = "write_log" => tail < Len(lh) /\ Holds(cache, lh, tail)
    <2> SUFFICES ASSUME NEW q \in Procs, pc'[q] = "write_log"
                 PROVE  tail < Len(lh) /\ Holds(cache, lh, tail)
      BY Zenon
    <2>1. CASE pc[q] = "write_log"
      BY <2>1, Zenon DEF ContentInv
    <2>2. CASE pc[q] # "write_log"
      <3>1. lh # <<>> /\ tail = 0
        BY <2>2, NobodyCommits, Zenon DEF Writing
      <3> QED
        BY <3>1 DEF Holds, IInv, TypeOK
    <2> QED
      BY <2>1, <2>2, Zenon
  <1>3. \A q \in Procs : \A l \in {"write_head", "install", "erase"} : pc'[q] = l <=> pc[q] = l
    BY Zenon DEF Writing
  <1>4. (\A q \in Procs : pc'[q] \notin {"write_log", "install"})
           => (\A q \in Procs : pc[q] \notin {"write_log", "install"})
    BY Zenon DEF Writing
  <1>5. ContentInv'
    <2>1. /\ Holds(cache, lh, tail)' <=> Holds(cache, lh, tail)
          /\ Holds(cache, lh, Len(lh))' <=> Holds(cache, lh, Len(lh))
          /\ Holds(home, lh, tail)' <=> Holds(home, lh, tail)
          /\ Holds(home, lh, Len(lh))' <=> Holds(home, lh, Len(lh))
      BY Zenon DEF Holds
    <2>2. (\A p \in Procs :
             /\ pc[p] = "write_log" => tail < Len(lh) /\ Holds(cache, lh, tail)
             /\ pc[p] = "write_head" => Holds(cache, lh, Len(lh))
             /\ pc[p] = "install" => /\ header = lh /\ Holds(cache, lh, Len(lh))
                                     /\ tail < Len(lh) /\ Holds(home, lh, tail)
             /\ pc[p] = "erase" => /\ header = lh /\ Holds(cache, lh, Len(lh))
                                   /\ Holds(home, lh, Len(lh)))'
      BY <1>2, <1>3, <2>1, Zenon DEF ContentInv
    <2>3. (\A b \in Blocks : cache[b] = home[b] \/ b \in Range(lh) \/ Locked(b))'
      BY <1>1, Zenon DEF ContentInv
    <2>4. ((\A p \in Procs : pc[p] \notin {"install", "erase"}) => header = <<>>)'
      BY <1>3, Zenon DEF ContentInv
    <2>5. ((\A p \in Procs : pc[p] \notin {"write_log", "install"}) => tail = 0)'
      BY <1>4, Zenon DEF ContentInv
    <2> QED
      BY <2>2, <2>3, <2>4, <2>5, Zenon DEF ContentInv
  <1> QED
    BY <1>5, Zenon DEF Recovered

(* One process goes on, others may be woken. *)
LEMMA PcStep ==
    ASSUME IInv, ContentInv, NEW p \in Procs, NEW l, boot = "up",
           UNCHANGED <<home, logdata, header, cache, lh, tail, boot, blk>>,
           pc[p] \notin Writing \cup {"append"}, pc'[p] = l,
           l \in Writing => l = "write_log" /\ lh # <<>> /\ ~committing,
           \A q \in Procs \ {p} : pc'[q] = pc[q] \/ (pc[q] = "asleep" /\ pc'[q] = "begin")
    PROVE  /\ ContentInv' /\ UNCHANGED <<cache, Recovered>> /\ boot' = "up"
           /\ Active' \ {p} = Active \ {p}
  <1>1. \A q \in Procs : pc[q] \in Writing => pc'[q] = pc[q]
    BY Zenon DEF Writing
  <1>2. \A q \in Procs : pc'[q] \in Writing =>
           pc'[q] = pc[q] \/ (pc'[q] = "write_log" /\ lh # <<>> /\ ~committing)
    BY Zenon DEF Writing
  <1>3. \A q \in Procs : pc[q] = "append" => pc'[q] = "append" /\ blk'[q] = blk[q]
    BY Zenon
  <1>4. Active' \ {p} = Active \ {p}
    BY Zenon DEF Active
  <1> QED
    BY <1>1, <1>2, <1>3, <1>4, ContentQuiet, Zenon

(* begin_op and the end of end_op change neither memory nor disk. *)
LEMMA WaitingRefines ==
    ASSUME Constants, IInv, ContentInv, NEW p \in Procs,
           CallBeginOp(p) \/ BeginSleep(p) \/ Finish(p)
    PROVE  ContentInv' /\ [Abstract!Next]_Abstract!vars
  <1> DEFINE Quiet ==
        /\ boot = "up" /\ UNCHANGED <<home, logdata, header, cache, lh, tail, boot, blk>>
        /\ pc[p] \in {"out", "begin", "finish"} /\ pc'[p] \in {"begin", "asleep", "out"}
        /\ \A q \in Procs \ {p} : pc'[q] = pc[q] \/ (pc[q] = "asleep" /\ pc'[q] = "begin")
  <1>1. ASSUME CallBeginOp(p) PROVE Quiet
    BY <1>1, Zenon DEF CallBeginOp, Goto, Running, diskVars, memVars, opVars, IInv, TypeOK
  <1>2. ASSUME BeginSleep(p) PROVE Quiet
    BY <1>2, Zenon DEF BeginSleep, Goto, Running, diskVars, memVars, opVars, IInv, TypeOK
  <1>3. ASSUME Finish(p) PROVE Quiet
    BY <1>3, Zenon DEF Finish, Wakeup, Running, diskVars, memVars, opVars, IInv, TypeOK
  <1>4. Quiet
    BY <1>1, <1>2, <1>3, Zenon
  <1>5. /\ ContentInv' /\ UNCHANGED <<cache, Recovered>> /\ boot' = "up"
        /\ Active' \ {p} = Active \ {p}
    <2>1. pc[p] \notin Writing \cup {"append"} /\ pc'[p] \notin Writing
      BY <1>4, Zenon DEF Writing
    <2> QED
      BY <1>4, <2>1, PcStep, Zenon
  <1>6. Active' = Active
    <2>1. p \notin Active /\ p \notin Active'
      BY <1>4, Zenon DEF Active
    <2> QED
      BY <1>5, <2>1, SMTT(30)
  <1> QED
    BY <1>4, <1>5, <1>6, Zenon DEF Abstract!vars, Active

LEMMA BeginOpRefines ==
    ASSUME Constants, IInv, ContentInv, NEW p \in Procs, BeginOp(p)
    PROVE  ContentInv' /\ [Abstract!Next]_Abstract!vars
  <1>1. /\ boot = "up" /\ UNCHANGED <<home, logdata, header, cache, lh, tail, boot, blk>>
        /\ pc[p] = "begin" /\ pc'[p] = "in" /\ \A q \in Procs \ {p} : pc'[q] = pc[q]
    BY Zenon DEF BeginOp, Goto, Running, diskVars, memVars, opVars, IInv, TypeOK
  <1>2. /\ ContentInv' /\ UNCHANGED <<cache, Recovered>> /\ boot' = "up"
        /\ Active' \ {p} = Active \ {p}
    BY <1>1, PcStep, Zenon DEF Writing
  <1>3. Active' = Active \cup {p} /\ p \notin Active
    BY <1>1, <1>2, Zenon DEF Active
  <1>4. Abstract!Begin(p)
    BY <1>1, <1>2, <1>3, Zenon DEF Abstract!Begin, Active
  <1> QED
    BY <1>2, <1>4, Zenon DEF Abstract!Next

LEMMA EndOpRefines ==
    ASSUME Constants, IInv, ContentInv, NEW p \in Procs, EndOpOther(p) \/ EndOpLast(p)
    PROVE  ContentInv' /\ [Abstract!Next]_Abstract!vars
  <1> DEFINE Ends ==
        /\ boot = "up" /\ UNCHANGED <<home, logdata, header, cache, lh, tail, boot, blk>>
        /\ pc[p] = "in" /\ pc'[p] \in {"out", "finish", "write_log"}
        /\ pc'[p] = "write_log" => lh # <<>>
        /\ \A q \in Procs \ {p} : pc'[q] = pc[q] \/ (pc[q] = "asleep" /\ pc'[q] = "begin")
  <1>1. ASSUME EndOpOther(p) PROVE Ends
    BY <1>1, Zenon DEF EndOpOther, EndOp, Wakeup, Running, diskVars, memVars, IInv, TypeOK
  <1>2. ASSUME EndOpLast(p) PROVE Ends
    BY <1>2, Zenon DEF EndOpLast, EndOp, Goto, Running, diskVars, memVars, IInv, TypeOK
  <1>3. Ends
    BY <1>1, <1>2, Zenon
  <1>4. p \in Active /\ ~committing
    BY <1>3, Zenon DEF Active, IInv, OpInv
  <1>5. /\ ContentInv' /\ UNCHANGED <<cache, Recovered>> /\ boot' = "up"
        /\ Active' \ {p} = Active \ {p}
    <2>1. pc[p] \notin Writing \cup {"append"} /\ (pc'[p] \in Writing => pc'[p] = "write_log")
      BY <1>3, Zenon DEF Writing
    <2> QED
      BY <1>3, <1>4, <2>1, PcStep, Zenon
  <1>6. Active' = Active \ {p}
    <2>1. p \notin Active'
      BY <1>3, Zenon DEF Active
    <2> QED
      BY <1>5, <2>1, Zenon
  <1>7. Abstract!End(p)
    BY <1>3, <1>4, <1>5, <1>6, ZenonT(30) DEF Abstract!End, Active
  <1> QED
    BY <1>5, <1>7, Zenon DEF Abstract!Next

LEMMA ModifyRefines ==
    ASSUME Constants, IInv, ContentInv, NEW p \in Procs, NEW b \in Blocks, NEW v \in Values,
           Modify(p, b, v)
    PROVE  ContentInv' /\ [Abstract!Next]_Abstract!vars
  <1>0. /\ boot = "up" /\ pc[p] = "in"
        /\ cache' = [cache EXCEPT ![b] = v] /\ blk' = [blk EXCEPT ![p] = b]
        /\ pc' = [pc EXCEPT ![p] = "append"]
        /\ UNCHANGED <<home, logdata, header, lh, tail, boot>>
    BY Zenon DEF Modify, Running, Goto, diskVars
  <1>1. \A q \in Procs : /\ pc'[q] = IF q = p THEN "append" ELSE pc[q]
                         /\ blk'[q] = IF q = p THEN b ELSE blk[q]
    BY <1>0, Zenon DEF IInv, TypeOK
  <1>2. p \in Active /\ Active' = Active
    BY <1>0, <1>1, Zenon DEF Active
  <1>3. /\ \A q \in Procs : pc[q] \notin Committing
        /\ header = <<>> /\ tail = 0
    BY <1>0, <1>2, NobodyCommits, ZenonT(30) DEF IInv, OpInv
  <1>4. \A c \in Blocks : (cache'[c] = cache[c] /\ (Locked(c) => Locked(c)')) \/ Locked(c)'
    BY <1>0, <1>1, SMTT(30) DEF ContentInv, Locked
  <1>5. \A q \in Procs : pc'[q] \notin Committing
    BY <1>1, <1>3, Zenon DEF Committing
  <1>6. ContentInv'
    <2>1. \A c \in Blocks : cache'[c] = home'[c] \/ c \in Range(lh') \/ Locked(c)'
      BY <1>0, <1>4, Zenon DEF ContentInv
    <2>2. cache' \in [Blocks -> Values]
      BY <1>0, Zenon DEF ContentInv
    <2> QED
      BY <1>0, <1>3, <1>5, <2>1, <2>2, ZenonT(30) DEF ContentInv, Committing
  <1>7. UNCHANGED Recovered
    BY <1>0, Zenon DEF Recovered
  <1>8. Abstract!Write(p, b)
    BY <1>0, <1>2, <1>7, Zenon DEF Abstract!Write, Active
  <1> QED
    BY <1>6, <1>8, Zenon DEF Abstract!Next

LEMMA LogWriteRefines ==
    ASSUME Constants, IInv, ContentInv, NEW p \in Procs, LogWrite(p)
    PROVE  ContentInv' /\ [Abstract!Next]_Abstract!vars
  <1>0. /\ boot = "up" /\ pc[p] = "append"
        /\ lh' = IF blk[p] \in Range(lh) THEN lh ELSE Append(lh, blk[p])
        /\ blk' = [blk EXCEPT ![p] = NoBlock] /\ pc' = [pc EXCEPT ![p] = "in"]
        /\ UNCHANGED <<home, logdata, header, cache, tail, boot>>
    BY Zenon DEF LogWrite, Running, Goto, diskVars
  <1>1. \A q \in Procs : /\ pc'[q] = IF q = p THEN "in" ELSE pc[q]
                         /\ q # p => blk'[q] = blk[q]
    BY <1>0, Zenon DEF IInv, TypeOK
  <1>2. p \in Active /\ Active' = Active
    BY <1>0, <1>1, Zenon DEF Active
  <1>3. /\ \A q \in Procs : pc[q] \notin Committing
        /\ header = <<>> /\ tail = 0
    BY <1>0, <1>2, NobodyCommits, Zenon DEF IInv, OpInv
  <1>4. Range(lh') = Range(lh) \cup {blk[p]}
    BY <1>0, AppendSet, Zenon DEF IInv, TypeOK
  <1>5. IsInjective(lh')
    <2>1. CASE blk[p] \in Range(lh)
      BY <1>0, <2>1, Zenon DEF ContentInv
    <2>2. CASE blk[p] \notin Range(lh)
      <3>1. lh \in Seq(Blocks) /\ blk[p] \in Blocks /\ lh' = Append(lh, blk[p]) /\ IsInjective(lh)
        BY <1>0, <2>2, Zenon DEF IInv, TypeOK, ContentInv
      <3>2. \A i \in 1 .. Len(lh) : lh[i] # blk[p]
        BY <2>2, <3>1, SMTT(30) DEF Range
      <3> QED
        BY <3>1, <3>2, SMTT(30) DEF IsInjective
    <2> QED
      BY <2>1, <2>2, Zenon
  <1>6. \A q \in Procs : pc'[q] \notin Committing
    BY <1>1, <1>3, Zenon DEF Committing
  <1>7. ContentInv'
    <2>1. \A c \in Blocks : Locked(c) => Locked(c)' \/ c = blk[p]
      BY <1>0, <1>1, Zenon DEF Locked
    <2>2. \A c \in Blocks : cache'[c] = home'[c] \/ c \in Range(lh') \/ Locked(c)'
      BY <1>0, <1>4, <2>1, Zenon DEF ContentInv
    <2> QED
      BY <1>0, <1>3, <1>5, <1>6, <2>2, Zenon DEF ContentInv, Committing
  <1>8. UNCHANGED Recovered
    BY <1>0, Zenon DEF Recovered
  <1> QED
    BY <1>0, <1>2, <1>7, <1>8, Zenon DEF Abstract!vars, Active

(* One process commits, and no operation is under way then. *)
LEMMA Committer ==
    ASSUME IInv, ContentInv, NEW p \in Procs, boot = "up", pc[p] \in Writing,
           NEW l \in Writing \cup {"finish"}, pc' = [pc EXCEPT ![p] = l]
    PROVE  /\ pc'[p] = l
           /\ \A q \in Procs : q # p => pc'[q] = pc[q] /\ pc[q] \notin Committing
           /\ Active = {} /\ Active' = {} /\ lh # <<>> /\ Len(lh) > 0
           /\ \A b \in Blocks : ~Locked(b)
           /\ \A b \in Blocks : b \notin Range(lh) => cache[b] = home[b]
           /\ \A i \in 1 .. Len(lh) : lh[i] \in Blocks /\ lh[i] \in Range(lh)
  <1>1. pc'[p] = l /\ \A q \in Procs : q # p => pc'[q] = pc[q]
    BY Zenon DEF IInv, TypeOK
  <1>2. pc[p] \in Committing /\ pc[p] # "finish" /\ l \in Committing
    BY Zenon DEF Writing, Committing
  <1>3. committing /\ lh # <<>> /\ \A q \in Procs : q # p => pc[q] \notin Committing
    BY <1>2, Zenon DEF IInv, OpInv
  <1>4. Active = {}
    BY <1>3, Zenon DEF IInv, OpInv
  <1>5. Active' = {}
    BY <1>1, <1>2, <1>4, Zenon DEF Active, Committing
  <1>6. \A b \in Blocks : ~Locked(b)
    BY <1>4, Zenon DEF Active, Locked
  <1>7. \A b \in Blocks : b \notin Range(lh) => cache[b] = home[b]
    BY <1>6, Zenon DEF ContentInv
  <1>8. \A i \in 1 .. Len(lh) : lh[i] \in Blocks /\ lh[i] \in Range(lh)
    BY DEF Range, IInv, TypeOK
  <1>9. Len(lh) > 0
    BY <1>3 DEF IInv, TypeOK
  <1> QED
    BY <1>1, <1>3, <1>4, <1>5, <1>6, <1>7, <1>8, <1>9, ZenonT(30)

LEMMA WriteLogRefines ==
    ASSUME Constants, IInv, ContentInv, LogFits, NEW p \in Procs, WriteLog(p)
    PROVE  ContentInv' /\ [Abstract!Next]_Abstract!vars
  <1> DEFINE l == IF LastRound THEN "write_head" ELSE "write_log"
  <1>0. /\ boot = "up" /\ pc[p] = "write_log"
        /\ logdata' = [logdata EXCEPT ![tail + 1] = cache[lh[tail + 1]]]
        /\ tail' = IF LastRound THEN 0 ELSE tail + 1
        /\ pc' = [pc EXCEPT ![p] = l]
        /\ UNCHANGED <<home, header, cache, lh, boot>>
    BY Zenon DEF WriteLog, Running, Loop, Goto, memVars
  <1>1. /\ pc'[p] = l
        /\ \A q \in Procs : q # p => pc'[q] = pc[q] /\ pc[q] \notin Committing
        /\ Active = {} /\ Active' = {}
        /\ \A b \in Blocks : b \notin Range(lh) => cache[b] = home[b]
        /\ \A i \in 1 .. Len(lh) : lh[i] \in Blocks
    <2>1. l \in Writing /\ pc[p] \in Writing
      BY <1>0, Zenon DEF Writing
    <2> HIDE DEF l
    <2> QED
      BY <1>0, <2>1, Committer, Zenon
  <1>2. /\ tail \in Nat /\ Len(lh) \in Nat /\ tail < Len(lh) /\ Len(lh) <= NLog - 1
        /\ tail + 1 \in 1 .. Len(lh) /\ tail + 1 \in 1 .. NLog - 1 /\ NLog \in Nat
        /\ Holds(cache, lh, tail)
    BY <1>0, SizesAssumption, SMTT(30) DEF IInv, TypeOK, ContentInv, LogFits
  <1>3. /\ logdata'[tail + 1] = cache[lh[tail + 1]]
        /\ \A i \in 1 .. tail : logdata'[i] = logdata[i]
        /\ logdata' \in [1 .. NLog - 1 -> Values]
    BY <1>0, <1>1, <1>2, SMTT(30) DEF ContentInv
  <1>4. \A i \in 1 .. tail + 1 : cache[lh[i]] = logdata'[i]
    <2> SUFFICES ASSUME NEW i \in 1 .. tail + 1 PROVE cache[lh[i]] = logdata'[i]
      BY Zenon
    <2>1. CASE i = tail + 1
      BY <1>3, <2>1, Zenon
    <2>2. CASE i \in 1 .. tail
      BY <1>2, <1>3, <2>2, Zenon DEF Holds
    <2>3. tail \in Nat
      BY <1>2, Zenon
    <2> QED
      BY <2>1, <2>2, <2>3, SMTT(30)
  <1>5. header = <<>>
    BY <1>0, <1>1, Zenon DEF ContentInv, Committing
  <1>6. ASSUME LastRound PROVE ContentInv'
    <2>1. pc'[p] = "write_head" /\ tail' = 0 /\ tail + 1 = Len(lh)
      BY <1>0, <1>1, <1>6, Zenon DEF LastRound
    <2>2. (\A q \in Procs : pc[q] = "write_head" => Holds(cache, lh, Len(lh)))'
      BY <1>0, <1>4, <2>1, Zenon DEF Holds
    <2>3. \A q \in Procs : pc'[q] \notin {"write_log", "install", "erase"}
      BY <1>1, <2>1, Zenon DEF Committing
    <2> QED
      BY <1>0, <1>1, <1>3, <1>5, <2>1, <2>2, <2>3, ZenonT(30) DEF ContentInv
  <1>7. ASSUME ~LastRound PROVE ContentInv'
    <2>1. pc'[p] = "write_log" /\ tail' = tail + 1 /\ tail' < Len(lh')
      <3>1. pc'[p] = "write_log" /\ tail' = tail + 1
        BY <1>0, <1>1, <1>7, Zenon
      <3>2. tail + 1 # Len(lh) /\ lh' = lh
        BY <1>0, <1>7, Zenon DEF LastRound
      <3>3. tail \in Nat /\ Len(lh) \in Nat /\ tail < Len(lh)
        BY <1>2, Zenon
      <3> QED
        BY <3>1, <3>2, <3>3, SMTT(30)
    <2>2. Holds(cache, lh, tail)'
      BY <1>0, <1>4, <2>1, Zenon DEF Holds
    <2>3. \A q \in Procs : pc'[q] \notin {"write_head", "install", "erase"}
      BY <1>1, <2>1, Zenon DEF Committing
    <2>4. (\A q \in Procs : pc[q] = "write_log" => tail < Len(lh) /\ Holds(cache, lh, tail))'
      BY <2>1, <2>2, Zenon
    <2>5. /\ ~\A q \in Procs : pc'[q] \notin {"write_log", "install"}
          /\ \A c \in Blocks : cache'[c] = home'[c] \/ c \in Range(lh')
      BY <1>0, <1>1, <2>1, Zenon
    <2> QED
      BY <1>0, <1>3, <1>5, <2>3, <2>4, <2>5, ZenonT(30) DEF ContentInv
  <1>8. Recovered' = home /\ Recovered = home
    BY <1>0, <1>5, EmptyHeader, SMTT(30) DEF ContentInv, Recovered
  <1> QED
    BY <1>0, <1>1, <1>6, <1>7, <1>8, Zenon DEF Abstract!vars, Active

(* The header is written in one step: what the cache holds becomes durable. *)
LEMMA WriteHeadRefines ==
    ASSUME Constants, IInv, ContentInv, LogFits, NEW p \in Procs, WriteHead(p)
    PROVE  ContentInv' /\ [Abstract!Next]_Abstract!vars
  <1>0. /\ boot = "up" /\ pc[p] = "write_head" /\ header' = lh
        /\ pc' = [pc EXCEPT ![p] = "install"]
        /\ UNCHANGED <<home, logdata, cache, lh, tail, boot>>
    BY Zenon DEF WriteHead, Running, Goto, memVars
  <1>1. /\ pc'[p] = "install"
        /\ \A q \in Procs : q # p => pc'[q] = pc[q] /\ pc[q] \notin Committing
        /\ Active = {} /\ Active' = {} /\ Len(lh) > 0
        /\ \A b \in Blocks : b \notin Range(lh) => cache[b] = home[b]
    BY <1>0, Committer, Zenon DEF Writing
  <1>2. Holds(cache, lh, Len(lh)) /\ tail = 0
    <2>1. \A q \in Procs : pc[q] \notin {"write_log", "install"}
      BY <1>0, <1>1, Zenon DEF Committing
    <2> QED
      BY <1>0, <2>1, Zenon DEF ContentInv
  <1>3. ContentInv'
    <2>1. \A q \in Procs : pc'[q] \notin {"write_log", "write_head", "erase"}
      BY <1>1, Zenon DEF Committing
    <2>2. Holds(cache, lh, Len(lh))'
      BY <1>0, <1>2, Zenon DEF Holds
    <2>3. Holds(home, lh, tail)'
      <3>1. tail' = 0
        BY <1>0, <1>2, Zenon
      <3> QED
        BY <3>1, SMTT(30) DEF Holds
    <2> QED
      BY <1>0, <1>1, <1>2, <2>1, <2>2, <2>3, ZenonT(30) DEF ContentInv, LogFits
  <1>4. Recovered' = cache
    <2>1. lh \in Seq(Blocks) /\ IsInjective(lh) /\ cache = [b \in Blocks |-> cache[b]]
      BY Zenon DEF ContentInv, IInv, TypeOK
    <2>2. \A i \in 1 .. Len(lh) : cache[lh[i]] = logdata[i]
      BY <1>2, Zenon DEF Holds
    <2>3. /\ header' \in Seq(Blocks) /\ IsInjective(header')
          /\ \A i \in 1 .. Len(header') : cache[header'[i]] = logdata'[i]
          /\ \A b \in Blocks : b \notin Range(header') => cache[b] = home'[b]
      BY <1>0, <1>1, <2>1, <2>2, Zenon
    <2> QED
      BY <2>1, <2>3, RecoveredNext, Zenon
  <1>5. Abstract!Commit
    BY <1>0, <1>1, <1>4, Zenon DEF Abstract!Commit, Active
  <1> QED
    BY <1>3, <1>5, Zenon DEF Abstract!Next

(* A log block is copied home; the cache has the same contents already. *)
LEMMA InstallTransRefines ==
    ASSUME Constants, IInv, ContentInv, LogFits, NEW p \in Procs, InstallTrans(p)
    PROVE  ContentInv' /\ [Abstract!Next]_Abstract!vars
  <1> DEFINE l == IF LastRound THEN "erase" ELSE "install"
             x == lh[tail + 1]
  <1>0. /\ boot = "up" /\ pc[p] = "install"
        /\ home' = [home EXCEPT ![x] = logdata[tail + 1]]
        /\ cache' = [cache EXCEPT ![x] = logdata[tail + 1]]
        /\ tail' = IF LastRound THEN 0 ELSE tail + 1
        /\ pc' = [pc EXCEPT ![p] = l]
        /\ UNCHANGED <<logdata, header, lh, boot>>
    BY Zenon DEF InstallTrans, InstallOne, Running, Loop, Goto
  <1>1. /\ pc'[p] = l
        /\ \A q \in Procs : q # p => pc'[q] = pc[q] /\ pc[q] \notin Committing
        /\ Active = {} /\ Active' = {}
        /\ \A b \in Blocks : b \notin Range(lh) => cache[b] = home[b]
        /\ \A i \in 1 .. Len(lh) : lh[i] \in Blocks /\ lh[i] \in Range(lh)
    <2>1. l \in Writing /\ pc[p] \in Writing
      BY <1>0, Zenon DEF Writing
    <2> HIDE DEF l
    <2> QED
      BY <1>0, <2>1, Committer, Zenon
  <1>2. /\ tail \in Nat /\ Len(lh) \in Nat /\ tail < Len(lh)
        /\ tail + 1 \in 1 .. Len(lh) /\ lh \in Seq(Blocks) /\ IsInjective(lh)
        /\ header = lh /\ Holds(cache, lh, Len(lh)) /\ Holds(home, lh, tail)
    BY <1>0, SMTT(30) DEF IInv, TypeOK, ContentInv
  <1>3. cache' = cache /\ x \in Blocks
    <2>1. cache[x] = logdata[tail + 1] /\ x \in Blocks
      BY <1>1, <1>2, Zenon DEF Holds
    <2> QED
      BY <1>0, <2>1, Zenon DEF ContentInv
  <1>4. /\ home'[x] = logdata[tail + 1] /\ \A b \in Blocks : b # x => home'[b] = home[b]
        /\ home' \in [Blocks -> Values]
    <2>1. logdata[tail + 1] \in Values
      BY <1>2, SizesAssumption, SMTT(30) DEF ContentInv
    <2> QED
      BY <1>0, <1>3, <2>1, ZenonT(30) DEF ContentInv
  <1>5. \A i \in 1 .. tail + 1 : home'[lh[i]] = logdata[i]
    <2> SUFFICES ASSUME NEW i \in 1 .. tail + 1 PROVE home'[lh[i]] = logdata[i]
      BY Zenon
    <2>1. CASE i = tail + 1
      BY <1>4, <2>1, Zenon
    <2>2. CASE i \in 1 .. tail
      <3>1. lh[i] # x /\ lh[i] \in Blocks
        BY <1>1, <1>2, <2>2, SMTT(30) DEF IsInjective
      <3> QED
        BY <1>2, <1>4, <2>2, <3>1, ZenonT(30) DEF Holds
    <2>3. tail \in Nat
      BY <1>2, Zenon
    <2> QED
      BY <2>1, <2>2, <2>3, SMTT(30)
  <1> HIDE DEF x
  <1>6. \A b \in Blocks : b \notin Range(lh) => cache'[b] = home'[b]
    <2>1. x \in Range(lh)
      BY <1>1, <1>2, Zenon DEF x
    <2> QED
      BY <1>1, <1>3, <1>4, <2>1, Zenon
  <1>7. Holds(cache, lh, Len(lh))' /\ header' = lh'
    BY <1>0, <1>2, <1>3, Zenon DEF Holds
  <1>8. ASSUME LastRound PROVE ContentInv'
    <2>1. pc'[p] = "erase" /\ tail' = 0 /\ tail + 1 = Len(lh)
      BY <1>0, <1>1, <1>8, Zenon DEF LastRound
    <2>2. Holds(home, lh, Len(lh))'
      BY <1>0, <1>5, <2>1, Zenon DEF Holds
    <2>3. (\A q \in Procs : pc[q] = "erase" => /\ header = lh /\ Holds(cache, lh, Len(lh))
                                               /\ Holds(home, lh, Len(lh)))'
      BY <1>7, <2>2, Zenon
    <2>4. \A q \in Procs : pc'[q] \notin {"write_log", "write_head", "install"}
      BY <1>1, <2>1, Zenon DEF Committing
    <2>5. ~\A q \in Procs : pc'[q] \notin {"install", "erase"}
      BY <2>1, Zenon
    <2> QED
      BY <1>0, <1>3, <1>4, <1>6, <2>1, <2>3, <2>4, <2>5, ZenonT(30) DEF ContentInv
  <1>9. ASSUME ~LastRound PROVE ContentInv'
    <2>1. pc'[p] = "install" /\ tail' = tail + 1 /\ tail' < Len(lh')
      BY <1>0, <1>1, <1>2, <1>9, SMTT(30) DEF LastRound
    <2>2. Holds(home, lh, tail)'
      BY <1>0, <1>5, <2>1, Zenon DEF Holds
    <2>3. (\A q \in Procs : pc[q] = "install" => /\ header = lh /\ Holds(cache, lh, Len(lh))
                                                 /\ tail < Len(lh) /\ Holds(home, lh, tail))'
      BY <1>7, <2>1, <2>2, ZenonT(30)
    <2>4. \A q \in Procs : pc'[q] \notin {"write_log", "write_head", "erase"}
      BY <1>1, <2>1, ZenonT(30) DEF Committing
    <2>5. /\ ~\A q \in Procs : pc'[q] \notin {"install", "erase"}
          /\ ~\A q \in Procs : pc'[q] \notin {"write_log", "install"}
      BY <2>1, Zenon
    <2> QED
      BY <1>0, <1>3, <1>4, <1>6, <2>3, <2>4, <2>5, ZenonT(30) DEF ContentInv
  <1>10. Recovered = cache /\ Recovered' = cache
    <2>1. cache = [b \in Blocks |-> cache[b]]
      BY Zenon DEF ContentInv
    <2>2. /\ header \in Seq(Blocks) /\ IsInjective(header)
          /\ \A i \in 1 .. Len(header) : cache[header[i]] = logdata[i]
          /\ \A b \in Blocks : b \notin Range(header) => cache[b] = home[b]
      BY <1>1, <1>2, Zenon DEF Holds
    <2>3. Recovered = cache
      BY <2>1, <2>2, RecoveredIs, Zenon
    <2>4. Recovered' = cache
      <3>1. /\ header' \in Seq(Blocks) /\ IsInjective(header')
            /\ \A i \in 1 .. Len(header') : cache[header'[i]] = logdata'[i]
            /\ \A b \in Blocks : b \notin Range(header') => cache[b] = home'[b]
        BY <1>0, <1>2, <1>3, <1>6, <2>2, Zenon
      <3> QED
        BY <2>1, <3>1, RecoveredNext, Zenon
    <2> QED
      BY <2>3, <2>4, Zenon
  <1> QED
    BY <1>0, <1>1, <1>3, <1>8, <1>9, <1>10, ZenonT(30) DEF Abstract!vars, Active

(* The home blocks hold what the log holds: the log can be cleared. *)
LEMMA EraseRefines ==
    ASSUME Constants, IInv, ContentInv, NEW p \in Procs, Erase(p)
    PROVE  ContentInv' /\ [Abstract!Next]_Abstract!vars
  <1>0. /\ boot = "up" /\ pc[p] = "erase" /\ lh' = <<>> /\ header' = <<>>
        /\ pc' = [pc EXCEPT ![p] = "finish"]
        /\ UNCHANGED <<home, logdata, cache, tail, boot>>
    BY Zenon DEF Erase, EraseLog, Running, Goto
  <1>1. /\ pc'[p] = "finish"
        /\ \A q \in Procs : q # p => pc'[q] = pc[q] /\ pc[q] \notin Committing
        /\ Active = {} /\ Active' = {}
        /\ \A b \in Blocks : b \notin Range(lh) => cache[b] = home[b]
    BY <1>0, Committer, Zenon DEF Writing
  <1>2. /\ header = lh /\ Holds(cache, lh, Len(lh)) /\ Holds(home, lh, Len(lh))
        /\ lh \in Seq(Blocks) /\ IsInjective(lh)
    BY <1>0, Zenon DEF ContentInv, IInv, TypeOK
  <1>3. cache = home
    <2>1. ASSUME NEW b \in Blocks, b \in Range(lh) PROVE cache[b] = home[b]
      <3>1. PICK i \in 1 .. Len(lh) : lh[i] = b
        BY <1>2, <2>1, SMTT(30) DEF Range
      <3> QED
        BY <1>2, <3>1, Zenon DEF Holds
    <2>2. \A b \in Blocks : cache[b] = home[b]
      BY <1>1, <2>1, Zenon
    <2>3. cache = [b \in Blocks |-> cache[b]] /\ home = [b \in Blocks |-> home[b]]
      BY Zenon DEF ContentInv
    <2> QED
      BY <2>2, <2>3, Zenon
  <1>4. tail = 0
    <2>1. \A q \in Procs : pc[q] \notin {"write_log", "install"}
      BY <1>0, <1>1, Zenon DEF Committing
    <2> QED
      BY <1>0, <2>1, Zenon DEF ContentInv
  <1>5. ContentInv'
    <2>1. \A q \in Procs : pc'[q] \notin Writing
      BY <1>1, Zenon DEF Committing, Writing
    <2>2. IsInjective(lh') /\ IsInjective(header') /\ Len(header') <= NLog - 1
      <3>1. Len(header') = 0 /\ Len(lh) \in Nat /\ Len(lh) <= NLog - 1
        BY <1>0, <1>2, SMTT(30) DEF ContentInv
      <3> QED
        BY <1>0, <3>1, SizesAssumption, SMTT(30) DEF IsInjective
    <2> QED
      BY <1>0, <1>3, <1>4, <2>1, <2>2, ZenonT(30) DEF ContentInv, Writing
  <1>6. Recovered = cache /\ Recovered' = cache
    <2>1. cache = [b \in Blocks |-> cache[b]]
      BY Zenon DEF ContentInv
    <2>2. /\ header \in Seq(Blocks) /\ IsInjective(header)
          /\ \A i \in 1 .. Len(header) : cache[header[i]] = logdata[i]
          /\ \A b \in Blocks : b \notin Range(header) => cache[b] = home[b]
      BY <1>1, <1>2, Zenon DEF Holds
    <2>3. Recovered = cache
      BY <2>1, <2>2, RecoveredIs, Zenon
    <2>4. Recovered' = cache
      BY <1>0, <1>3, <2>1, EmptyHeader, SMTT(30) DEF Recovered
    <2> QED
      BY <2>3, <2>4, Zenon
  <1> QED
    BY <1>0, <1>1, <1>5, <1>6, Zenon DEF Abstract!vars, Active

(* A crash loses the cache; the disk recovers to what was durable. *)
LEMMA CrashRefines ==
    ASSUME Constants, IInv, ContentInv, Crash
    PROVE  ContentInv' /\ [Abstract!Next]_Abstract!vars
  <1>0. /\ cache' = home /\ lh' = <<>> /\ tail' = 0 /\ boot' = "read_head"
        /\ \A p \in Procs : pc'[p] = "out"
        /\ UNCHANGED <<home, logdata, header>>
    BY Zenon DEF Crash, diskVars
  <1>1. ContentInv'
    <2>1. IsInjective(lh')
      BY <1>0 DEF IsInjective
    <2> QED
      BY <1>0, <2>1, Zenon DEF ContentInv
  <1>2. UNCHANGED Recovered
    BY <1>0, Zenon DEF Recovered
  <1>3. Active' = {}
    BY <1>0, Zenon DEF Active
  <1>4. Abstract!Crash
    BY <1>0, <1>2, <1>3, Zenon DEF Abstract!Crash, Active
  <1> QED
    BY <1>1, <1>4, Zenon DEF Abstract!Next

(* Recovery changes nothing that an operation could see later, however     *)
(* often it is interrupted.                                                *)
LEMMA RecoverRefines ==
    ASSUME Constants, IInv, ContentInv, Recover
    PROVE  ContentInv' /\ [Abstract!Next]_Abstract!vars
  <1>0. /\ boot # "up" /\ pc' = pc /\ \A p \in Procs : pc[p] = "out"
        /\ cache = home /\ header \in Seq(Blocks) /\ lh \in Seq(Blocks) /\ tail \in Nat
        /\ IsInjective(header) /\ IsInjective(lh)
        /\ home = [b \in Blocks |-> home[b]]
    <2>1. boot # "up" /\ pc' = pc
      BY Zenon DEF Recover, RecoverReadHead, RecoverInstall, RecoverErase
    <2> QED
      BY <2>1, Zenon DEF IInv, TypeOK, OpInv, ContentInv
  <1>1. Active' = Active
    BY <1>0, Zenon DEF Active
  <1>2. CASE RecoverReadHead
    <2>0. /\ boot = "read_head" /\ lh' = header
          /\ boot' = IF header = <<>> THEN "erase" ELSE "install"
          /\ UNCHANGED <<home, logdata, header, cache, tail>>
      BY <1>2, Zenon DEF RecoverReadHead, diskVars
    <2>1. UNCHANGED Recovered
      BY <2>0, Zenon DEF Recovered
    <2>2. tail = 0
      BY <2>0, Zenon DEF ContentInv
    <2>3. /\ boot' = "install" => /\ header' = lh' /\ tail' < Len(lh')
                                  /\ Holds(home, lh, tail)'
          /\ boot' = "erase" => header' = lh' /\ tail' = 0 /\ Holds(home, lh, Len(lh))'
      BY <1>0, <2>0, <2>2, SMTT(30) DEF Holds
    <2>4. ContentInv'
      BY <1>0, <2>0, <2>3, Zenon DEF ContentInv
    <2> QED
      BY <1>0, <1>1, <2>0, <2>1, <2>4, Zenon DEF Abstract!vars, Active
  <1>3. CASE RecoverInstall
    <2> DEFINE x == lh[tail + 1]
    <2>0. /\ boot = "install"
          /\ home' = [home EXCEPT ![x] = logdata[tail + 1]]
          /\ cache' = [cache EXCEPT ![x] = logdata[tail + 1]]
          /\ tail' = IF LastRound THEN 0 ELSE tail + 1
          /\ boot' = IF LastRound THEN "erase" ELSE "install"
          /\ UNCHANGED <<logdata, header, lh>>
      BY <1>3, Zenon DEF RecoverInstall, InstallOne
    <2>1. /\ header = lh /\ tail < Len(lh) /\ Holds(home, lh, tail) /\ Len(lh) \in Nat
          /\ tail + 1 \in 1 .. Len(lh) /\ x \in Blocks /\ x \in Range(header)
          /\ \A i \in 1 .. Len(lh) : lh[i] \in Blocks
      BY <1>0, <2>0, SMTT(30) DEF ContentInv, Range
    <2>2. logdata[tail + 1] \in Values
      BY <2>1, SizesAssumption, SMTT(30) DEF ContentInv
    <2>3. /\ home'[x] = logdata[tail + 1] /\ \A b \in Blocks : b # x => home'[b] = home[b]
          /\ home' \in [Blocks -> Values] /\ cache' = home'
      BY <1>0, <2>0, <2>1, <2>2, ZenonT(30) DEF ContentInv
    <2>4. \A i \in 1 .. tail + 1 : home'[lh[i]] = logdata[i]
      <3> SUFFICES ASSUME NEW i \in 1 .. tail + 1 PROVE home'[lh[i]] = logdata[i]
        BY Zenon
      <3>1. CASE i = tail + 1
        BY <2>3, <3>1, Zenon
      <3>2. CASE i \in 1 .. tail
        <4>1. lh[i] # x /\ lh[i] \in Blocks
          BY <1>0, <2>1, <3>2, SMTT(30) DEF IsInjective
        <4> QED
          BY <2>1, <2>3, <3>2, <4>1, ZenonT(30) DEF Holds
      <3> QED
        BY <1>0, <3>1, <3>2, SMTT(30)
    <2>5. Recovered' = Recovered
      <3>1. /\ Recovered = [b \in Blocks |-> Recovered[b]]
            /\ \A i \in 1 .. Len(header) : Recovered[header[i]] = logdata[i]
            /\ \A b \in Blocks : b \notin Range(header) => Recovered[b] = home[b]
        BY <1>0, RecoveredAt, Zenon
      <3>2. \A b \in Blocks : b \notin Range(header) => Recovered[b] = home'[b]
        BY <2>1, <2>3, <3>1, Zenon
      <3>3. header' \in Seq(Blocks) /\ IsInjective(header') /\ header' = header /\ logdata' = logdata
        BY <1>0, <2>0, Zenon
      <3> HIDE DEF x
      <3> QED
        BY <3>1, <3>2, <3>3, RecoveredNext, Zenon
    <2>6. /\ boot' = "install" => /\ header' = lh' /\ tail' < Len(lh')
                                  /\ Holds(home, lh, tail)'
          /\ boot' = "erase" => header' = lh' /\ tail' = 0 /\ Holds(home, lh, Len(lh))'
      <3>1. CASE LastRound
        BY <2>0, <2>1, <2>4, <3>1, Zenon DEF Holds, LastRound
      <3>2. CASE ~LastRound
        BY <1>0, <2>0, <2>1, <2>4, <3>2, SMTT(30) DEF Holds, LastRound
      <3> QED
        BY <3>1, <3>2, Zenon
    <2>7. ContentInv'
      BY <1>0, <2>0, <2>3, <2>6, ZenonT(30) DEF ContentInv
    <2>8. boot' # "up"
      BY <2>0, Zenon
    <2> QED
      BY <1>0, <1>1, <2>5, <2>7, <2>8, Zenon DEF Abstract!vars, Active
  <1>4. CASE RecoverErase
    <2>0. /\ boot = "erase" /\ boot' = "up" /\ lh' = <<>> /\ header' = <<>>
          /\ UNCHANGED <<home, logdata, cache, tail>>
      BY <1>4, Zenon DEF RecoverErase, EraseLog
    <2>1. header = lh /\ tail = 0 /\ Holds(home, lh, Len(lh))
      BY <2>0, Zenon DEF ContentInv
    <2>2. Recovered = home
      <3>1. \A i \in 1 .. Len(header) : home[header[i]] = logdata[i]
        BY <2>1, Zenon DEF Holds
      <3> QED
        BY <1>0, <3>1, RecoveredIs, Zenon
    <2>3. Recovered' = home
      BY <1>0, <2>0, EmptyHeader, SMTT(30) DEF Recovered
    <2>4. ContentInv'
      <3>1. IsInjective(lh') /\ IsInjective(header') /\ Len(header') <= NLog - 1
        <4>1. Len(header') = 0 /\ Len(header) \in Nat /\ Len(header) <= NLog - 1
          BY <1>0, <2>0, SMTT(30) DEF ContentInv
        <4> QED
          BY <2>0, <4>1, SizesAssumption, SMTT(30) DEF IsInjective
      <3> QED
        BY <1>0, <2>0, <2>1, <3>1, ZenonT(30) DEF ContentInv
    <2> QED
      BY <1>0, <1>1, <2>0, <2>2, <2>3, <2>4, ZenonT(30) DEF Abstract!vars, Active
  <1> QED
    BY <1>2, <1>3, <1>4, Zenon DEF Recover

LEMMA StepRefines ==
    ASSUME Constants, IInv, ContentInv, LogFits, [Next]_vars
    PROVE  ContentInv' /\ [Abstract!Next]_Abstract!vars
  <1>1. CASE UNCHANGED vars
    BY <1>1, SMTT(30) DEF vars, ContentInv, Locked, Holds, Recovered, Abstract!vars
  <1>2. CASE Recover \/ Crash
    BY <1>2, RecoverRefines, CrashRefines, Zenon
  <1>3. ASSUME NEW p \in Procs, CallBeginOp(p) \/ Progress(p)
        PROVE  ContentInv' /\ [Abstract!Next]_Abstract!vars
    BY ZenonT(30), <1>3, WaitingRefines, BeginOpRefines, EndOpRefines, LogWriteRefines, WriteLogRefines, WriteHeadRefines,
       InstallTransRefines, EraseRefines
       DEF Progress, Commit
  <1>4. ASSUME NEW p \in Procs, NEW b \in Blocks, NEW v \in Values, Modify(p, b, v)
        PROVE  ContentInv' /\ [Abstract!Next]_Abstract!vars
    BY <1>4, ModifyRefines, Zenon
  <1> QED
    BY <1>1, <1>2, <1>3, <1>4, ZenonT(30) DEF Next

-----------------------------------------------------------------------------
(* The size of the log, and crash safety *)

(* The space accounting again, with the theorem of LogSpaceProofs. *)
Accounting == INSTANCE LogSpaceProofs WITH n <- Entries, state <- Where, used <- Logged

LEMMA SameFinite ==
    ASSUME NEW S
    PROVE  Accounting!IsFiniteSet(S) <=> IsFiniteSet(S)
  BY Zenon DEF Accounting!IsFiniteSet, IsFiniteSet

(* The two instances of LogSpace are the same. *)
LEMMA SameSpace ==
    /\ Accounting!Init <=> Space!Init
    /\ Space!Next => Accounting!Next
    /\ Accounting!vars = Space!vars /\ (Accounting!vars)' = (Space!vars)'
  <1>1. Accounting!Init <=> Space!Init
    BY Zenon DEF Accounting!Init, Space!Init
  <1>2. /\ Accounting!vars = Space!vars /\ (Accounting!vars)' = (Space!vars)'
    BY Zenon DEF Accounting!vars, Space!vars
  <1>3. \A S : Accounting!Cardinality(S) = Space!Cardinality(S)
    BY Zenon DEF Accounting!Cardinality, Space!Cardinality
  <1>4. Accounting!Inside = Space!Inside /\ Accounting!outstanding = Space!outstanding
    BY <1>3, Zenon DEF Accounting!Inside, Space!Inside, Accounting!outstanding, Space!outstanding
  <1>5. ASSUME NEW p \in Procs
        PROVE  /\ Space!BeginOp(p) => Accounting!BeginOp(p)
               /\ Space!LogWrite(p) => Accounting!LogWrite(p)
               /\ Space!EndOp(p) => Accounting!EndOp(p)
               /\ \A own, fresh \in BOOLEAN :
                     Space!Modify(p, own, fresh) => Accounting!Modify(p, own, fresh)
    <2>1. Space!BeginOp(p) => Accounting!BeginOp(p)
      BY <1>4, Zenon DEF Space!BeginOp, Accounting!BeginOp, Space!MayBegin, Accounting!MayBegin
    <2>2. Space!LogWrite(p) => Accounting!LogWrite(p)
      BY Zenon DEF Space!LogWrite, Accounting!LogWrite
    <2>3. Space!EndOp(p) => Accounting!EndOp(p)
      BY <1>4, Zenon DEF Space!EndOp, Accounting!EndOp
    <2>4. ASSUME NEW own \in BOOLEAN, NEW fresh \in BOOLEAN, Space!Modify(p, own, fresh)
          PROVE  Accounting!Modify(p, own, fresh)
      BY <1>4, <2>4, ZenonT(30) DEF Space!Modify, Accounting!Modify, Space!LogFull, Accounting!LogFull
    <2> QED
      BY <2>1, <2>2, <2>3, <2>4, ZenonT(30)
  <1>6. /\ Space!Erase => Accounting!Erase
        /\ Space!Finish => Accounting!Finish
        /\ Space!Restart => Accounting!Restart
    BY Zenon DEF Space!Erase, Accounting!Erase, Space!Finish, Accounting!Finish,
           Space!Restart, Accounting!Restart
  <1>7. Space!Next => Accounting!Next
    BY <1>5, <1>6, ZenonT(30) DEF Space!Next, Accounting!Next
  <1> QED
    BY <1>1, <1>2, <1>7, ZenonT(30)

(* While no operation of the transaction has written as many blocks as     *)
(* begin_op reserves, the log panics neither in log_write ("too big a      *)
(* transaction", "log_write outside of trans") nor in end_op               *)
(* ("log.committing"), and does not outgrow the log on disk, whatever      *)
(* operations write otherwise.                                             *)
THEOREM LogNeverPanics ==
    Constants /\ Sizes /\ Spec => [](peak < MAXOPBLOCKS => ~panicked /\ LogFits)
  <1> SUFFICES ASSUME Constants, Sizes
               PROVE  Spec => [](peak < MAXOPBLOCKS => ~panicked /\ LogFits)
    BY Zenon
  <1>1. Accounting!Sizes
    BY SameFinite, SizesAssumption, ZenonT(30) DEF Constants, Sizes, Accounting!Sizes
  <1>2. Accounting!Spec => []Accounting!ReservationSuffices
    BY <1>1, Accounting!ReservationSafe, ZenonT(30)
  <1>4. Space!Init => Accounting!Init
    BY SameSpace, ZenonT(30)
  <1>5. [Space!Next]_Space!vars => [Accounting!Next]_Accounting!vars
    BY SameSpace, Zenon
  <1>3. Accounting!ReservationSuffices => (peak < MAXOPBLOCKS => ~panicked /\ LogFits)
    BY Zenon DEF Accounting!ReservationSuffices, Accounting!NoPanic, Entries, LogFits
  <1> QED
    BY <1>2, <1>3, <1>4, <1>5, Invariance, PTL DEF Space!Spec, Accounting!Spec

(* The log is crash-safe: it implements AtomicDisk.  The blocks written by *)
(* the operations of one commit become durable in one step, when the       *)
(* header is written, and no crash, after a panic, during commit or during *)
(* recovery, loses or splits them.  Sizes do not matter, nor how much an   *)
(* operation writes, as long as the entries fit the log on disk.           *)
THEOREM CrashSafe == Constants /\ Spec /\ []LogFits => CrashAtomic
  <1> SUFFICES ASSUME Constants PROVE Spec /\ []LogFits => CrashAtomic
    BY Zenon
  <1>1. Init => ContentInv /\ Abstract!Init
    <2> SUFFICES ASSUME Init PROVE ContentInv /\ Abstract!Init
      BY Zenon
    <2>1. /\ home \in [Blocks -> Values] /\ logdata \in [1 .. NLog - 1 -> Values]
          /\ header = <<>> /\ lh = <<>> /\ Len(header) <= NLog - 1
      BY SizesAssumption, ValuesAssumption, SMTT(30) DEF Init, Constants
    <2>2. IsInjective(lh) /\ IsInjective(header)
      BY <2>1, SMTT(30) DEF IsInjective
    <2>3. Recovered = home
      BY <2>1, EmptyHeader, SMTT(30) DEF Recovered
    <2>4. ContentInv
      BY <2>1, <2>2, ZenonT(30) DEF Init, ContentInv
    <2>5. Abstract!Init
      BY <2>1, <2>3, ZenonT(30) DEF Init, Abstract!Init
    <2> QED
      BY <2>4, <2>5, ZenonT(30)
  <1>2. IInv /\ ContentInv /\ LogFits /\ [Next]_vars => ContentInv' /\ [Abstract!Next]_Abstract!vars
    BY StepRefines, Zenon
  <1>3. Spec => []IInv
    BY Invariance, PTL
  <1> QED
    BY <1>1, <1>2, <1>3, PTL DEF Spec, CrashAtomic, Abstract!Spec

(* In particular, operations that all write fewer blocks than begin_op     *)
(* reserves for them are crash-safe, for any number of processes.          *)
COROLLARY CrashSafeWithinReservation ==
    Constants /\ Sizes /\ Spec /\ [](peak < MAXOPBLOCKS) => CrashAtomic
  BY LogNeverPanics, CrashSafe, PTL

==============================================================================
