------------------------------ MODULE Console ------------------------------
(***************************************************************************)
(* Console input (console.c): the ring of INPUT_BUF characters that the    *)
(* keyboard and serial interrupts edit and that consoleread empties, and   *)
(* the cursor of the screen that all of it is echoed to.  Indices are      *)
(* uints that wrap; cons.lock makes a step of what runs under it.          *)
(***************************************************************************)
EXTENDS Integers, Sequences

CONSTANTS
    Readers,        \* processes in consoleread
    INPUT_BUF,      \* size of the ring
    UintMod,        \* indices are modulo this; a multiple of INPUT_BUF
    Chars,          \* what getc returns
    Counts,         \* values of n in consoleread
    COLS, ROWS,     \* of the screen: 80 and 25
    Outputs,        \* what processes write
    MaxTyped        \* bound on the number of characters typed

VARIABLES
    input,          \* struct input: buf, r, w, e
    reader,         \* [pc, n, target, killed] of a process
    pos,            \* cursor position
    overflow,       \* panic("pos under/overflow")
    line,           \* history: what has been committed and not read, and
    edit,           \* history: what is being edited
    typed           \* number of characters typed

vars == <<input, reader, pos, overflow, line, edit, typed>>

Uint(i) == i % UintMod
At(i) == input.buf[i % INPUT_BUF]

-----------------------------------------------------------------------------
(* cgaputc: the position after c, for a cursor at p *)
Moved(p, c) ==
    CASE c = "\n"        -> p + COLS - (p % COLS)
      [] c = "BACKSPACE" -> IF p > 0 THEN p - 1 ELSE p
      [] OTHER           -> p + 1

Cgaputc(p, c) ==
    LET q == Moved(p, c) IN IF q \div COLS >= ROWS - 1 THEN q - COLS ELSE q

(* Writes the characters of s; overflow records the panic. *)
Put(s) ==
    LET at[i \in 0..Len(s)] == IF i = 0 THEN pos ELSE Cgaputc(at[i - 1], s[i])
    IN  /\ pos' = at[Len(s)]
        /\ overflow' = (overflow \/ \E i \in 1..Len(s) : Moved(at[i - 1], s[i]) > ROWS * COLS)

Times(n, c) == [i \in 1..n |-> c]

-----------------------------------------------------------------------------
(* consoleintr, for one character.  Readers are woken when a line is there. *)

Wakeup(r) == IF r.pc = "sleep" THEN [r EXCEPT !.pc = "read"] ELSE r

(* How many characters ^U removes: back to w or to a newline *)
Killed ==
    LET Stops(k) == Uint(input.e - k) = input.w \/ At(Uint(input.e - k - 1)) = "\n"
    IN  CHOOSE k \in 0..INPUT_BUF : Stops(k) /\ \A j \in 0..(k - 1) : ~Stops(j)

Erase(k) ==
    /\ input' = [input EXCEPT !.e = Uint(@ - k)]
    /\ edit' = SubSeq(edit, 1, Len(edit) - k)
    /\ Put(Times(k, "BACKSPACE"))
    /\ UNCHANGED <<reader, line>>

(* Mutant: one character too many is let into the ring. *)
Room_OffByOne == Uint(input.e - input.r) <= INPUT_BUF

Room == Uint(input.e - input.r) < INPUT_BUF

(* Mutant: a full ring does not wake the readers. *)
Commits_NotWhenFull(c, e) == c \in {"\n", "^D"}

Commits(c, e) == c \in {"\n", "^D"} \/ e = Uint(input.r + INPUT_BUF)

Insert(key) ==
    LET c == IF key = "\r" THEN "\n" ELSE key
        e == Uint(input.e + 1)
    IN  /\ Room
        /\ Put(<<c>>)
        /\ IF Commits(c, e)
             THEN /\ input' = [input EXCEPT !.buf[input.e % INPUT_BUF] = c, !.e = e, !.w = e]
                  /\ reader' = [p \in Readers |-> Wakeup(reader[p])]
                  /\ line' = line \o Append(edit, c) /\ edit' = <<>>
             ELSE /\ input' = [input EXCEPT !.buf[input.e % INPUT_BUF] = c, !.e = e]
                  /\ edit' = Append(edit, c)
                  /\ UNCHANGED <<reader, line>>

Consoleintr(c) ==
    /\ typed < MaxTyped /\ typed' = typed + 1
    /\ CASE c = "^U" -> Erase(Killed)
         [] c = "^H" -> Erase(IF input.e # input.w THEN 1 ELSE 0)
         [] OTHER    -> Insert(c)

-----------------------------------------------------------------------------
Consoleread(p, n) ==
    /\ reader[p].pc = "idle"
    /\ reader' = [reader EXCEPT ![p] = [@ EXCEPT !.pc = "read", !.n = n, !.target = n]]
    /\ UNCHANGED <<input, pos, overflow, line, edit, typed>>

(* The loop of consoleread, from a lock to the next sleep or to the return: *)
(* k characters are taken.  ^D ends the call; if the call has read          *)
(* something, ^D is left for the next one.                                  *)
Read(p) ==
    LET x == reader[p]
        C(i) == At(Uint(input.r + i))
        avail == Uint(input.w - input.r)
        Ends(i) == i = x.n \/ (i > 0 /\ C(i - 1) = "\n")
        Stops(i) == Ends(i) \/ i = avail \/ C(i) = "^D"
        k == CHOOSE i \in 0..INPUT_BUF : Stops(i) /\ \A j \in 0..(i - 1) : ~Stops(j)
        eof == ~Ends(k) /\ k < avail
        taken == IF eof /\ x.n - k = x.target THEN k + 1 ELSE k
    IN  /\ x.pc = "read"
        /\ input' = [input EXCEPT !.r = Uint(@ + taken)]
        /\ line' = SubSeq(line, taken + 1, Len(line))
        /\ reader' = [reader EXCEPT ![p] =
             [x EXCEPT !.n = x.n - k,
                       !.pc = IF Ends(k) \/ eof \/ x.killed THEN "idle" ELSE "sleep"]]
        /\ UNCHANGED <<pos, overflow, edit, typed>>

(* kill wakes a sleeper (proc.c). *)
Kill(p) ==
    /\ ~reader[p].killed
    /\ reader' = [reader EXCEPT ![p] = [Wakeup(@) EXCEPT !.killed = TRUE]]
    /\ UNCHANGED <<input, pos, overflow, line, edit, typed>>

Consolewrite(s) ==
    /\ typed < MaxTyped /\ typed' = typed + 1
    /\ Put(s)
    /\ UNCHANGED <<input, reader, line, edit>>

-----------------------------------------------------------------------------
Init ==
    /\ input \in {[buf |-> [k \in 0..(INPUT_BUF - 1) |-> "0"], r |-> i, w |-> i, e |-> i] :
                    i \in {0, UintMod - 2}}
    /\ reader = [p \in Readers |-> [pc |-> "idle", n |-> 0, target |-> 0, killed |-> FALSE]]
    /\ pos = 0 /\ overflow = FALSE /\ line = <<>> /\ edit = <<>> /\ typed = 0

Next ==
    \/ \E c \in Chars : Consoleintr(c)
    \/ \E s \in Outputs : Consolewrite(s)
    \/ \E p \in Readers : Read(p) \/ Kill(p) \/ \E n \in Counts : Consoleread(p, n)

Spec == Init /\ [][Next]_vars

-----------------------------------------------------------------------------
(* The ring holds, in the order they were typed and as edited by backspace  *)
(* and ^U, the lines that were committed and not read yet, then the line    *)
(* being edited, however r, w and e have wrapped (console.c:218-222); and   *)
(* the echo never leaves the screen: cgaputc scrolls before crt[pos] is     *)
(* outside and before the panic at console.c:148.                           *)
RingHoldsInput ==
    LET all == line \o edit IN
    /\ Uint(input.w - input.r) = Len(line) /\ Uint(input.e - input.w) = Len(edit)
    /\ \A i \in 1..Len(all) : At(Uint(input.r + i - 1)) = all[i]
    /\ ~overflow /\ pos \in 0..((ROWS - 1) * COLS - 1)

(* A reader sleeps only while there is no committed character, and then     *)
(* the ring has room for the character that will commit one: neither a      *)
(* reader nor the typist is stuck with a full ring (console.c:222, 246).    *)
ReaderSleepsWithReason ==
    \A p \in Readers : reader[p].pc = "sleep" => input.r = input.w /\ Room

=============================================================================
