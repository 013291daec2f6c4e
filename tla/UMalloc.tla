------------------------------ MODULE UMalloc ------------------------------
(***************************************************************************)
(* malloc and free of user programs (umalloc.c): the circular list of free *)
(* blocks in address order.  Addresses and sizes are in units of a header; *)
(* base is at address 0, below the heap.  One call is a step: a program    *)
(* that calls them from a signal handler as well gets no promise.          *)
(***************************************************************************)
EXTENDS Integers, FiniteSets

CONSTANTS
    HeapStart, HeapEnd,     \* the heap grows from one to at most the other
    MinCore,                \* least number of units to ask sbrk for: 4096
    Sizes                   \* numbers of units of calls, header included

VARIABLES
    ptr, size,      \* fields of the headers, by address
    freep,          \* where the search begins; Null before the first call
    brk,            \* end of the heap
    given,          \* history: what sbrk gave to malloc, <<address, size>>
    live            \* history: what malloc gave out, <<address, size>>

vars == <<ptr, size, freep, brk, given, live>>

Base == 0
Null == -1
Addrs == {Base} \cup (HeapStart..(HeapEnd - 1))

Heap == [ptr |-> ptr, size |-> size, freep |-> freep, brk |-> brk, given |-> given]

(* The place for bp: the free block it comes after *)
RECURSIVE Place(_, _, _)
Place(h, p, bp) ==
    LET next == h.ptr[p] IN
    IF (bp > p /\ bp < next) \/ (p >= next /\ (bp > p \/ bp < next)) THEN p
    ELSE Place(h, next, bp)

(* Mutant: bp is not joined with the block after it. *)
Join_Never(h, bp, next) == [h EXCEPT !.ptr[bp] = next]

(* bp and the block next after it, joined if they touch.  A header that is *)
(* not in use is memory like any other: its fields are forgotten.          *)
Join(h, bp, next) ==
    IF bp + h.size[bp] = next
      THEN [h EXCEPT !.size[bp] = @ + h.size[next], !.ptr[bp] = h.ptr[next],
                     !.size[next] = 0, !.ptr[next] = Null]
      ELSE [h EXCEPT !.ptr[bp] = next]

FreeBlock(h, bp) ==
    LET p == Place(h, h.freep, bp) IN
    [Join(Join(h, bp, h.ptr[p]), p, bp) EXCEPT !.freep = p]

(* morecore; the result has freep = Null if sbrk fails. *)
Morecore(h, n) ==
    LET nu == IF n < MinCore THEN MinCore ELSE n IN
    IF h.brk + nu > HeapEnd THEN [h EXCEPT !.freep = Null]
    ELSE FreeBlock([h EXCEPT !.size[h.brk] = nu, !.brk = @ + nu, !.given = @ \cup {<<h.brk, nu>>}], h.brk)

(* The loop of malloc: the heap after it, and the block (Null if none) *)
RECURSIVE Search(_, _, _, _)
Search(h, prevp, p, n) ==
    IF h.size[p] = n
      THEN [block |-> p, h |-> [h EXCEPT !.ptr[prevp] = h.ptr[p], !.ptr[p] = Null, !.freep = prevp]]
    ELSE IF h.size[p] > n
      THEN LET rest == h.size[p] - n IN
           [block |-> p + rest,
            h |-> [h EXCEPT !.size[p] = rest, !.size[p + rest] = n, !.freep = prevp]]
    ELSE IF p # h.freep THEN Search(h, p, h.ptr[p], n)
    ELSE LET more == Morecore(h, n) IN
         IF more.freep = Null THEN [block |-> Null, h |-> h]
         ELSE Search(more, more.freep, more.ptr[more.freep], n)

Commit(h) ==
    /\ ptr' = h.ptr /\ size' = h.size /\ freep' = h.freep /\ brk' = h.brk /\ given' = h.given

Malloc(n) ==
    LET h == IF freep # Null THEN Heap
             ELSE [Heap EXCEPT !.ptr[Base] = Base, !.size[Base] = 0, !.freep = Base]
        r == Search(h, h.freep, h.ptr[h.freep], n)
    IN  /\ Commit(r.h)
        /\ live' = IF r.block = Null THEN live ELSE live \cup {<<r.block, n>>}

Free(b) ==
    /\ Commit(FreeBlock(Heap, b[1]))
    /\ live' = live \ {b}

(* The program, or uthread_create on its behalf, calls sbrk itself. *)
Sbrk(n) ==
    /\ brk + n <= HeapEnd /\ brk' = brk + n
    /\ UNCHANGED <<ptr, size, freep, given, live>>

Init ==
    /\ ptr = [a \in Addrs |-> Null] /\ size = [a \in Addrs |-> 0]
    /\ freep = Null /\ brk = HeapStart /\ given = {} /\ live = {}

Next ==
    \/ \E n \in Sizes : Malloc(n)
    \/ \E b \in live : Free(b)
    \/ Sbrk(1)

Spec == Init /\ [][Next]_vars

-----------------------------------------------------------------------------
RECURSIVE ListFrom(_)
ListFrom(p) == {p} \cup (IF ptr[p] = Base THEN {} ELSE ListFrom(ptr[p]))

Units(b) == b[1]..(b[1] + b[2] - 1)

(* The blocks given out and the free ones split what sbrk gave to malloc    *)
(* among them, with no unit in two; the list is in the order of addresses,  *)
(* comes back to base, and never has two blocks that touch (umalloc.c:30).  *)
HeapPartitioned ==
    freep # Null =>
        LET list == ListFrom(Base)
            blocks == live \cup {<<p, size[p]>> : p \in list \ {Base}}
        IN  /\ freep \in list
            /\ \A p \in list : ptr[p] > p \/ ptr[p] = Base
            /\ \A p \in list : p + size[p] # ptr[p] \/ p = Base
            /\ \A b, c \in blocks : b # c => Units(b) \cap Units(c) = {}
            /\ UNION {Units(b) : b \in blocks} = UNION {Units(g) : g \in given}
            /\ \A b \in live : size[b[1]] = b[2]

=============================================================================
