------------------------------ MODULE Signals ------------------------------
(***************************************************************************)
(* Signals and alarms of a process (proc.c, sysproc.c, syscall.c): other   *)
(* processes and the timer make signals pending; on each return to user    *)
(* mode the kernel pushes the trap frame and a call of the handler on the  *)
(* user stack; sigreturn takes it back.  The user stack is a sequence of   *)
(* words that grows to the right; a trap frame counts as a word.           *)
(***************************************************************************)
EXTENDS Integers, Sequences, FiniteSetsExt

CONSTANTS
    Signums,        \* signal numbers in use; the greatest is SIGALRM
    Alarms,         \* arguments of alarm
    UintMod,        \* alarmFlag is modulo this
    MaxSent,        \* bound on calls of sigsend, alarm and signal
    MaxStack        \* bound on the user stack, in words

SIGALRM == Max(Signums)
SIG_DFL == 0
Handler == 1

VARIABLES
    state,          \* "embryo", "live", "asleep" in a call, or "exited"
    pending, handlers, alarmFlag,   \* fields of struct proc
    tf,             \* user registers: eip, esp, ebp, eax
    stack,          \* the user stack
    interrupted,    \* history: the contexts that handlers have interrupted
    resumed,        \* history: the last one to be resumed, and as what
    sent            \* number of calls of sigsend, alarm and signal

vars == <<state, pending, handlers, alarmFlag, tf, stack, interrupted, resumed, sent>>
history == <<interrupted, resumed>>

-----------------------------------------------------------------------------
(* The kernel *)

(* allocproc leaves the slot visible, with its pid, before it clears        *)
(* pending; nobody has been told the pid yet.  fork copies the handlers.    *)
Alloc ==
    /\ state = "embryo" /\ state' = "live"
    /\ pending' = {} /\ alarmFlag' = UintMod - 1
    /\ UNCHANGED <<handlers, tf, stack, history, sent>>

Counted == sent < MaxSent /\ sent' = sent + 1

(* sigsend by some process, which has found the pid; a process that sleeps  *)
(* is not woken.                                                            *)
Sigsend(s) ==
    /\ Counted
    /\ pending' = pending \cup {s}
    /\ UNCHANGED <<state, handlers, alarmFlag, tf, stack, history>>

(* updateAlarms.  The slot of an exited process ticks on until wait. *)
Tick ==
    /\ alarmFlag > 0
    /\ alarmFlag' = alarmFlag - 1
    /\ pending' = IF alarmFlag = 1 THEN pending \cup {SIGALRM} ELSE pending
    /\ UNCHANGED <<state, handlers, tf, stack, history, sent>>

InUser == state = "live"
Code(label) == InUser /\ tf.eip = label

(* syscall: the result goes to eax, in whatever trap frame there is now. *)
Syscall(regs, result) == tf' = [regs EXCEPT !.eax = result]

Calls == Code("main") \/ Code("body")

Signal(s, h) ==
    /\ Calls /\ Counted /\ h # handlers[s]
    /\ handlers' = [handlers EXCEPT ![s] = h]
    /\ Syscall(tf, handlers[s])
    /\ UNCHANGED <<state, pending, alarmFlag, stack, history>>

(* signal, of a number below 0 or from NUMSIG on *)
SignalFails ==
    /\ Calls /\ Counted
    /\ Syscall(tf, -1)
    /\ UNCHANGED <<state, pending, handlers, alarmFlag, stack, history>>

(* A call that sleeps in the kernel (read, wait, sleep), and its return     *)
(* once what it waits for has happened.                                     *)
Block ==
    /\ Calls /\ state' = "asleep"
    /\ UNCHANGED <<pending, handlers, alarmFlag, tf, stack, history, sent>>

Unblock ==
    /\ state = "asleep" /\ state' = "live"
    /\ Syscall(tf, 0)
    /\ UNCHANGED <<pending, handlers, alarmFlag, stack, history, sent>>

Alarm(t) ==
    /\ Calls /\ Counted
    /\ pending' = IF t = 0 THEN pending \ {SIGALRM} ELSE pending
    /\ alarmFlag' = t /\ Syscall(tf, t)
    /\ UNCHANGED <<state, handlers, stack, history>>

Top == SubSeq(stack, 1, tf.esp)

(* The handler of s is called, with the trap frame and the code that calls  *)
(* sigreturn below its arguments; SIG_DFL only prints.                      *)
CallHandler(s) ==
    IF handlers[s] = SIG_DFL THEN UNCHANGED <<tf, stack, history>>
    ELSE /\ tf.esp + 3 <= MaxStack
         /\ stack' = Top \o <<tf, [signum |-> s], "wrapper">>
         /\ tf' = [tf EXCEPT !.eip = "entry", !.ebp = tf.esp + 3, !.esp = tf.esp + 3]
         /\ interrupted' = Append(interrupted, tf)
         /\ UNCHANGED resumed

(* Mutant: only a signal with a handler is removed from pending. *)
Deliver_KeepsDefault ==
    LET s == Min(pending) IN
    /\ InUser /\ pending # {}
    /\ IF handlers[s] = SIG_DFL THEN UNCHANGED pending
       ELSE pending' = pending \ {s}
    /\ CallHandler(s)
    /\ UNCHANGED <<state, handlers, alarmFlag, sent>>

(* checkPEndingSignals, on the way back to user mode from any interrupt or  *)
(* call: the lowest pending signal.  isHandlingsignal is never set, so a    *)
(* handler, and the code that calls sigreturn, is interrupted like other    *)
(* code.                                                                    *)
Deliver ==
    LET s == Min(pending) IN
    /\ InUser /\ pending # {}
    /\ pending' = pending \ {s}
    /\ CallHandler(s)
    /\ UNCHANGED <<state, handlers, alarmFlag, sent>>

(* Mutant: the search for the trap frame goes on to the outermost one. *)
Sigreturn_Outermost ==
    LET frame == stack[1] IN
    /\ Code("int64")
    /\ Syscall(frame, 0)
    /\ resumed' = [was |-> interrupted[Len(interrupted)], now |-> [frame EXCEPT !.eax = 0]]
    /\ interrupted' = SubSeq(interrupted, 1, Len(interrupted) - 1)
    /\ stack' = SubSeq(stack, 1, frame.esp)
    /\ UNCHANGED <<state, pending, handlers, alarmFlag, sent>>

(* sigreturn reads the trap frame from where ebp points to.  Its result 0   *)
(* is stored by syscall.                                                    *)
Sigreturn ==
    LET frame == stack[tf.ebp - 2] IN
    /\ Code("int64")
    /\ Syscall(frame, 0)
    /\ resumed' = [was |-> interrupted[Len(interrupted)], now |-> [frame EXCEPT !.eax = 0]]
    /\ interrupted' = SubSeq(interrupted, 1, Len(interrupted) - 1)
    /\ stack' = SubSeq(stack, 1, frame.esp)
    /\ UNCHANGED <<state, pending, handlers, alarmFlag, sent>>

-----------------------------------------------------------------------------
(* The user's code: a program with something in eax, a handler compiled     *)
(* with a frame pointer, and sigretwrapper.                                 *)

User(label, regs, words) ==
    /\ Code(label)
    /\ tf' = regs /\ stack' = words
    /\ UNCHANGED <<state, pending, handlers, alarmFlag, history, sent>>

Compute == User("main", [tf EXCEPT !.eax = 1], stack)

(* push ebp; mov esp, ebp *)
Entry ==
    /\ tf.esp < MaxStack
    /\ User("entry", [tf EXCEPT !.eip = "body", !.esp = @ + 1, !.ebp = tf.esp + 1], Append(Top, [ebp |-> tf.ebp]))

(* leave; ret to the wrapper *)
Leave == User("body", [tf EXCEPT !.eip = "ret", !.esp = tf.ebp - 1, !.ebp = stack[tf.ebp].ebp], stack)
Ret == User("ret", [tf EXCEPT !.eip = stack[tf.esp], !.esp = @ - 1], stack)

(* sigretwrapper: push 0; mov SYS_sigreturn, eax; int 64 *)
Sigretwrapper ==
    User("wrapper", [tf EXCEPT !.eip = "int64", !.esp = @ + 1, !.eax = 24], Append(Top, "argc"))

Exit ==
    /\ Code("main") /\ state' = "exited"
    /\ UNCHANGED <<pending, handlers, alarmFlag, tf, stack, history, sent>>

-----------------------------------------------------------------------------
Main == [eip |-> "main", esp |-> 0, ebp |-> 0, eax |-> 0]

Init ==
    /\ state = "embryo" /\ pending = {} /\ alarmFlag = 0
    /\ handlers \in [Signums -> {SIG_DFL, Handler}]
    /\ tf = Main /\ stack = <<>> /\ interrupted = <<>>
    /\ resumed = [was |-> Main, now |-> Main] /\ sent = 0

Next ==
    \/ Alloc \/ Tick \/ Deliver \/ Sigreturn
    \/ \E s \in Signums : Sigsend(s) \/ \E h \in {SIG_DFL, Handler} : Signal(s, h)
    \/ \E t \in Alarms : Alarm(t)
    \/ SignalFails \/ Block \/ Unblock
    \/ Compute \/ Entry \/ Leave \/ Ret \/ Sigretwrapper \/ Exit

(* The timer interrupts a process in user mode again and again, and each    *)
(* return to user mode looks for a signal, that from a call which slept     *)
(* too.  User code runs, and a handler is not for ever in its calls.  What  *)
(* a call sleeps for need never happen.                                     *)
Fairness ==
    /\ SF_vars(Deliver) /\ WF_vars(Sigreturn)
    /\ WF_vars(Entry) /\ SF_vars(Leave) /\ WF_vars(Ret) /\ WF_vars(Sigretwrapper)

Spec == Init /\ [][Next]_vars /\ Fairness

-----------------------------------------------------------------------------
(* Properties *)

(* sigreturn goes back to what its handler has interrupted, with its stack  *)
(* and frame pointer, however handlers interrupt each other: the address    *)
(* ebp + 8 is always that of the innermost trap frame (proc.c:851, 864).    *)
(* The register eax is not included, see ContextRestored.                   *)
ResumesInterrupted == [resumed.was EXCEPT !.eax = 0] = [resumed.now EXCEPT !.eax = 0]

(* sigreturn gives the interrupted code back all its registers: the trap    *)
(* frame is copied so that "we will rever back to it at sigreturn"          *)
(* (uthread.c:247).                                                         *)
ContextRestored == resumed.was = resumed.now

(* Every signal reaches a process in the end, and its handler comes back,   *)
(* unless the process sleeps in the kernel for good: no handler runs with   *)
(* signals off (proc.c:864), and a signal that comes while the process      *)
(* sleeps, which wakes nobody (proc.c:800-818), is kept for its return.     *)
SignalsDelivered ==
    []<>(state # "asleep") =>
        (state = "live" ~> (pending = {} /\ tf.eip = "main") \/ state = "exited")

=============================================================================
