----------------------------- MODULE MCPrograms -----------------------------
(* The shell (whose names are those of module Shell) and a process that    *)
(* takes signals.  The two do not interact: a behaviour is one of one of   *)
(* them, chosen by part, while the other stays in an initial state.        *)
EXTENDS Shell

CONSTANTS Signums, Alarms, UintMod, MaxSent, MaxStack

VARIABLES
    part,
    state, pending, handlers, alarmFlag, tf, stack, interrupted, resumed, sent

G == INSTANCE Signals

Characters == {"a", " ", "<", ">", "|", "&", ";", "(", ")"}

(* All lines of up to three characters, and some that are longer *)
LinesTyped ==
    UNION {[1..n -> Characters] : n \in 1..3}
    \cup {<<"a", "|", "a", "|", "a">>, <<"a", "|", "a", "|", "a", "|", "a">>,
          <<"(", "a", ";", "a", ")", "|", "a">>, <<"a", "|", "a", "&", ";", "a">>,
          <<"a", "|", "(", "a", "<", "a", ")", ">", ">", "a">>,
          <<"(", "a", "|", "a", ">", "a", ")", "|", "a">>, <<"a", " ", "a", "<">>,
          <<"(", "a", ")", "a">>, <<"a", " ", "a", " ", "a">>}

(* A line alone, or lines typed while commands may run in the background *)
Typed ==
    {<<l>> : l \in LinesTyped}
    \cup {<<l, <<"a">> >> : l \in {l \in LinesTyped : \E i \in DOMAIN l : l[i] = "&"}}
    \cup {<< <<"a", "|", "a", "&">>, <<"a", "|", "a">> >>, << <<"a", "&">>, <<"a", "&">>, <<"a">> >>,
          << <<"c", "d", " ", "a">>, <<"a">> >>}

signals == <<state, pending, handlers, alarmFlag, tf, stack, interrupted, resumed, sent>>

MCInit ==
    /\ part \in {"signals", "shell"}
    /\ G!Init /\ Init
    /\ part # "signals" => \A s \in Signums : handlers[s] = G!SIG_DFL

MCNext ==
    \/ part = "signals" /\ G!Next /\ UNCHANGED <<part, vars>>
    \/ part = "shell" /\ Next /\ UNCHANGED <<part, signals>>

(* What is fair is disabled in the initial states, so that this says        *)
(* nothing of the part that is not chosen.                                  *)
MCSpec == MCInit /\ [][MCNext]_<<part, vars, signals>> /\ G!Fairness /\ Fairness

(* Signals: sigreturn resumes what the handler interrupted. *)
ResumesInterrupted == G!ResumesInterrupted

(* Signals: every signal is delivered, and its handler returns, unless the  *)
(* process sleeps for good.                                                 *)
SignalsDelivered == G!SignalsDelivered

=============================================================================
