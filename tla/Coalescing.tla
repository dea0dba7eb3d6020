----------------------------- MODULE Coalescing -----------------------------
(***************************************************************************)
(* What SingleFlight promises (cache.py): "while the first caller's        *)
(* _compute() is in flight, every other caller with the same key awaits    *)
(* the same future - the work happens exactly once.  After completion the  *)
(* in-flight entry is cleared".                                            *)
(***************************************************************************)
CONSTANTS Callers, Works

VARIABLES
    waiting,   \* the callers that wait for each work
    inFlight   \* the works that are being done

vars == <<waiting, inFlight>>

Init == waiting = [w \in Works |-> {}] /\ inFlight = {}

\* The first caller starts the work, the next ones join it.
Join(c, w) ==
    /\ \A v \in Works : c \notin waiting[v]
    /\ waiting' = [waiting EXCEPT ![w] = waiting[w] \cup {c}]
    /\ inFlight' = inFlight \cup {w}

\* A caller gives up, and leaves the work to the others.
Leave(c, w) ==
    /\ c \in waiting[w] /\ waiting[w] # {c}
    /\ waiting' = [waiting EXCEPT ![w] = waiting[w] \ {c}]
    /\ UNCHANGED inFlight

\* Done or given up: it is so for everyone who waits, and for good.
Complete(w) ==
    /\ w \in inFlight
    /\ waiting' = [waiting EXCEPT ![w] = {}]
    /\ inFlight' = inFlight \ {w}

Next ==
    \/ \E c \in Callers, w \in Works : Join(c, w) \/ Leave(c, w)
    \/ \E w \in Works : Complete(w)

Spec == Init /\ [][Next]_vars
=============================================================================
