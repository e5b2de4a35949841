------------------------------ MODULE Permits ------------------------------
(***************************************************************************)
(* What a counting semaphore promises, with no queue and no counter: at    *)
(* most Max callers hold a permit, and no permit stays unused while a      *)
(* caller waits for one.                                                   *)
(***************************************************************************)
EXTENDS Naturals, FiniteSets

CONSTANTS Callers, \* the callers of acquire()
          Max      \* the number of permits

VARIABLES waiting, \* the callers that asked and have no permit yet
          holding  \* the callers that own a permit

permitVars == <<waiting, holding>>

PInit == waiting = {} /\ holding = {}

\* A caller asks while a permit is free, and owns it at once.
TakeFree(c) ==
    /\ c \notin waiting \union holding
    /\ Cardinality(holding) < Max
    /\ holding' = holding \union {c}
    /\ UNCHANGED waiting

\* A caller asks while every permit is owned, and waits.
StartWaiting(c) ==
    /\ c \notin waiting \union holding
    /\ Cardinality(holding) = Max
    /\ waiting' = waiting \union {c}
    /\ UNCHANGED holding

\* A permit given back goes straight to some waiting caller.
HandOver(c, w) ==
    /\ c \in holding
    /\ w \in waiting
    /\ holding' = (holding \ {c}) \union {w}
    /\ waiting' = waiting \ {w}

\* A permit given back while nobody waits becomes free.
GiveBack(c) ==
    /\ c \in holding
    /\ waiting = {}
    /\ holding' = holding \ {c}
    /\ UNCHANGED waiting

PNext == \E c \in Callers :
            \/ TakeFree(c)
            \/ StartWaiting(c)
            \/ GiveBack(c)
            \/ \E w \in Callers : HandOver(c, w)

PSpec == PInit /\ [][PNext]_permitVars
=============================================================================
