-------------------------- MODULE OutputCollector --------------------------
(***************************************************************************)
(* collectExecOutput() of packages/core/src/engine/managers/               *)
(* execution-manager.ts with truncateOutput() of utils.ts: the promise     *)
(* that execute() awaits while its code runs.  Callbacks of the Docker     *)
(* stream, of the two streams demultiplexed from it and of two timers race *)
(* to settle it.                                                           *)
(*                                                                         *)
(* An output is a number of ASCII bytes.  A buffer is how many of them it  *)
(* still holds and, if it was cut, the total that its marker line reports. *)
(* What callbacks do to the buffers after the promise settled is not seen. *)
(***************************************************************************)
EXTENDS Naturals

CONSTANTS Outputs,        \* stdout and stderr
          MaxOutputSize,  \* maxOutputSize
          MarkerSize,     \* the size of the line that truncateOutput() appends
          ChunkSizes,     \* bound: the sizes of the chunks
          MaxSent         \* bound: the bytes that an output may get

ASSUME SizesAssumption == /\ MaxOutputSize \in Nat /\ MarkerSize \in Nat \ {0}
                          /\ ChunkSizes \subseteq Nat /\ MaxSent \in Nat

VARIABLES sent,       \* for each output, the bytes the process wrote, a history
          buffer,     \* for each output, the variable `stdout` or `stderr`
          truncated,
          stream,     \* the Docker stream
          ended,      \* stdoutEnded, stderrEnded
          timer,      \* the timer of timeoutMs
          grace,      \* the timer of 100 ms that starts when the stream ends
          outcome     \* how the promise was settled

vars == <<sent, buffer, truncated, stream, ended, timer, grace, outcome>>
data == <<sent, buffer, truncated>>

Init == /\ sent = [o \in Outputs |-> 0]
        /\ buffer = [o \in Outputs |-> [kept |-> 0, reported |-> 0]]
        /\ truncated = FALSE
        /\ stream = "open"
        /\ ended = {}
        /\ timer = "armed"
        /\ grace = "off"
        /\ outcome = "none"
-----------------------------------------------------------------------------
Size(b) == b.kept + IF b.reported = 0 THEN 0 ELSE MarkerSize

\* Mutant: the tail of the text is kept.
AddTail(b, n) ==
    IF Size(b) + n <= MaxOutputSize THEN [b EXCEPT !.kept = @ + n]
    ELSE [kept |-> IF n < MaxOutputSize THEN n ELSE MaxOutputSize, reported |-> Size(b) + n]

\* A chunk of n bytes is appended.  A text that is too long is cut to its first
\* MaxOutputSize bytes, and a marker line reports the length it had: that of
\* the real output the first time, later of a text that ends in a marker.
Add(b, n) ==
    IF Size(b) + n <= MaxOutputSize THEN [b EXCEPT !.kept = @ + n]
    ELSE [kept |-> MaxOutputSize, reported |-> Size(b) + n]

Receive(o, n) ==
    /\ outcome = "none"
    /\ stream \in {"open", "ended"} /\ o \notin ended
    /\ sent[o] + n <= MaxSent
    /\ sent' = [sent EXCEPT ![o] = @ + n]
    /\ buffer' = [buffer EXCEPT ![o] = Add(@, n)]
    /\ truncated' = (truncated \/ Size(buffer[o]) + n > MaxOutputSize)
    /\ UNCHANGED <<stream, ended, timer, grace, outcome>>

\* Mutant: the timer is not cleared.
CheckDoneKeepsTimer == IF ended' = Outputs
                         THEN outcome' = "output" /\ UNCHANGED timer
                         ELSE UNCHANGED <<outcome, timer>>

\* checkDone()
CheckDone == IF ended' = Outputs
               THEN outcome' = "output" /\ timer' = "cleared"
               ELSE UNCHANGED <<outcome, timer>>

\* A demultiplexed stream ends, which docker-modem may do or not.
OutputEnds(o) ==
    /\ outcome = "none"
    /\ stream = "ended" /\ o \notin ended
    /\ ended' = ended \union {o}
    /\ CheckDone
    /\ UNCHANGED <<data, stream, grace>>

\* Mutant: the promise is left to the "end" callbacks of the two outputs.
StreamEndsClears ==
    /\ stream = "open"
    /\ stream' = "ended"
    /\ timer' = "cleared"
    /\ UNCHANGED <<data, ended, grace, outcome>>

\* The Docker stream ends: 100 ms are left to the outputs.  The timer of
\* timeoutMs runs on.
StreamEnds ==
    /\ outcome = "none"
    /\ stream = "open"
    /\ stream' = "ended"
    /\ grace' = "armed"
    /\ UNCHANGED <<data, ended, timer, outcome>>

GraceEnds ==
    /\ grace = "armed"
    /\ grace' = "over"
    /\ \/ /\ outcome = "none"
          /\ ended' = Outputs
          /\ CheckDone
       \/ /\ outcome # "none"
          /\ UNCHANGED <<ended, timer, outcome>>
    /\ UNCHANGED <<data, stream>>

\* timeoutMs passed: what was collected is the result, the stream is destroyed.
TimesOut ==
    /\ outcome = "none"
    /\ timer = "armed"
    /\ timer' = "fired"
    /\ outcome' = "timedOut"
    /\ stream' = "destroyed"
    /\ UNCHANGED <<data, ended, grace>>

\* The Docker stream breaks: the promise is rejected, if it is not settled.
StreamError ==
    /\ stream \in {"open", "ended"}
    /\ stream' = "broken"
    /\ \/ /\ outcome = "none"
          /\ outcome' = "error"
          /\ timer' = "cleared"
       \/ /\ outcome # "none"
          /\ UNCHANGED <<outcome, timer>>
    /\ UNCHANGED <<data, ended, grace>>

\* Nothing of the execution can be seen any more.
Settled == outcome # "none" /\ grace # "armed" /\ UNCHANGED vars

Next == \/ \E o \in Outputs : \/ \E n \in ChunkSizes : Receive(o, n)
                              \/ OutputEnds(o)
        \/ StreamEnds
        \/ GraceEnds
        \/ TimesOut
        \/ StreamError
        \/ Settled

Spec == Init /\ [][Next]_vars

\* Timers fire.  Nothing is assumed of Docker.
FairSpec == Spec /\ WF_vars(TimesOut) /\ WF_vars(GraceEnds)
-----------------------------------------------------------------------------
\* The types of the variables.
TypeOK ==
    /\ sent \in [Outputs -> 0..MaxSent]
    /\ buffer \in [Outputs -> [kept : 0..MaxOutputSize, reported : Nat]]
    /\ truncated \in BOOLEAN
    /\ stream \in {"open", "ended", "broken", "destroyed"}
    /\ ended \in SUBSET Outputs
    /\ timer \in {"armed", "cleared", "fired"}
    /\ grace \in {"off", "armed", "over"}
    /\ outcome \in {"none", "output", "timedOut", "error"}

\* However the output was cut into chunks, and cut and marked again, what is
\* kept is its first MaxOutputSize bytes, there is a marker exactly if some of
\* it is missing, and `truncated` tells so.
FirstBytesKept ==
    /\ \A o \in Outputs :
          /\ buffer[o].kept = IF sent[o] < MaxOutputSize THEN sent[o] ELSE MaxOutputSize
          /\ buffer[o].reported # 0 <=> sent[o] > MaxOutputSize
    /\ truncated <=> \E o \in Outputs : sent[o] > MaxOutputSize

\* A timer is left armed only as long as the promise is not settled: it would
\* keep the process alive, and destroy a stream that is in use no more.
NoTimerLeft == outcome # "none" => timer # "armed"

\* The promise is always settled, whatever Docker does.
AlwaysSettles == <>(outcome # "none")
=============================================================================
