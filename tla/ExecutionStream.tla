-------------------------- MODULE ExecutionStream --------------------------
(***************************************************************************)
(* One call of executeStream(): packages/core/src/engine/docker.ts with    *)
(* runSetupScript() and streamExecOutput() of managers/execution-manager.  *)
(* The run is a row of steps, each one exec in the container: the setup    *)
(* scripts, if any, then the code.  A step has an event queue, filled by   *)
(* the callbacks of a Docker stream and of a timer, and emptied by an      *)
(* async generator whose reader takes one event at a time.                 *)
(*                                                                         *)
(* The generator runs to its next await or yield before any callback is    *)
(* called, so callbacks find it "waiting" (at its await) or "yielded"      *)
(* (the reader has not asked for the next event).                          *)
(***************************************************************************)
EXTENDS Naturals, Sequences, SequencesExt

CONSTANTS Setups,     \* how many setup scripts precede the code: 0, 1 or 2
          MaxChunks   \* bound: output chunks of one exec

ASSUME SetupsAssumption == Setups \in Nat /\ MaxChunks \in Nat

VARIABLES step,     \* the step under way
          pc,       \* where the generator is
          queue,    \* the events pushed and not taken
          done,     \* the `done` flag of the step
          timer,    \* its timer
          stream,   \* its Docker stream
          emitted,  \* the chunks its exec put out
          setupExitCode,
          out,      \* the events the reader was given, a history
          prompt    \* the reader always asks for the next event at once

vars == <<step, pc, queue, done, timer, stream, emitted, setupExitCode, out,
          prompt>>
exec == <<timer, stream, emitted>>

InSetup == step <= Setups
Killed == 137

Event(type, data) == [type |-> type, step |-> step, data |-> data]

Init == /\ step = 1
        /\ pc = "starting"
        /\ queue = <<>>
        /\ done = FALSE
        /\ timer = "armed"
        /\ stream = "open"
        /\ emitted = 0
        /\ setupExitCode = 0
        /\ out = <<>>
        /\ prompt \in BOOLEAN
-----------------------------------------------------------------------------
\* The files of the step are written and its exec is started.
Start == /\ pc = "starting"
         /\ pc' = "pumping"
         /\ UNCHANGED <<step, queue, done, exec, setupExitCode, out, prompt>>

\* Docker refuses one of these calls.
StartThrows == /\ pc = "starting"
               /\ pc' = "threw"
               /\ UNCHANGED <<step, queue, done, exec, setupExitCode, out, prompt>>

\* When a callback of the step may be called.
Turn == pc = "waiting" \/ (pc = "yielded" /\ ~prompt)

\* Mutant: the notification is forgotten.
PushUnnoticed(events) ==
    /\ queue' = queue \o events
    /\ UNCHANGED <<step, pc, setupExitCode, out, prompt>>

\* push(): queue the events and wake the generator of a setup script.  The one
\* of streamExecOutput() is never woken, it looks again after 10 ms.
Push(events) ==
    /\ queue' = queue \o events
    /\ pc' = IF pc = "waiting" /\ InSetup THEN "pumping" ELSE pc
    /\ UNCHANGED <<step, setupExitCode, out, prompt>>

\* The data callbacks; the stream goes on after the timer fired.
Chunk == /\ Turn
         /\ stream \in {"open", "ended"}
         /\ emitted < MaxChunks
         /\ emitted' = emitted + 1
         /\ Push(<<Event("output", emitted + 1)>>)
         /\ UNCHANGED <<done, timer, stream>>

\* timeoutMs passed.  The stream and the exec are left alone.
Fires == /\ Turn
         /\ timer = "armed"
         /\ timer' = "fired"
         /\ Push(<<Event("error", 0), Event("exit", Killed)>>)
         /\ done' = TRUE
         /\ UNCHANGED <<stream, emitted>>

\* The "end" callback stops the timer and asks Docker for the exit code.
Ends == /\ Turn
        /\ stream = "open"
        /\ stream' = "ended"
        /\ timer' = IF timer = "armed" THEN "cleared" ELSE timer
        /\ UNCHANGED <<step, pc, queue, done, emitted, setupExitCode, out, prompt>>

\* inspect() answers: an error event for a setup script that failed, then the
\* exit event.
Inspected(code) ==
    /\ Turn
    /\ stream = "ended"
    /\ stream' = "closed"
    /\ Push(IF InSetup /\ code # 0 THEN <<Event("error", 0), Event("exit", code)>>
                                   ELSE <<Event("exit", code)>>)
    /\ done' = TRUE
    /\ UNCHANGED <<timer, emitted>>

\* inspect() throws: an exit event without an error event.
InspectThrows ==
    /\ Turn
    /\ stream = "ended"
    /\ stream' = "closed"
    /\ Push(<<Event("exit", 1)>>)
    /\ done' = TRUE
    /\ UNCHANGED <<timer, emitted>>

\* The "error" callback of the stream.
Breaks == /\ Turn
          /\ stream = "open"
          /\ stream' = "closed"
          /\ timer' = IF timer = "armed" THEN "cleared" ELSE timer
          /\ Push(<<Event("error", 0), Event("exit", 1)>>)
          /\ done' = TRUE
          /\ UNCHANGED emitted
-----------------------------------------------------------------------------
\* Mutant: the youngest event first, pop() for shift().
YieldLast == /\ pc = "pumping"
             /\ queue # <<>>
             /\ out' = Append(out, Last(queue))
             /\ queue' = Front(queue)
             /\ pc' = "yielded"
             /\ UNCHANGED <<step, done, exec, setupExitCode, prompt>>

\* yield queue.shift()
Yield == /\ pc = "pumping"
         /\ queue # <<>>
         /\ out' = Append(out, Head(queue))
         /\ queue' = Tail(queue)
         /\ pc' = "yielded"
         /\ UNCHANGED <<step, done, exec, setupExitCode, prompt>>

\* The reader asks for the next event, or leaves: then the finally blocks give
\* the permit and the container back.
Resume == /\ pc = "yielded"
          /\ pc' = "pumping"
          /\ setupExitCode' = IF InSetup /\ Last(out).type = "exit"
                                THEN Last(out).data ELSE setupExitCode
          /\ UNCHANGED <<step, queue, done, exec, out, prompt>>

Leave == /\ pc = "yielded"
         /\ pc' = "left"
         /\ UNCHANGED <<step, queue, done, exec, setupExitCode, out, prompt>>

\* Nothing to take: wait to be woken, or for 10 ms.
Wait == /\ pc = "pumping"
        /\ queue = <<>> /\ ~done
        /\ pc' = "waiting"
        /\ UNCHANGED <<step, queue, done, exec, setupExitCode, out, prompt>>

Polls == /\ pc = "waiting" /\ ~InSetup
         /\ queue # <<>> \/ done
         /\ pc' = "pumping"
         /\ UNCHANGED <<step, queue, done, exec, setupExitCode, out, prompt>>

\* Mutant: `queue.length > 0` is dropped from the loop condition.
StepEndsEarly ==
    /\ pc = "pumping"
    /\ done
    /\ pc' = "returned"
    /\ UNCHANGED <<step, queue, done, exec, setupExitCode, out, prompt>>

\* Mutant: the exit code of a setup script is not looked at.
StepEndsAnyway ==
    /\ pc = "pumping"
    /\ queue = <<>> /\ done
    /\ \/ /\ ~InSetup
          /\ pc' = "returned"
          /\ UNCHANGED <<step, queue, done, exec, setupExitCode>>
       \/ /\ InSetup
          /\ pc' = "starting"
          /\ step' = step + 1
          /\ done' = FALSE
          /\ timer' = "armed" /\ stream' = "open" /\ emitted' = 0
          /\ UNCHANGED <<queue, setupExitCode>>
    /\ UNCHANGED <<out, prompt>>

\* The loop of the step ends: the run is over after the code or after a setup
\* script that failed, else the next step begins with variables of its own.
\* What the old callbacks still push, nobody reads.
StepEnds ==
    /\ pc = "pumping"
    /\ queue = <<>> /\ done
    /\ \/ /\ ~InSetup \/ setupExitCode # 0
          /\ pc' = "returned"
          /\ UNCHANGED <<step, queue, done, exec, setupExitCode>>
       \/ /\ InSetup /\ setupExitCode = 0
          /\ pc' = "starting"
          /\ step' = step + 1
          /\ done' = FALSE
          /\ timer' = "armed" /\ stream' = "open" /\ emitted' = 0
          /\ UNCHANGED <<queue, setupExitCode>>
    /\ UNCHANGED <<out, prompt>>

Over == pc \in {"returned", "left", "threw"}

\* The generator is over; nothing of the run is left to be seen.
Finished == Over /\ UNCHANGED vars

Next == \/ Start \/ StartThrows
        \/ Chunk
        \/ Fires
        \/ Ends
        \/ \E code \in {0, 1} : Inspected(code)
        \/ InspectThrows
        \/ Breaks
        \/ Yield \/ Resume \/ Leave \/ Wait \/ Polls
        \/ StepEnds
        \/ Finished

Spec == Init /\ [][Next]_vars

\* The event loop goes on, timers fire, Docker answers inspect(), the reader
\* keeps reading.  The stream need not ever put out or end anything.
Fairness ==
    /\ WF_vars(Start \/ StartThrows)
    /\ WF_vars(Fires)
    /\ WF_vars(InspectThrows \/ \E code \in {0, 1} : Inspected(code))
    /\ WF_vars(Yield \/ Wait \/ StepEnds)
    /\ WF_vars(Resume)
    /\ WF_vars(Polls)

FairSpec == Spec /\ Fairness
-----------------------------------------------------------------------------
Events == [type : {"output", "error", "exit"}, step : Nat, data : Nat]

\* The types of the variables.
TypeOK ==
    /\ step \in 1..Setups + 1
    /\ pc \in {"starting", "pumping", "waiting", "yielded", "returned", "left", "threw"}
    /\ queue \in Seq(Events)
    /\ done \in BOOLEAN
    /\ timer \in {"armed", "cleared", "fired"}
    /\ stream \in {"open", "ended", "closed"}
    /\ emitted \in 0..MaxChunks
    /\ setupExitCode \in Nat
    /\ out \in Seq(Events)
    /\ prompt \in BOOLEAN

FailedSetup(e) == e.type = "exit" /\ e.step <= Setups /\ e.data # 0

\* After the exit event of a setup script that failed or timed out nothing
\* else is given to the reader, and the code never runs.
SetupFailureStops ==
    \A n \in DOMAIN out : FailedSetup(out[n]) => n = Len(out) /\ pc # "starting"

\* So it is for a reader that always asks for the next event at once.
PromptReaderIsSafe == prompt => SetupFailureStops

\* The exit event of step n that was given last.
Exit(e, n) == e.type = "exit" /\ e.step = n
LastExit(m, n) == /\ m \in DOMAIN out /\ Exit(out[m], n)
                  /\ \A k \in DOMAIN out : k > m => ~Exit(out[k], n)

\* Whatever the reader's pace, the last exit event of a setup script decides:
\* the next step begins after a zero and the run ends after anything else.
LastVerdictDecides ==
    /\ \A n \in 1..step - 1 : \E m \in DOMAIN out : LastExit(m, n) /\ out[m].data = 0
    /\ pc = "returned" /\ InSetup
          => \E m \in DOMAIN out : LastExit(m, step) /\ out[m].data # 0

\* The events pushed so far, given to the reader or still queued, and where the
\* chunks of the step under way are among them.
Pushed == out \o queue
Chunks == {n \in DOMAIN Pushed : Pushed[n].type = "output" /\ Pushed[n].step = step}

\* No chunk is lost, duplicated or reordered between the data callbacks and the
\* reader: those it was given and those still queued are those put out.
NothingDropped ==
    /\ {Pushed[n].data : n \in Chunks} = 1..emitted
    /\ \A m, n \in Chunks : m < n => Pushed[m].data < Pushed[n].data

\* A step is left only when the reader has all its chunks and its exit event.
LeftComplete ==
    [][pc = "pumping" /\ (step' # step \/ pc' = "returned") =>
          /\ \A k \in 1..emitted : \E n \in DOMAIN out : out[n] = Event("output", k)
          /\ \E n \in DOMAIN out : Exit(out[n], step)]_vars

\* The generator always ends, though the stream may hang.
EveryStreamEnds == <>Over
=============================================================================
