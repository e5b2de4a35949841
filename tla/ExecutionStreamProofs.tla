----------------------- MODULE ExecutionStreamProofs -----------------------
(***************************************************************************)
(* A streamed execution, for any number of setup scripts and of chunks and *)
(* a reader of any pace.  The argument is about the events pushed so far:  *)
(* a callback adds some at the end, and giving one to the reader moves     *)
(* none.                                                                   *)
(***************************************************************************)
EXTENDS ExecutionStream, SequenceTheorems, TLAPS

\* What is queued is of the step under way, and nothing is of a later one.
Tagged ==
    \A n \in DOMAIN Pushed : /\ Pushed[n].step <= step
                             /\ n > Len(out) => Pushed[n].step = step

\* A step is done when its exit event was pushed.
ExitPushed == done => \E n \in DOMAIN Pushed : Exit(Pushed[n], step)

\* setupExitCode is that of the last exit event of the script given so far.
Recorded ==
    \/ setupExitCode = 0 /\ \A m \in DOMAIN out : ~Exit(out[m], step)
    \/ \E m \in DOMAIN out : LastExit(m, step) /\ setupExitCode = out[m].data

\* It is, but for the event that the reader was given a moment ago.
Verdict ==
    /\ pc = "yielded" => out # <<>> /\ out[Len(out)].step = step
    /\ InSetup /\ pc # "left" /\ ~(pc = "yielded" /\ out[Len(out)].type = "exit") => Recorded

\* The inductive invariant, for readers of any pace.
StreamInv == /\ TypeOK /\ Tagged /\ NothingDropped /\ ExitPushed
             /\ Verdict /\ LastVerdictDecides

\* A prompt reader has all events of a setup script before anything else can be
\* pushed: its exit event is the last one, and failed scripts are not followed.
Prompt ==
    prompt => /\ InSetup => \A n \in DOMAIN Pushed :
                               Exit(Pushed[n], step) => done /\ n = Len(Pushed)
              /\ InSetup /\ done => pc \notin {"starting", "waiting"}
              /\ \A n \in DOMAIN out : FailedSetup(out[n]) => out[n].step = step
-----------------------------------------------------------------------------
\* What was pushed, by what was given and what is queued.
LEMMA PushedFacts ==
    ASSUME TypeOK
    PROVE  /\ Pushed \in Seq(Events) /\ Len(Pushed) = Len(out) + Len(queue)
           /\ Len(out) \in Nat /\ Len(queue) \in Nat
           /\ DOMAIN Pushed = 1..Len(out) + Len(queue) /\ DOMAIN out = 1..Len(out)
           /\ \A n \in 1..Len(out) : Pushed[n] = out[n]
           /\ \A n \in 1..Len(queue) : Pushed[Len(out) + n] = queue[n]
           /\ \A n \in DOMAIN Pushed : Pushed[n] \in Events
<1>1. out \in Seq(Events) /\ queue \in Seq(Events)
  BY DEF TypeOK
<1>2. /\ Len(out) \in Nat /\ Len(queue) \in Nat /\ DOMAIN out = 1..Len(out)
      /\ Pushed \in Seq(Events) /\ Len(Pushed) = Len(out) + Len(queue)
      /\ \A n \in 1..Len(out) + Len(queue) :
            Pushed[n] = IF n <= Len(out) THEN out[n] ELSE queue[n - Len(out)]
  BY <1>1, ConcatProperties, LenProperties DEF Pushed
<1>3. DOMAIN Pushed = 1..Len(out) + Len(queue)
  BY <1>2, LenProperties
<1>4. ASSUME NEW n \in 1..Len(queue) PROVE Pushed[Len(out) + n] = queue[n]
  <2>1. Len(out) + n \in 1..Len(out) + Len(queue) /\ ~(Len(out) + n <= Len(out))
        /\ Len(out) + n - Len(out) = n
    BY <1>2
  <2> QED
    BY <1>2, <2>1
<1>5. \A n \in 1..Len(out) : n \in 1..Len(out) + Len(queue) /\ n <= Len(out)
  BY <1>2
<1>6. \A n \in 1..Len(Pushed) : Pushed[n] \in Events
  BY <1>2, ElementOfSeq
<1> QED
  BY <1>2, <1>3, <1>4, <1>5, <1>6

\* A push adds events behind the others.
LEMMA PushGrows ==
    ASSUME TypeOK, NEW events \in Seq(Events), queue' = queue \o events, out' = out
    PROVE  /\ Pushed' \in Seq(Events) /\ Len(Pushed') = Len(Pushed) + Len(events)
           /\ queue' \in Seq(Events)
           /\ Len(Pushed) \in Nat /\ Len(events) \in Nat /\ DOMAIN events = 1..Len(events)
           /\ DOMAIN Pushed = 1..Len(Pushed) /\ DOMAIN Pushed' = 1..Len(Pushed) + Len(events)
           /\ \A n \in 1..Len(Pushed) : Pushed'[n] = Pushed[n]
           /\ \A n \in 1..Len(events) : Pushed'[Len(Pushed) + n] = events[n]
<1>1. out \in Seq(Events) /\ queue \in Seq(Events) /\ Pushed \in Seq(Events)
  BY PushedFacts DEF TypeOK
<1>2. Pushed' = Pushed \o events
  BY <1>1, ConcatAssociative DEF Pushed
<1>3. /\ Pushed' \in Seq(Events) /\ Len(Pushed') = Len(Pushed) + Len(events)
      /\ \A n \in 1..Len(Pushed) + Len(events) :
            Pushed'[n] = IF n <= Len(Pushed) THEN Pushed[n] ELSE events[n - Len(Pushed)]
  BY <1>1, <1>2, ConcatProperties
<1>4. /\ Len(Pushed) \in Nat /\ Len(events) \in Nat /\ DOMAIN events = 1..Len(events)
      /\ DOMAIN Pushed = 1..Len(Pushed) /\ DOMAIN Pushed' = 1..Len(Pushed')
  BY <1>1, <1>3, LenProperties
<1>5. ASSUME NEW n \in 1..Len(events) PROVE Pushed'[Len(Pushed) + n] = events[n]
  <2>1. Len(Pushed) + n \in 1..Len(Pushed) + Len(events) /\ ~(Len(Pushed) + n <= Len(Pushed))
        /\ Len(Pushed) + n - Len(Pushed) = n
    BY <1>4
  <2> QED
    BY <1>3, <2>1
<1>6. \A n \in 1..Len(Pushed) : n \in 1..Len(Pushed) + Len(events) /\ n <= Len(Pushed)
  BY <1>4
<1>7. queue' \in Seq(Events)
  BY <1>1, ConcatProperties
<1> QED
  BY <1>1, <1>3, <1>4, <1>5, <1>6, <1>7

\* Giving the oldest event to the reader changes nothing of what was pushed.
LEMMA YieldKeeps ==
    ASSUME TypeOK, queue # <<>>, out' = Append(out, Head(queue)), queue' = Tail(queue)
    PROVE  /\ Pushed' = Pushed /\ out' \in Seq(Events) /\ queue' \in Seq(Events)
           /\ Len(out) \in Nat /\ Len(out') = Len(out) + 1 /\ DOMAIN out = 1..Len(out)
           /\ DOMAIN out' = 1..Len(out) + 1
           /\ \A n \in 1..Len(out) : out'[n] = out[n]
           /\ Len(out) + 1 \in DOMAIN Pushed /\ out'[Len(out) + 1] = Pushed[Len(out) + 1]
<1>1. out \in Seq(Events) /\ queue \in Seq(Events)
  BY DEF TypeOK
<1>2. /\ Head(queue) \in Events /\ Head(queue) = queue[1]
      /\ Tail(queue) \in Seq(Events) /\ Len(Tail(queue)) = Len(queue) - 1
      /\ Len(queue) \in Nat \ {0}
      /\ \A i \in 1..Len(queue) - 1 : Tail(queue)[i] = queue[i + 1]
  BY <1>1, HeadTailProperties, EmptySeq
<1>3. /\ out' \in Seq(Events) /\ Len(out') = Len(out) + 1 /\ Len(out) \in Nat
      /\ DOMAIN out = 1..Len(out) /\ DOMAIN out' = 1..Len(out')
      /\ \A n \in 1..Len(out) : out'[n] = out[n]
      /\ out'[Len(out) + 1] = Head(queue)
  BY <1>1, <1>2, AppendProperties, LenProperties
<1>4. /\ Pushed' \in Seq(Events) /\ Len(Pushed') = Len(out) + 1 + (Len(queue) - 1)
      /\ \A n \in 1..Len(out) + 1 + (Len(queue) - 1) :
            Pushed'[n] = IF n <= Len(out) + 1 THEN out'[n] ELSE queue'[n - (Len(out) + 1)]
  BY <1>2, <1>3, ConcatProperties DEF Pushed
<1>5. /\ Pushed \in Seq(Events) /\ Len(Pushed) = Len(out) + Len(queue)
      /\ \A n \in 1..Len(out) + Len(queue) :
            Pushed[n] = IF n <= Len(out) THEN out[n] ELSE queue[n - Len(out)]
  BY <1>1, ConcatProperties DEF Pushed
<1>6. ASSUME NEW n \in 1..Len(out) + Len(queue) PROVE Pushed'[n] = Pushed[n]
  <2>1. CASE n <= Len(out)
    <3>1. n \in 1..Len(out) /\ n <= Len(out) + 1 /\ n \in 1..Len(out) + 1 + (Len(queue) - 1)
      BY <1>2, <1>3, <2>1
    <3> QED
      BY <1>3, <1>4, <1>5, <2>1, <3>1
  <2>2. CASE n = Len(out) + 1
    <3>1. ~(n <= Len(out)) /\ n - Len(out) = 1 /\ n \in 1..Len(out) + 1 + (Len(queue) - 1)
          /\ n <= Len(out) + 1
      BY <1>2, <1>3, <2>2
    <3> QED
      BY <1>2, <1>3, <1>4, <1>5, <2>2, <3>1
  <2>3. CASE n > Len(out) + 1
    <3>1. ~(n <= Len(out)) /\ ~(n <= Len(out) + 1) /\ n \in 1..Len(out) + 1 + (Len(queue) - 1)
          /\ n - (Len(out) + 1) \in 1..Len(queue) - 1
          /\ n - (Len(out) + 1) + 1 = n - Len(out)
      BY <1>2, <1>3, <2>3
    <3>2. queue'[n - (Len(out) + 1)] = queue[n - Len(out)]
      BY <1>2, <3>1
    <3> QED
      BY <1>4, <1>5, <3>1, <3>2
  <2> QED
    BY <1>3, <2>1, <2>2, <2>3
<1>7. Len(Pushed') = Len(Pushed)
  BY <1>2, <1>3, <1>4, <1>5
<1>8. Pushed' = Pushed
  BY <1>4, <1>5, <1>6, <1>7, SeqEqual
<1>9. Len(out) + 1 \in 1..Len(out) + Len(queue) /\ ~(Len(out) + 1 <= Len(out))
      /\ Len(out) + 1 - Len(out) = 1
  BY <1>2, <1>3
<1>10. DOMAIN Pushed = 1..Len(out) + Len(queue)
  BY <1>5, LenProperties
<1> QED
  BY <1>1, <1>2, <1>3, <1>5, <1>8, <1>9, <1>10
-----------------------------------------------------------------------------
\* The events with which a step gets its exit code: the last one is its exit.
Ending(events) ==
    /\ events \in Seq(Events) /\ Len(events) > 0
    /\ \A n \in 1..Len(events) : /\ events[n].step = step /\ events[n].type # "output"
                                 /\ events[n].type = "exit" <=> n = Len(events)

\* What a callback does when it pushes events.
Pushing(events) == /\ queue' = queue \o events /\ Turn
                   /\ pc' = IF pc = "waiting" /\ InSetup THEN "pumping" ELSE pc
                   /\ UNCHANGED <<step, setupExitCode, out, prompt>>

\* The four kinds of steps: a chunk, an exit event, an event that is given to the
\* reader, and those that move no event.
Chunked == /\ Pushing(<<Event("output", emitted + 1)>>)
           /\ emitted < MaxChunks /\ emitted' = emitted + 1 /\ done' = done
Ended == /\ \E events \in Seq(Events) : Ending(events) /\ Pushing(events)
         /\ emitted' = emitted /\ done'
Still == UNCHANGED <<step, queue, done, emitted, out, prompt>>

LEMMA EventIsTyped ==
    ASSUME TypeOK, NEW type \in {"output", "error", "exit"}, NEW data \in Nat
    PROVE  Event(type, data) \in Events
BY SetupsAssumption DEF Event, Events, TypeOK

\* An exit event is an ending, and so it is behind an error event.
LEMMA Endings ==
    ASSUME TypeOK, NEW code \in Nat
    PROVE  /\ Ending(<<Event("exit", code)>>)
           /\ Ending(<<Event("error", 0), Event("exit", code)>>)
<1>1. Event("exit", code) \in Events /\ Event("error", 0) \in Events
  BY EventIsTyped
<1>2. /\ <<Event("exit", code)>> \in Seq(Events) /\ Len(<<Event("exit", code)>>) = 1
      /\ <<Event("exit", code)>>[1] = Event("exit", code)
  BY <1>1
<1>3. /\ <<Event("error", 0), Event("exit", code)>> \in Seq(Events)
      /\ Len(<<Event("error", 0), Event("exit", code)>>) = 2
      /\ <<Event("error", 0), Event("exit", code)>>[1] = Event("error", 0)
      /\ <<Event("error", 0), Event("exit", code)>>[2] = Event("exit", code)
  BY <1>1
<1>4. /\ Event("exit", code).step = step /\ Event("exit", code).type = "exit"
      /\ Event("error", 0).step = step /\ Event("error", 0).type = "error"
  BY DEF Event
<1>5. Ending(<<Event("exit", code)>>)
  BY <1>2, <1>4 DEF Ending
<1>6. 1..2 = {1, 2}
  OBVIOUS
<1>7. Ending(<<Event("error", 0), Event("exit", code)>>)
  BY <1>3, <1>4, <1>6 DEF Ending
<1> QED
  BY <1>5, <1>7

LEMMA Kinds ==
    ASSUME TypeOK, [Next]_vars
    PROVE  Chunked \/ Ended \/ Yield \/ StepEnds \/ Still
<1>1. ASSUME Chunk PROVE Chunked
  BY <1>1 DEF Chunk, Chunked, Push, Pushing
<1>2. ASSUME NEW events \in Seq(Events), Ending(events), Push(events), Turn, done' = TRUE,
             emitted' = emitted
      PROVE  Ended
  BY <1>2 DEF Ended, Push, Pushing
<1>3. ASSUME Fires PROVE Ended
  <2>1. Killed \in Nat
    BY DEF Killed
  <2>2. Ending(<<Event("error", 0), Event("exit", Killed)>>)
    BY <2>1, Endings
  <2> QED
    BY <1>2, <1>3, <2>2 DEF Fires, Ending
<1>4. ASSUME NEW code \in {0, 1}, Inspected(code) PROVE Ended
  <2>1. /\ Ending(<<Event("exit", code)>>)
        /\ Ending(<<Event("error", 0), Event("exit", code)>>)
    BY Endings
  <2>2. PICK events : Ending(events) /\ Push(events)
    BY <1>4, <2>1 DEF Inspected
  <2> QED
    BY <1>2, <1>4, <2>2 DEF Inspected, Ending
<1>5. ASSUME InspectThrows \/ Breaks PROVE Ended
  <2>1. /\ Ending(<<Event("exit", 1)>>)
        /\ Ending(<<Event("error", 0), Event("exit", 1)>>)
    BY Endings
  <2>2. PICK events : Ending(events) /\ Push(events)
    BY <1>5, <2>1 DEF InspectThrows, Breaks
  <2> QED
    BY <1>2, <1>5, <2>2 DEF InspectThrows, Breaks, Ending
<1>6. ASSUME \/ Start \/ StartThrows \/ Ends \/ Resume \/ Leave \/ Wait \/ Polls
             \/ Finished \/ UNCHANGED vars
      PROVE  Still
  BY <1>6 DEF Start, StartThrows, Ends, Resume, Leave, Wait, Polls, Finished, vars, exec, Still
<1> QED
  BY <1>1, <1>3, <1>4, <1>5, <1>6 DEF Next
-----------------------------------------------------------------------------
\* The types of the variables hold initially and stay.
LEMMA StepType == ASSUME TypeOK, Verdict, [Next]_vars PROVE TypeOK'
<1>1. queue' \in Seq(Events) /\ out' \in Seq(Events) /\ prompt' \in BOOLEAN
      /\ done' \in BOOLEAN /\ emitted' \in 0..MaxChunks /\ step' \in 1..Setups + 1
  <2>1. CASE Chunked
    <3>1. <<Event("output", emitted + 1)>> \in Seq(Events)
      BY EventIsTyped, SetupsAssumption DEF TypeOK
    <3> QED
      BY <2>1, <3>1, PushGrows, SetupsAssumption DEF Chunked, Pushing, TypeOK
  <2>2. CASE Ended
    BY <2>2, PushGrows DEF Ended, Pushing, TypeOK
  <2>3. CASE Yield
    BY <2>3, YieldKeeps DEF Yield, exec, TypeOK
  <2>4. CASE StepEnds
    <3>1. UNCHANGED <<queue, out, prompt>>
          /\ \/ UNCHANGED <<step, done, emitted>>
             \/ step <= Setups /\ step' = step + 1 /\ done' = FALSE /\ emitted' = 0
      BY <2>4 DEF StepEnds, exec, InSetup
    <3>2. CASE UNCHANGED <<step, done, emitted>>
      BY <3>1, <3>2 DEF TypeOK
    <3>3. CASE step <= Setups /\ step' = step + 1 /\ done' = FALSE /\ emitted' = 0
      <4>1. step + 1 \in 1..Setups + 1 /\ 0 \in 0..MaxChunks
        BY <3>3, SetupsAssumption DEF TypeOK
      <4> QED
        BY <3>1, <3>3, <4>1 DEF TypeOK
    <3> QED
      BY <3>1, <3>2, <3>3
  <2>5. CASE Still
    BY <2>5 DEF Still, TypeOK
  <2> QED
    BY <2>1, <2>2, <2>3, <2>4, <2>5, Kinds
<1>2. /\ timer' \in {"armed", "cleared", "fired"} /\ stream' \in {"open", "ended", "closed"}
      /\ pc' \in {"starting", "pumping", "waiting", "yielded", "returned", "left", "threw"}
  BY DEF Next, TypeOK, Start, StartThrows, Chunk, Fires, Ends, Inspected, InspectThrows, Breaks,
         Push, Yield, Resume, Leave, Wait, Polls, StepEnds, Finished, vars, exec
<1>3. setupExitCode' \in Nat
  <2>1. CASE Resume
    <3>1. out[Len(out)] \in Events
      BY <2>1, ElementOfSeq, EmptySeq DEF Resume, Verdict, TypeOK
    <3>2. Last(out).data \in Nat
      BY <3>1 DEF Last, Events
    <3> QED
      BY <2>1, <3>2 DEF Resume, TypeOK
  <2>2. CASE ~Resume
    BY <2>2 DEF Next, TypeOK, Start, StartThrows, Chunk, Fires, Ends, Inspected, InspectThrows,
         Breaks, Push, Yield, Leave, Wait, Polls, StepEnds, Finished, vars, exec
  <2> QED
    BY <2>1, <2>2
<1> QED
  BY <1>1, <1>2, <1>3 DEF TypeOK
-----------------------------------------------------------------------------
\* A push, by what it changes of what was pushed.
LEMMA PushFacts ==
    ASSUME TypeOK, NEW events \in Seq(Events), Pushing(events)
    PROVE  /\ Len(Pushed) \in Nat /\ Len(events) \in Nat
           /\ DOMAIN Pushed = 1..Len(Pushed) /\ DOMAIN Pushed' = 1..Len(Pushed) + Len(events)
           /\ Len(Pushed') = Len(Pushed) + Len(events)
           /\ \A n \in 1..Len(Pushed) : Pushed'[n] = Pushed[n]
           /\ \A n \in 1..Len(events) : Pushed'[Len(Pushed) + n] = events[n]
           /\ \A n \in DOMAIN Pushed' :
                 n \in DOMAIN Pushed \/ \E k \in 1..Len(events) : n = Len(Pushed) + k
           /\ UNCHANGED <<step, out, setupExitCode, prompt>>
<1>1. /\ Len(Pushed) \in Nat /\ Len(events) \in Nat
      /\ DOMAIN Pushed = 1..Len(Pushed) /\ DOMAIN Pushed' = 1..Len(Pushed) + Len(events)
      /\ Len(Pushed') = Len(Pushed) + Len(events)
      /\ \A n \in 1..Len(Pushed) : Pushed'[n] = Pushed[n]
      /\ \A n \in 1..Len(events) : Pushed'[Len(Pushed) + n] = events[n]
  BY PushGrows DEF Pushing
<1>2. ASSUME NEW n \in DOMAIN Pushed', n \notin DOMAIN Pushed
      PROVE  \E k \in 1..Len(events) : n = Len(Pushed) + k
  <2>1. n - Len(Pushed) \in 1..Len(events) /\ n = Len(Pushed) + (n - Len(Pushed))
    BY <1>1, <1>2
  <2> QED
    BY <2>1
<1> QED
  BY <1>1, <1>2 DEF Pushing

\* The chunk that is pushed is an event of its own.
LEMMA ChunkEvent ==
    ASSUME TypeOK
    PROVE  LET events == <<Event("output", emitted + 1)>>
           IN  /\ events \in Seq(Events) /\ Len(events) = 1
               /\ events[1].step = step /\ events[1].type = "output"
               /\ events[1].data = emitted + 1
<1>1. Event("output", emitted + 1) \in Events
  BY EventIsTyped, SetupsAssumption DEF TypeOK
<1> QED
  BY <1>1 DEF Event

\* When a step ends, all that was pushed was given to the reader.
LEMMA EndFacts ==
    ASSUME TypeOK, StepEnds
    PROVE  /\ Pushed = out /\ Pushed' = Pushed /\ UNCHANGED <<out, queue, prompt>>
           /\ \/ UNCHANGED <<step, done, emitted>>
              \/ /\ InSetup /\ setupExitCode = 0 /\ setupExitCode' = 0 /\ pc' = "starting"
                 /\ step' = step + 1 /\ done' = FALSE /\ emitted' = 0
           /\ pc = "pumping" /\ done
<1>1. Pushed = out
  BY ConcatEmptySeq DEF StepEnds, Pushed, TypeOK
<1>2. Pushed' = Pushed
  BY DEF StepEnds, Pushed
<1> QED
  BY <1>1, <1>2 DEF StepEnds, exec

LEMMA StepTagged == ASSUME TypeOK, Tagged, [Next]_vars PROVE Tagged'
<1>0. step \in Nat /\ \A n \in DOMAIN Pushed : Pushed[n].step \in Nat
  BY PushedFacts, SetupsAssumption DEF TypeOK, Events
<1>1. ASSUME NEW events \in Seq(Events), Pushing(events),
             \A k \in 1..Len(events) : events[k].step = step
      PROVE  Tagged'
  <2> SUFFICES ASSUME NEW n \in DOMAIN Pushed'
               PROVE  Pushed'[n].step <= step' /\ (n > Len(out') => Pushed'[n].step = step')
    BY DEF Tagged
  <2>1. step' = step /\ out' = out
    BY <1>1 DEF Pushing
  <2>2. CASE n \in DOMAIN Pushed
    BY <1>1, <2>1, <2>2, PushFacts DEF Tagged
  <2>3. CASE n \notin DOMAIN Pushed
    <3>1. PICK k \in 1..Len(events) : n = Len(Pushed) + k
      BY <1>1, <2>3, PushFacts
    <3>2. Pushed'[n].step = step
      BY <1>1, <3>1, PushFacts
    <3> QED
      BY <1>0, <2>1, <3>2
  <2> QED
    BY <2>2, <2>3
<1>2. CASE Chunked
  <2> DEFINE events == <<Event("output", emitted + 1)>>
  <2>1. events \in Seq(Events) /\ \A k \in 1..Len(events) : events[k].step = step
    BY ChunkEvent
  <2> HIDE DEF events
  <2>2. Pushing(events)
    BY <1>2 DEF Chunked, events
  <2> QED
    BY <1>1, <2>1, <2>2
<1>3. CASE Ended
  BY <1>1, <1>3 DEF Ended, Ending
<1>4. CASE Yield
  <2>1. Pushed' = Pushed /\ Len(out') = Len(out) + 1 /\ step' = step /\ Len(out) \in Nat
    BY <1>4, YieldKeeps DEF Yield
  <2>2. ASSUME NEW n \in DOMAIN Pushed, n > Len(out) + 1 PROVE n > Len(out)
    BY <2>1, <2>2, PushedFacts
  <2> QED
    BY <2>1, <2>2 DEF Tagged
<1>5. CASE StepEnds
  <2>1. \A n \in DOMAIN Pushed : ~(n > Len(out))
    BY <1>5, EndFacts, PushedFacts
  <2>2. UNCHANGED out /\ Pushed' = Pushed /\ step' \in {step, step + 1}
    BY <1>5, EndFacts
  <2>3. \A n \in DOMAIN Pushed : Pushed[n].step <= step'
    BY <1>0, <2>2 DEF Tagged
  <2> QED
    BY <2>1, <2>2, <2>3 DEF Tagged
<1>6. CASE Still
  BY <1>6 DEF Still, Tagged, Pushed
<1> QED
  BY <1>2, <1>3, <1>4, <1>5, <1>6, Kinds

LEMMA StepDropsNothing ==
    ASSUME TypeOK, Tagged, NothingDropped, [Next]_vars
    PROVE  NothingDropped'
<1>0. emitted \in Nat /\ step \in Nat
  BY SetupsAssumption DEF TypeOK
<1>1. CASE Chunked
  <2> DEFINE events == <<Event("output", emitted + 1)>>
             new == Len(Pushed) + 1
  <2>1. /\ events \in Seq(Events) /\ Len(events) = 1
        /\ events[1].step = step /\ events[1].type = "output" /\ events[1].data = emitted + 1
    BY ChunkEvent
  <2>2. Pushing(events) /\ emitted' = emitted + 1
    BY <1>1 DEF Chunked
  <2> HIDE DEF events
  <2>3. 1 \in 1..Len(events)
    BY <2>1
  <2>4. /\ Len(Pushed) \in Nat
        /\ DOMAIN Pushed = 1..Len(Pushed) /\ DOMAIN Pushed' = 1..Len(Pushed) + 1
        /\ \A n \in 1..Len(Pushed) : Pushed'[n] = Pushed[n]
        /\ Pushed'[new] = events[1] /\ step' = step
    BY <2>1, <2>2, <2>3, PushFacts
  <2>5. /\ new \in DOMAIN Pushed' /\ new \notin DOMAIN Pushed
        /\ \A n \in DOMAIN Pushed' : n \in DOMAIN Pushed \/ n = new
        /\ \A n \in DOMAIN Pushed : n < new /\ ~(new < n) /\ n \in DOMAIN Pushed'
    BY <2>4
  <2> HIDE DEF new
  <2>6. Chunks' = Chunks \union {new}
    BY <2>1, <2>4, <2>5 DEF Chunks
  <2>7. Pushed'[new].data = emitted + 1 /\ \A n \in Chunks : Pushed'[n].data = Pushed[n].data
    BY <2>1, <2>4 DEF Chunks
  <2>8. \A n \in Chunks : Pushed[n].data \in 1..emitted
    BY DEF NothingDropped
  <2>9. {Pushed'[n].data : n \in Chunks'} = {Pushed[n].data : n \in Chunks} \union {emitted + 1}
    BY <2>6, <2>7
  <2>10. 1..emitted + 1 = (1..emitted) \union {emitted + 1}
    BY <1>0
  <2>11. {Pushed'[n].data : n \in Chunks'} = 1..emitted'
    BY <2>2, <2>9, <2>10 DEF NothingDropped
  <2>12. ASSUME NEW m \in Chunks', NEW n \in Chunks', m < n PROVE Pushed'[m].data < Pushed'[n].data
    <3>1. CASE n = new
      <4>1. m \in Chunks
        BY <2>5, <2>6, <2>12, <3>1, <1>0, <2>4
      <4> QED
        BY <1>0, <2>7, <2>8, <3>1, <4>1
    <3>2. CASE n # new
      <4>1. n \in Chunks /\ n \in DOMAIN Pushed /\ m \in Chunks
        BY <2>5, <2>6, <2>12, <3>2 DEF Chunks
      <4> QED
        BY <2>7, <2>12, <4>1 DEF NothingDropped
    <3> QED
      BY <3>1, <3>2
  <2> QED
    BY <2>11, <2>12 DEF NothingDropped
<1>2. CASE Ended
  <2>1. PICK events \in Seq(Events) : Ending(events) /\ Pushing(events) /\ emitted' = emitted
    BY <1>2 DEF Ended
  <2>2. /\ DOMAIN Pushed = 1..Len(Pushed) /\ Len(Pushed) \in Nat /\ Len(events) \in Nat
        /\ DOMAIN Pushed' = 1..Len(Pushed) + Len(events)
        /\ \A n \in 1..Len(Pushed) : Pushed'[n] = Pushed[n]
        /\ step' = step
    BY <2>1, PushFacts
  <2>3. ASSUME NEW n \in DOMAIN Pushed', n \notin DOMAIN Pushed PROVE Pushed'[n].type # "output"
    <3>1. PICK k \in 1..Len(events) : n = Len(Pushed) + k
      BY <2>1, <2>3, PushFacts
    <3> QED
      BY <2>1, <3>1, PushFacts DEF Ending
  <2>4. DOMAIN Pushed \subseteq DOMAIN Pushed'
    BY <2>2
  <2>5. Chunks' = Chunks
    BY <2>2, <2>3, <2>4 DEF Chunks
  <2>6. \A n \in Chunks : Pushed'[n] = Pushed[n]
    BY <2>2 DEF Chunks
  <2>7. {Pushed'[n].data : n \in Chunks'} = {Pushed[n].data : n \in Chunks}
    BY <2>5, <2>6
  <2>8. \A m, n \in Chunks' : m < n => Pushed'[m].data < Pushed'[n].data
    BY <2>5, <2>6 DEF NothingDropped
  <2> QED
    BY <2>1, <2>7, <2>8 DEF NothingDropped
<1>3. CASE Yield
  <2>1. Pushed' = Pushed /\ UNCHANGED <<step, emitted>>
    BY <1>3, YieldKeeps DEF Yield, exec
  <2> QED
    BY <2>1 DEF NothingDropped, Chunks
<1>4. CASE StepEnds
  <2>1. CASE UNCHANGED <<step, emitted>>
    BY <1>4, <2>1, EndFacts DEF NothingDropped, Chunks
  <2>2. CASE step' = step + 1 /\ emitted' = 0
    <3>1. \A n \in DOMAIN Pushed : Pushed[n].step \in Nat /\ Pushed[n].step <= step
      BY PushedFacts DEF Tagged, Events
    <3>2. Chunks' = {}
      BY <1>0, <1>4, <2>2, <3>1, EndFacts DEF Chunks
    <3>3. 1..emitted' = {}
      BY <2>2
    <3>4. {Pushed'[n].data : n \in Chunks'} = {}
      BY <3>2
    <3> QED
      BY <3>2, <3>3, <3>4 DEF NothingDropped
  <2> QED
    BY <1>4, <2>1, <2>2, EndFacts
<1>5. CASE Still
  BY <1>5 DEF Still, NothingDropped, Chunks, Pushed
<1> QED
  BY <1>1, <1>2, <1>3, <1>4, <1>5, Kinds

LEMMA StepExitPushed == ASSUME TypeOK, ExitPushed, [Next]_vars PROVE ExitPushed'
<1>1. CASE Chunked
  <2>1. PICK events \in Seq(Events) : Pushing(events)
    BY <1>1, ChunkEvent DEF Chunked
  <2>2. done' = done
    BY <1>1 DEF Chunked
  <2>3. /\ DOMAIN Pushed \subseteq DOMAIN Pushed' /\ step' = step
        /\ \A n \in DOMAIN Pushed : Pushed'[n] = Pushed[n]
    BY <2>1, PushFacts
  <2> QED
    BY <2>2, <2>3 DEF ExitPushed, Exit
<1>2. CASE Ended
  <2>1. PICK events \in Seq(Events) : Ending(events) /\ Pushing(events)
    BY <1>2 DEF Ended
  <2>2. Len(events) \in 1..Len(events) /\ events[Len(events)].type = "exit"
        /\ events[Len(events)].step = step
    BY <2>1, PushFacts DEF Ending
  <2>3. Pushed'[Len(Pushed) + Len(events)] = events[Len(events)] /\ step' = step
        /\ Len(Pushed) + Len(events) \in DOMAIN Pushed'
    BY <2>1, <2>2, PushFacts
  <2> QED
    BY <2>2, <2>3 DEF ExitPushed, Exit
<1>3. CASE Yield
  <2>1. Pushed' = Pushed /\ UNCHANGED <<step, done>>
    BY <1>3, YieldKeeps DEF Yield
  <2> QED
    BY <2>1 DEF ExitPushed
<1>4. CASE StepEnds
  BY <1>4, EndFacts DEF ExitPushed
<1>5. CASE Still
  BY <1>5 DEF Still, ExitPushed, Pushed
<1> QED
  BY <1>1, <1>2, <1>3, <1>4, <1>5, Kinds
-----------------------------------------------------------------------------
\* Every step that gives no event to the reader and ends no step of the run, but
\* for Resume: it leaves alone what the reader was given and what was recorded.
Unread ==
    /\ UNCHANGED <<step, out, setupExitCode>>
    /\ \/ pc' = pc
       \/ pc' = "left"
       \/ pc' \in {"pumping", "waiting", "threw"} /\ pc \in {"starting", "pumping", "waiting"}

LEMMA UnreadSteps ==
    ASSUME TypeOK, [Next]_vars
    PROVE  Unread \/ Resume \/ Yield \/ StepEnds
<1>1. ASSUME NEW events, Push(events), Turn PROVE Unread
  BY <1>1 DEF Push, Turn, Unread
<1>2. ASSUME Chunk \/ Fires \/ InspectThrows \/ Breaks \/ \E code \in {0, 1} : Inspected(code)
      PROVE  Unread
  BY <1>1, <1>2 DEF Chunk, Fires, InspectThrows, Breaks, Inspected
<1>3. ASSUME Start \/ StartThrows \/ Ends \/ Leave \/ Wait \/ Polls \/ Finished \/ UNCHANGED vars
      PROVE  Unread
  BY <1>3 DEF Start, StartThrows, Ends, Leave, Wait, Polls, Finished, vars, exec, Unread
<1> QED
  BY <1>2, <1>3 DEF Next

LEMMA StepVerdict ==
    ASSUME StreamInv, [Next]_vars
    PROVE  Verdict' /\ LastVerdictDecides'
<1>0. /\ TypeOK /\ Tagged /\ Verdict /\ LastVerdictDecides /\ ExitPushed
      /\ step \in Nat /\ \A n \in DOMAIN Pushed : Pushed[n].step \in Nat
  BY PushedFacts, SetupsAssumption DEF StreamInv, TypeOK, Events
<1>1. UNCHANGED <<step, out>> => \A m, n : LastExit(m, n)' = LastExit(m, n)
  BY DEF LastExit
<1>2. CASE Unread
  <2>1. Recorded => Recorded'
    BY <1>1, <1>2 DEF Unread, Recorded
  <2>2. Verdict'
    BY <1>0, <1>2, <2>1 DEF Unread, Verdict, InSetup
  <2>3. LastVerdictDecides'
    BY <1>0, <1>1, <1>2 DEF Unread, LastVerdictDecides, InSetup
  <2> QED
    BY <2>2, <2>3
<1>3. CASE Resume
  <2>1. /\ UNCHANGED <<step, out>> /\ pc = "yielded" /\ pc' = "pumping" /\ out # <<>>
        /\ out[Len(out)].step = step
    BY <1>0, <1>3 DEF Resume, Verdict
  <2>2. ASSUME InSetup PROVE Recorded'
    <3>1. CASE out[Len(out)].type = "exit"
      <4>1. Len(out) \in DOMAIN out /\ \A k \in DOMAIN out : ~(k > Len(out))
        BY <1>0, <2>1 DEF TypeOK
      <4>2. LastExit(Len(out), step)
        BY <2>1, <3>1, <4>1 DEF LastExit, Exit
      <4>3. setupExitCode' = out[Len(out)].data
        BY <1>3, <2>2, <3>1 DEF Resume, Last
      <4> QED
        BY <1>1, <2>1, <4>1, <4>2, <4>3 DEF Recorded
    <3>2. CASE out[Len(out)].type # "exit"
      <4>1. Recorded /\ setupExitCode' = setupExitCode
        BY <1>0, <1>3, <2>1, <2>2, <3>2 DEF Resume, Last, Verdict
      <4> QED
        BY <1>1, <2>1, <4>1 DEF Recorded
    <3> QED
      BY <3>1, <3>2
  <2>3. Verdict'
    BY <2>1, <2>2 DEF Verdict, InSetup
  <2>4. LastVerdictDecides'
    BY <1>0, <1>1, <2>1 DEF LastVerdictDecides
  <2> QED
    BY <2>3, <2>4
<1>4. CASE Yield
  <2> DEFINE new == Len(out) + 1
  <2>1. /\ Len(out) \in Nat /\ Len(out') = new
        /\ DOMAIN out = 1..Len(out) /\ DOMAIN out' = 1..new
        /\ \A n \in 1..Len(out) : out'[n] = out[n]
        /\ new \in DOMAIN Pushed /\ out'[new] = Pushed[new]
    BY <1>0, <1>4, YieldKeeps DEF Yield
  <2>2. pc = "pumping" /\ pc' = "yielded" /\ UNCHANGED <<step, setupExitCode>>
    BY <1>4 DEF Yield
  <2>3. /\ new \in DOMAIN out' /\ out'[new].step = step
        /\ \A n \in DOMAIN out : n \in DOMAIN out' /\ out'[n] = out[n]
        /\ \A n \in DOMAIN out' : (n \in DOMAIN out \/ n = new)
    BY <1>0, <2>1 DEF Tagged
  <2>4. out' # <<>>
    BY <2>1
  <2> HIDE DEF new
  <2>5. ASSUME NEW m \in DOMAIN out, NEW n, LastExit(m, n), n # step \/ out'[new].type # "exit"
        PROVE  LastExit(m, n)'
    BY <2>3, <2>5 DEF LastExit, Exit
  <2>6. ASSUME InSetup, out'[new].type # "exit" PROVE Recorded'
    <3>1. Recorded
      BY <1>0, <2>2, <2>6 DEF Verdict
    <3>2. CASE setupExitCode = 0 /\ \A m \in DOMAIN out : ~Exit(out[m], step)
      BY <2>2, <2>3, <2>6, <3>2 DEF Recorded, Exit
    <3>3. CASE \E m \in DOMAIN out : LastExit(m, step) /\ setupExitCode = out[m].data
      <4>1. PICK m \in DOMAIN out : LastExit(m, step) /\ setupExitCode = out[m].data
        BY <3>3
      <4>2. LastExit(m, step)'
        BY <2>2, <2>5, <2>6, <4>1 DEF LastExit
      <4> QED
        BY <2>2, <2>3, <4>1, <4>2 DEF Recorded
    <3> QED
      BY <3>1, <3>2, <3>3 DEF Recorded
  <2>7. Verdict'
    BY <2>1, <2>2, <2>3, <2>4, <2>6 DEF Verdict, InSetup
  <2>8. ASSUME NEW n \in 1..step - 1
        PROVE  \E m \in DOMAIN out' : LastExit(m, n)' /\ out'[m].data = 0
    <3>1. PICK m \in DOMAIN out : LastExit(m, n) /\ out[m].data = 0
      BY <1>0 DEF LastVerdictDecides
    <3>2. n # step
      BY <1>0
    <3> QED
      BY <2>3, <2>5, <3>1, <3>2
  <2> QED
    BY <2>2, <2>7, <2>8 DEF LastVerdictDecides
<1>5. CASE StepEnds
  <2>1. Pushed = out /\ UNCHANGED out /\ pc = "pumping" /\ done
    BY <1>0, <1>5, EndFacts
  <2>2. InSetup => Recorded
    BY <1>0, <2>1 DEF Verdict
  <2>3. CASE UNCHANGED <<step, setupExitCode>> /\ pc' = "returned"
    <3>1. Verdict'
      BY <1>1, <2>1, <2>2, <2>3 DEF Verdict, Recorded, InSetup
    <3>2. InSetup => setupExitCode # 0
      BY <1>5, <2>3 DEF StepEnds
    <3>3. LastVerdictDecides'
      BY <1>0, <1>1, <2>1, <2>2, <2>3, <3>2 DEF LastVerdictDecides, Recorded, InSetup
    <3> QED
      BY <3>1, <3>3
  <2>4. CASE InSetup /\ setupExitCode = 0 /\ setupExitCode' = 0 /\ step' = step + 1
                /\ pc' = "starting"
    <3>1. \A n \in DOMAIN out : ~Exit(out[n], step + 1)
      BY <1>0, <2>1 DEF Tagged, Exit
    <3>2. Recorded'
      BY <2>1, <2>4, <3>1 DEF Recorded
    <3>3. \E m \in DOMAIN out : LastExit(m, step) /\ out[m].data = 0
      BY <1>0, <2>1, <2>2, <2>4 DEF ExitPushed, Recorded
    <3>4. \A n \in 1..step' - 1 : n = step \/ n \in 1..step - 1
      BY <1>0, <2>4
    <3>5. ASSUME NEW n \in 1..step' - 1
          PROVE  \E m \in DOMAIN out : LastExit(m, n) /\ out[m].data = 0
      BY <1>0, <3>3, <3>4 DEF LastVerdictDecides
    <3>6. \A m, n : LastExit(m, n)' = LastExit(m, n)
      BY <2>1 DEF LastExit
    <3>7. LastVerdictDecides'
      BY <2>1, <2>4, <3>5, <3>6 DEF LastVerdictDecides
    <3> QED
      BY <2>4, <3>2, <3>7 DEF Verdict
  <2> QED
    BY <1>5, <2>3, <2>4 DEF StepEnds
<1> QED
  BY <1>0, <1>2, <1>3, <1>4, <1>5, UnreadSteps

LEMMA StartStream == Init => StreamInv
<1> SUFFICES ASSUME Init PROVE StreamInv
  OBVIOUS
<1>1. TypeOK
  <2>1. 1 \in 1..Setups + 1 /\ 0 \in 0..MaxChunks /\ 0 \in Nat /\ <<>> \in Seq(Events)
    BY SetupsAssumption
  <2> QED
    BY <2>1 DEF Init, TypeOK
<1>2. Len(out) = 0 /\ Len(queue) = 0
  BY DEF Init
<1>3. DOMAIN Pushed = {} /\ DOMAIN out = {}
  BY <1>1, <1>2, PushedFacts
<1>4. Chunks = {} /\ 1..emitted = {}
  BY <1>3 DEF Chunks, Init
<1>5. {Pushed[n].data : n \in Chunks} = {}
  BY <1>4
<1>6. Tagged /\ NothingDropped /\ ExitPushed
  BY <1>3, <1>4, <1>5 DEF Tagged, NothingDropped, ExitPushed, Init
<1>7. 1..step - 1 = {}
  BY DEF Init
<1>8. Verdict /\ LastVerdictDecides
  BY <1>3, <1>7 DEF Init, Verdict, Recorded, LastVerdictDecides
<1> QED
  BY <1>1, <1>6, <1>8 DEF StreamInv

\* The invariant of a streamed execution, whatever the reader's pace and whatever
\* fires, ends or breaks when.
THEOREM StreamInvariant == Spec => []StreamInv
<1>1. StreamInv /\ [Next]_vars => StreamInv'
  BY StepType, StepTagged, StepDropsNothing, StepExitPushed, StepVerdict DEF StreamInv
<1> QED
  BY <1>1, StartStream, PTL DEF Spec

\* The variables of a streamed execution keep their types.
THEOREM StreamType == Spec => []TypeOK
  BY StreamInvariant, PTL DEF StreamInv

\* No chunk is lost, duplicated or reordered between the data callbacks and the
\* reader, for any number of chunks and a reader of any pace.
THEOREM StreamNothingDropped == Spec => []NothingDropped
  BY StreamInvariant, PTL DEF StreamInv

\* The last exit event of a setup script decides whether the next step begins or
\* the run ends, though a timeout and the end of the stream may both report one.
THEOREM StreamLastVerdictDecides == Spec => []LastVerdictDecides
  BY StreamInvariant, PTL DEF StreamInv

\* A step of the run is left only when the reader has its chunks and its exit.
THEOREM StreamLeftComplete == Spec => LeftComplete
<1> DEFINE Complete ==
       pc = "pumping" /\ (step' # step \/ pc' = "returned") =>
          /\ \A k \in 1..emitted : \E n \in DOMAIN out : out[n] = Event("output", k)
          /\ \E n \in DOMAIN out : Exit(out[n], step)
<1>1. ASSUME StreamInv, [Next]_vars PROVE [Complete]_vars
  <2>0. TypeOK /\ NothingDropped /\ ExitPushed
    BY <1>1 DEF StreamInv
  <2> SUFFICES ASSUME pc = "pumping", step' # step \/ pc' = "returned" PROVE Complete
    OBVIOUS
  <2>1. StepEnds
    BY <1>1, <2>0, UnreadSteps DEF Unread, Resume, Yield
  <2>2. Pushed = out /\ done
    BY <2>0, <2>1, EndFacts
  <2>3. \E n \in DOMAIN out : Exit(out[n], step)
    BY <2>0, <2>2 DEF ExitPushed
  <2>4. ASSUME NEW k \in 1..emitted PROVE \E n \in DOMAIN out : out[n] = Event("output", k)
    <3>1. PICK n \in Chunks : Pushed[n].data = k
      BY <2>0 DEF NothingDropped
    <3>2. /\ n \in DOMAIN out /\ out[n] \in Events
          /\ out[n].type = "output" /\ out[n].step = step /\ out[n].data = k
      BY <2>0, <2>2, <3>1, PushedFacts DEF Chunks
    <3>3. out[n] = Event("output", k)
      BY <3>2 DEF Events, Event
    <3> QED
      BY <3>2, <3>3
  <2> QED
    BY <2>3, <2>4
<1> QED
  BY <1>1, StreamInvariant, PTL DEF Spec, LeftComplete
-----------------------------------------------------------------------------
\* With a prompt reader a callback finds the generator waiting, so that nothing is
\* queued and the step is not done.
LEMMA StepPrompt ==
    ASSUME StreamInv, Prompt, [Next]_vars
    PROVE  Prompt'
<1> SUFFICES ASSUME prompt'
             PROVE  /\ (InSetup => \A n \in DOMAIN Pushed :
                                     Exit(Pushed[n], step) => done /\ n = Len(Pushed))'
                    /\ (InSetup /\ done => pc \notin {"starting", "waiting"})'
                    /\ (\A n \in DOMAIN out : FailedSetup(out[n]) => out[n].step = step)'
  BY DEF Prompt
<1>0. /\ TypeOK /\ Tagged /\ ExitPushed /\ Verdict
      /\ step \in Nat /\ \A n \in DOMAIN Pushed : Pushed[n].step \in Nat
  BY PushedFacts, SetupsAssumption DEF StreamInv, TypeOK, Events
<1>1. prompt
  BY DEF Next, Start, StartThrows, Chunk, Fires, Ends, Inspected, InspectThrows, Breaks,
         Push, Yield, Resume, Leave, Wait, Polls, StepEnds, Finished, vars
<1>2. /\ InSetup => \A n \in DOMAIN Pushed : Exit(Pushed[n], step) => done /\ n = Len(Pushed)
      /\ InSetup /\ done => pc \notin {"starting", "waiting"}
      /\ \A n \in DOMAIN out : FailedSetup(out[n]) => out[n].step = step
  BY <1>1 DEF Prompt
<1>3. ASSUME NEW events \in Seq(Events), Pushing(events),
             \/ Ending(events) /\ done'
             \/ (\A k \in 1..Len(events) : events[k].type # "exit") /\ done' = done
      PROVE  Prompt'
  <2>1. /\ pc = "waiting" /\ UNCHANGED <<step, out>>
        /\ pc' = IF InSetup THEN "pumping" ELSE "waiting"
    BY <1>1, <1>3 DEF Pushing, Turn
  <2>2. InSetup => ~done /\ \A n \in DOMAIN Pushed : ~Exit(Pushed[n], step)
    BY <1>2, <2>1
  <2>3. ASSUME InSetup, NEW n \in DOMAIN Pushed', Exit(Pushed'[n], step)
        PROVE  done' /\ n = Len(Pushed')
    <3>1. n \notin DOMAIN Pushed
      BY <1>0, <1>3, <2>2, <2>3, PushFacts
    <3>2. PICK k \in 1..Len(events) : n = Len(Pushed) + k
      BY <1>0, <1>3, <3>1, PushFacts
    <3>3. events[k].type = "exit"
      BY <1>0, <1>3, <2>3, <3>2, PushFacts DEF Exit
    <3>4. done' /\ k = Len(events)
      BY <1>3, <3>2, <3>3 DEF Ending
    <3> QED
      BY <1>0, <1>3, <3>2, <3>4, PushFacts
  <2> QED
    BY <1>2, <2>1, <2>3 DEF Prompt, InSetup, FailedSetup
<1>4. CASE Chunked
  <2> DEFINE events == <<Event("output", emitted + 1)>>
  <2>1. events \in Seq(Events) /\ \A k \in 1..Len(events) : events[k].type # "exit"
    BY <1>0, ChunkEvent
  <2>2. done' = done
    BY <1>4 DEF Chunked
  <2> HIDE DEF events
  <2>3. Pushing(events)
    BY <1>4 DEF Chunked, events
  <2> QED
    BY <1>3, <2>1, <2>2, <2>3 DEF Prompt
<1>5. CASE Ended
  <2>1. PICK events \in Seq(Events) : Pushing(events) /\ Ending(events) /\ done'
    BY <1>5 DEF Ended
  <2>2. Prompt'
    BY <1>3, <2>1
  <2> QED
    BY <2>2 DEF Prompt
<1>6. CASE Yield
  <2>1. /\ Pushed' = Pushed /\ Len(out) \in Nat
        /\ DOMAIN out = 1..Len(out) /\ DOMAIN out' = 1..Len(out) + 1
        /\ \A n \in 1..Len(out) : out'[n] = out[n]
        /\ Len(out) + 1 \in DOMAIN Pushed /\ out'[Len(out) + 1] = Pushed[Len(out) + 1]
    BY <1>0, <1>6, YieldKeeps DEF Yield
  <2>2. out'[Len(out) + 1].step = step
    BY <1>0, <2>1 DEF Tagged
  <2>3. pc' = "yielded" /\ UNCHANGED <<step, done>>
    BY <1>6 DEF Yield
  <2>4. \A n \in DOMAIN out' : (n \in DOMAIN out \/ n = Len(out) + 1)
    BY <2>1
  <2>5. \A n \in DOMAIN out' : FailedSetup(out'[n]) => out'[n].step = step
    BY <1>2, <2>1, <2>2, <2>4 DEF FailedSetup
  <2> QED
    BY <1>2, <2>1, <2>3, <2>5 DEF InSetup, FailedSetup
<1>7. CASE StepEnds
  <2>1. Pushed = out /\ Pushed' = Pushed /\ UNCHANGED out /\ pc = "pumping" /\ done
    BY <1>0, <1>7, EndFacts
  <2>2. CASE UNCHANGED <<step, done>> /\ pc' = "returned"
    BY <1>2, <2>1, <2>2 DEF InSetup, FailedSetup
  <2>3. CASE InSetup /\ setupExitCode = 0 /\ step' = step + 1 /\ done' = FALSE
    <3>1. \A n \in DOMAIN Pushed : ~Exit(Pushed[n], step + 1)
      BY <1>0 DEF Tagged, Exit
    <3>2. PICK m \in DOMAIN out : LastExit(m, step) /\ out[m].data = 0
      BY <1>0, <2>1, <2>3 DEF Verdict, Recorded, ExitPushed
    <3>3. ASSUME NEW n \in DOMAIN out, FailedSetup(out[n]) PROVE FALSE
      <4>1. out[n].step = step /\ Exit(out[n], step) /\ out[n].data # 0
        BY <1>2, <3>3 DEF FailedSetup, Exit
      <4>2. n = Len(Pushed) /\ m = Len(Pushed)
        BY <1>2, <2>1, <2>3, <3>2, <4>1 DEF LastExit
      <4> QED
        BY <3>2, <4>1, <4>2
    <3> QED
      BY <2>1, <2>3, <3>1, <3>3 DEF FailedSetup
  <2> QED
    BY <1>7, <2>2, <2>3 DEF StepEnds
<1>8. CASE Still
  <2>1. Pushed' = Pushed /\ UNCHANGED <<step, done, out>>
    BY <1>8 DEF Still, Pushed
  <2>2. InSetup /\ done => pc' \notin {"starting", "waiting"}
    <3> SUFFICES ASSUME InSetup, done PROVE pc' \notin {"starting", "waiting"}
      OBVIOUS
    <3>1. pc \notin {"starting", "waiting"}
      BY <1>2
    <3> QED
      BY <1>8, <3>1
      DEF Still, Next, Start, StartThrows, Chunk, Fires, Ends, Inspected, InspectThrows, Breaks,
          Push, Turn, Yield, Resume, Leave, Wait, Polls, StepEnds, Finished, vars, exec
  <2> QED
    BY <1>2, <2>1, <2>2 DEF InSetup, FailedSetup
<1> QED
  BY <1>0, <1>4, <1>5, <1>6, <1>7, <1>8, Kinds DEF Prompt

\* A reader that asks for the next event at once, as the server's handlers do, is
\* given nothing after the exit event of a setup script that failed or timed out,
\* and nothing more is run.
THEOREM StreamPromptReaderIsSafe == Spec => []PromptReaderIsSafe
<1>1. Init => Prompt
  <2> SUFFICES ASSUME Init PROVE Prompt
    OBVIOUS
  <2>1. TypeOK /\ Len(out) = 0 /\ Len(queue) = 0
    BY StartStream DEF Init, StreamInv
  <2>2. DOMAIN Pushed = {} /\ DOMAIN out = {}
    BY <2>1, PushedFacts
  <2> QED
    BY <2>2 DEF Init, Prompt
<1>2. StreamInv /\ Prompt /\ [Next]_vars => Prompt'
  BY StepPrompt
<1>3. ASSUME StreamInv, Prompt PROVE PromptReaderIsSafe
  <2> SUFFICES ASSUME prompt, NEW n \in DOMAIN out, FailedSetup(out[n])
               PROVE  n = Len(out) /\ pc # "starting"
    BY DEF PromptReaderIsSafe, SetupFailureStops
  <2>1. /\ DOMAIN out = 1..Len(out) /\ Len(out) \in Nat /\ Len(queue) \in Nat
        /\ Len(Pushed) = Len(out) + Len(queue)
        /\ n \in DOMAIN Pushed /\ Pushed[n] = out[n]
    BY <1>3, PushedFacts DEF StreamInv
  <2>2. InSetup /\ Exit(Pushed[n], step)
    BY <1>3, <2>1 DEF Prompt, FailedSetup, Exit, InSetup
  <2>3. done /\ n = Len(Pushed) /\ pc # "starting"
    BY <1>3, <2>1, <2>2 DEF Prompt
  <2>4. n \in 1..Len(out) /\ n = Len(out) + Len(queue)
    BY <2>1, <2>3
  <2>5. Len(out) \in Nat /\ Len(queue) \in Nat
    BY <2>1
  <2>6. n = Len(out)
    BY <2>4, <2>5
  <2> QED
    BY <2>3, <2>6
<1> QED
  BY <1>1, <1>2, <1>3, StreamInvariant, PTL DEF Spec
=============================================================================
