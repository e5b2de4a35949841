----------------------- MODULE OutputCollectorProofs -----------------------
(***************************************************************************)
(* What OutputCollector keeps of an output, for every limit, every size of *)
(* the marker and every way of cutting the output into chunks.             *)
(***************************************************************************)
EXTENDS OutputCollector, TLAPS

\* The part of the state that the buffers depend on, with natural numbers for
\* the bounded ranges of TypeOK.
Shape == /\ sent \in [Outputs -> Nat]
         /\ buffer \in [Outputs -> [kept : Nat, reported : Nat]]
         /\ truncated \in BOOLEAN

\* One output and its buffer agree.
Agrees(b, s) == /\ b.kept = IF s < MaxOutputSize THEN s ELSE MaxOutputSize
                /\ b.reported # 0 <=> s > MaxOutputSize

\* Appending a chunk keeps them agreed: a text that was cut is longer than the
\* limit by its marker, so it is cut at the limit again.
LEMMA AddAgrees ==
    ASSUME NEW b \in [kept : Nat, reported : Nat], NEW s \in Nat, NEW n \in Nat,
           Agrees(b, s)
    PROVE  /\ Add(b, n) \in [kept : Nat, reported : Nat]
           /\ Agrees(Add(b, n), s + n)
           /\ s > MaxOutputSize \/ Size(b) + n > MaxOutputSize <=> s + n > MaxOutputSize
<1> USE SizesAssumption
<1>1. Size(b) \in Nat
  BY DEF Size
<1>2. CASE Size(b) + n <= MaxOutputSize
  <2>1. b.reported = 0 /\ b.kept = s /\ Size(b) = s
    BY <1>2 DEF Agrees, Size
  <2>2. Add(b, n) = [kept |-> s + n, reported |-> 0]
    BY <1>2, <2>1 DEF Add
  <2> QED
    BY <1>2, <2>1, <2>2 DEF Agrees
<1>3. CASE ~(Size(b) + n <= MaxOutputSize)
  <2>1. Add(b, n) = [kept |-> MaxOutputSize, reported |-> Size(b) + n]
    BY <1>3 DEF Add
  <2>2. s + n > MaxOutputSize
    BY <1>3 DEF Agrees, Size
  <2> QED
    BY <1>1, <1>3, <2>1, <2>2 DEF Agrees
<1> QED
  BY <1>2, <1>3

BufferInv == Shape /\ FirstBytesKept

\* The invariant is inductive: only Receive touches what it speaks of.
LEMMA BufferStep == BufferInv /\ [Next]_vars => BufferInv'
<1> SUFFICES ASSUME BufferInv, [Next]_vars
             PROVE  BufferInv'
  OBVIOUS
<1> USE SizesAssumption DEF BufferInv
<1>1. ASSUME NEW o \in Outputs, NEW n \in ChunkSizes, Receive(o, n)
      PROVE  BufferInv'
  <2>1. n \in Nat /\ sent[o] \in Nat /\ buffer[o] \in [kept : Nat, reported : Nat]
    BY <1>1 DEF Shape
  <2>2. Agrees(buffer[o], sent[o])
    BY DEF FirstBytesKept, Agrees
  <2>3. /\ Add(buffer[o], n) \in [kept : Nat, reported : Nat]
        /\ Agrees(Add(buffer[o], n), sent[o] + n)
        /\ sent[o] > MaxOutputSize \/ Size(buffer[o]) + n > MaxOutputSize
              <=> sent[o] + n > MaxOutputSize
    BY <2>1, <2>2, AddAgrees
  <2>4. /\ sent' = [sent EXCEPT ![o] = @ + n]
        /\ buffer' = [buffer EXCEPT ![o] = Add(@, n)]
        /\ truncated' = (truncated \/ Size(buffer[o]) + n > MaxOutputSize)
    BY <1>1 DEF Receive
  <2>5. Shape'
    <3>1. sent' \in [Outputs -> Nat] /\ truncated' \in BOOLEAN
      BY <2>1, <2>4 DEF Shape
    <3>2. buffer' \in [Outputs -> [kept : Nat, reported : Nat]]
      BY <2>3, <2>4 DEF Shape
    <3> QED
      BY <3>1, <3>2 DEF Shape
  <2>6. ASSUME NEW u \in Outputs
        PROVE  Agrees(buffer'[u], sent'[u])
    <3>1. CASE u = o
      BY <2>3, <2>4, <3>1 DEF Shape
    <3>2. CASE u # o
      <4>1. buffer'[u] = buffer[u] /\ sent'[u] = sent[u]
        BY <2>4, <3>2 DEF Shape
      <4> QED
        BY <4>1 DEF FirstBytesKept, Agrees
    <3> QED
      BY <3>1, <3>2
  <2>7. truncated' <=> \E u \in Outputs : sent'[u] > MaxOutputSize
    <3>1. sent'[o] = sent[o] + n /\ \A u \in Outputs \ {o} : sent'[u] = sent[u]
      BY <2>4 DEF Shape
    <3>2. truncated <=> \E u \in Outputs : sent[u] > MaxOutputSize
      BY DEF FirstBytesKept
    <3>3. sent[o] > MaxOutputSize => sent[o] + n > MaxOutputSize
      BY <2>1
    <3> QED
      BY <2>3, <2>4, <3>1, <3>2, <3>3
  <2> QED
    BY <2>5, <2>6, <2>7 DEF FirstBytesKept, Agrees
<1>2. ASSUME UNCHANGED data
      PROVE  BufferInv'
  BY <1>2 DEF data, Shape, FirstBytesKept
<1>3. ASSUME NEW o \in Outputs, OutputEnds(o)
      PROVE  BufferInv'
  BY <1>2, <1>3 DEF OutputEnds
<1>4. CASE StreamEnds
  BY <1>2, <1>4 DEF StreamEnds
<1>5. CASE GraceEnds
  BY <1>2, <1>5 DEF GraceEnds
<1>6. CASE TimesOut
  BY <1>2, <1>6 DEF TimesOut
<1>7. CASE StreamError
  BY <1>2, <1>7 DEF StreamError
<1>8. CASE UNCHANGED vars
  BY <1>2, <1>8 DEF vars, data
<1> QED
  BY <1>1, <1>3, <1>4, <1>5, <1>6, <1>7, <1>8 DEF Next, Settled

\* However an output is cut into chunks, execute() returns its first
\* maxOutputSize bytes, with a marker and `truncated` exactly if more came.
THEOREM CollectorKeepsFirstBytes == Spec => []FirstBytesKept
<1>1. ASSUME Init
      PROVE  BufferInv
  <2>1. MaxOutputSize \in Nat
    BY SizesAssumption
  <2>2. Shape
    BY <1>1 DEF Init, Shape
  <2>3. \A o \in Outputs : sent[o] = 0 /\ buffer[o] = [kept |-> 0, reported |-> 0]
    BY <1>1 DEF Init
  <2>4. ~truncated /\ \A o \in Outputs : ~(sent[o] > MaxOutputSize)
    BY <1>1, <2>1, <2>3 DEF Init
  <2> QED
    BY <2>1, <2>2, <2>3, <2>4 DEF BufferInv, FirstBytesKept
<1>2. BufferInv /\ [Next]_vars => BufferInv'
  BY BufferStep
<1>3. BufferInv => FirstBytesKept
  BY DEF BufferInv
<1> QED
  BY <1>1, <1>2, <1>3, PTL DEF Spec

\* The timer of timeoutMs never outlives the promise it is there for.
THEOREM CollectorLeavesNoTimer == Spec => []NoTimerLeft
<1>1. Init => NoTimerLeft
  BY DEF Init, NoTimerLeft
<1>2. NoTimerLeft /\ [Next]_vars => NoTimerLeft'
  BY DEF NoTimerLeft, Next, vars, Receive, OutputEnds, CheckDone, StreamEnds,
         GraceEnds, TimesOut, StreamError, Settled
<1> QED
  BY <1>1, <1>2, PTL DEF Spec
=============================================================================
