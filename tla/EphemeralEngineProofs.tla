----------------------- MODULE EphemeralEngineProofs -----------------------
(***************************************************************************)
(* The ephemeral engine for any finite sets of executions and images, any  *)
(* numbers of permits and containers: its calls, its pool and its          *)
(* semaphore together.  Every step of the engine is a step of the pool or  *)
(* leaves it alone, but for one: a container is left for inspection, which *)
(* the pool takes no notice of.  So the pool's invariants carry over, and  *)
(* so does the semaphore's.                                                *)
(***************************************************************************)
EXTENDS EphemeralEngine, ContainerPoolProofs

\* The semaphore's theorems, for the engine's own semaphore.
Sem == INSTANCE SemaphoreProofs WITH Callers <- Clients, Max <- MaxConcurrent,
            current <- permits, queue <- waiters, pc <- gate

\* The instance of the theorems has the operations of the engine's semaphore.
LEMMA SameGate ==
    /\ \A p : Gate!Acquire(p) = Sem!Acquire(p)
    /\ \A p : Gate!Resume(p) = Sem!Resume(p)
    /\ \A p : Gate!Release(p) = Sem!Release(p)
  BY DEF Gate!Acquire, Sem!Acquire, Gate!Resume, Sem!Resume, Gate!Release, Sem!Release

\* What the operations of the semaphore change.
LEMMA ResumeFacts ==
    ASSUME Sem!SemInv, NEW p \in Clients, Gate!Resume(p)
    PROVE  /\ gate'[p] = "running"
           /\ \A q \in Clients : q # p => gate'[q] = gate[q]
  BY SameGate DEF Sem!SemInv, Sem!TypeOK, Sem!Resume

LEMMA AcquireFacts ==
    ASSUME Sem!SemInv, NEW p \in Clients, Gate!Acquire(p)
    PROVE  \A q \in Clients : q # p => gate'[q] = gate[q]
  BY SameGate DEF Sem!SemInv, Sem!TypeOK, Sem!Acquire

LEMMA ReleaseFacts ==
    ASSUME Sem!SemInv, NEW p \in Clients, Gate!Release(p)
    PROVE  \A q \in Clients : q # p /\ gate[q] = "running" => gate'[q] = "running"
<1>1. gate[p] = "running" /\ gate \in [Clients -> Sem!States] /\ waiters \in Seq(Clients)
  BY SameGate DEF Sem!SemInv, Sem!TypeOK, Sem!Release
<1>2. CASE waiters = <<>>
  BY <1>1, <1>2, SameGate DEF Sem!Release
<1>3. CASE waiters # <<>>
  <2> DEFINE w == Head(waiters)
  <2>1. w \in Clients /\ w = waiters[1] /\ 1 \in 1..Len(waiters)
    BY <1>1, <1>3
  <2>2. gate[w] = "queued"
    BY <2>1 DEF Sem!SemInv, Sem!Accounting
  <2>3. gate' = [gate EXCEPT ![p] = "idle", ![w] = "granted"]
    BY <1>3, SameGate DEF Sem!Release
  <2> HIDE DEF w
  <2> QED
    BY <1>1, <2>1, <2>2, <2>3
<1> QED
  BY <1>2, <1>3
-----------------------------------------------------------------------------
\* The types of what the engine adds to the pool.
CallPcs == {"idle", "gated", "resolving", "fetching", "acquiring", "step", "leaving", "returning"}

EngineTypes ==
    /\ call \in [Clients -> [pc : CallPcs, kind : Kinds, at : Int]]
    /\ procs \in [Containers -> SUBSET Clients]
    /\ kept \in SUBSET Containers

\* Where a call is says what its execution has of the pool and of the semaphore.
Carried ==
    \A p \in Clients :
       /\ call[p].pc \in {"step", "leaving"} => client[p].pc = "holding"
       /\ client[p].pc # "idle" => call[p].pc \in {"acquiring", "step", "leaving"}
       /\ call[p].pc \notin {"idle", "gated"} => gate[p] = "running"

\* Nobody calls an engine that is being stopped.
Stopped == drain # "no" => \A p \in Clients : call[p].pc = "idle"

\* What is left for inspection is in Docker, and the pool does not know it.
KeptApart == kept \subseteq live /\ \A c \in kept : Nowhere(c)

\* The inductive invariant.
EngineInv == /\ OwnerAll /\ LivePlaced
             /\ EngineTypes /\ Carried /\ Stopped /\ KeptApart

\* What one execution does in the pool.
Pooled(p) == \/ Acquire(p) \/ CleanedImmediate(p) \/ Recheck(p) \/ Scrubbed(p)
             \/ Created(p) \/ AcquireThrows(p) \/ Release(p)

\* The step that is none of the pool.
Keeps(p) == /\ kept' = kept \union {client[p].container}
            /\ client' = [client EXCEPT ![p] = IdleClient]
            /\ UNCHANGED <<pools, tick, job, warming, drain, awaited, docker>>
            /\ client[p].pc = "holding"

\* What the pool does while no execution moves, Start and Stop included.
Alone == \/ \E t \in Ticks : TickStart(t) \/ TickCleaned(t)
         \/ \E i \in Images : \/ Replenished(i) \/ ReplenishThrows(i) \/ JobEnds(i)
                              \/ Warm(i) \/ Warmed(i) \/ WarmThrows(i)
         \/ DrainStart \/ DrainRemoves \/ DrainClears

\* Each step of the engine, by what it does to the pool.
LEMMA EngineSteps ==
    ASSUME Carried, [NextEngine]_allVars
    PROVE  \/ UNCHANGED <<vars, kept>>
           \/ Alone /\ UNCHANGED <<call, kept, gateVars>>
           \/ \E p \in Clients : Pooled(p) /\ UNCHANGED kept
           \/ \E p \in Clients : Keeps(p)
<1>1. ASSUME NEW p \in Clients, NEW k \in Kinds, Call(p, k) PROVE UNCHANGED <<vars, kept>>
  BY <1>1 DEF Call
<1>2. ASSUME NEW p \in Clients, Begin(p) \/ Fetched(p) \/ ResolveThrows(p) \/ Enter(p)
                               \/ Advance(p) \/ Breaks(p) \/ Return(p)
      PROVE  UNCHANGED <<vars, kept>>
  BY <1>2 DEF Begin, Fetched, ResolveThrows, Enter, Advance, Breaks, Return
<1>3. ASSUME NEW p \in Clients, Resolved(p) \/ PoolGoesOn(p)
      PROVE  Pooled(p) /\ UNCHANGED kept
  BY <1>3 DEF Resolved, PoolGoesOn, Pooled
<1>4. ASSUME NEW p \in Clients, Leave(p) PROVE (Pooled(p) /\ UNCHANGED kept) \/ Keeps(p)
  BY <1>4 DEF Leave, Pooled, Keeps, Carried
<1>5. ASSUME NEW i \in Images, Start(i) PROVE Alone /\ UNCHANGED <<call, kept, gateVars>>
  BY <1>5 DEF Start, Alone, engineVars
<1>6. CASE Stop
  BY <1>6 DEF Stop, Alone, engineVars
<1>7. CASE Background
  BY <1>7 DEF Background, Alone
<1>8. CASE UNCHANGED allVars
  BY <1>8 DEF allVars, engineVars
<1> QED
  BY <1>1, <1>2, <1>3, <1>4, <1>5, <1>6, <1>7, <1>8 DEF NextEngine, CallStep

LEMMA PoolNext ==
    /\ Alone => Next
    /\ \A p \in Clients : Pooled(p) => Next
  BY DEF Alone, Pooled, Next

LEMMA EngineIsPool ==
    ASSUME Carried, [NextEngine]_allVars
    PROVE  ([Next]_vars /\ UNCHANGED kept) \/ \E p \in Clients : Keeps(p)
  BY EngineSteps, PoolNext
-----------------------------------------------------------------------------
\* A container that the pool does not know stays in Docker, and unknown to it.
LEMMA StepRemoves ==
    ASSUME OwnerAll, [Next]_vars, NEW c, c \in live, c \notin live'
    PROVE  ~Nowhere(c)
<1>0. c \in Containers
  BY DEF OwnerAll, PoolInv, TypeOK
<1>1. ASSUME NEW p \in Clients, Release(p) PROVE ~Nowhere(c)
  <2>1. c = client[p].container
    BY <1>1 DEF Release, Remove
  <2> QED
    BY <2>1 DEF Nowhere
<1>2. ASSUME NEW p \in Clients,
             \/ Acquire(p) \/ CleanedImmediate(p) \/ Recheck(p) \/ Scrubbed(p)
             \/ Created(p) \/ AcquireThrows(p)
      PROVE  FALSE
  BY <1>2 DEF Acquire, AcquireFast, AcquireSecure, CleanedImmediate, Recheck, Scrubbed,
              Created, AcquireThrows, docker, Create, CreateThrows
<1>3. ASSUME NEW t \in Ticks, TickStart(t) \/ TickCleaned(t) PROVE FALSE
  BY <1>3 DEF TickStart, TickCleaned, docker
<1>4. ASSUME NEW i \in Images, \/ Replenished(i) \/ ReplenishThrows(i) \/ JobEnds(i)
                               \/ Warm(i) \/ Warmed(i) \/ WarmThrows(i)
      PROVE  FALSE
  BY <1>4 DEF Replenished, ReplenishThrows, JobEnds, Warm, Warmed, WarmThrows, docker,
              Create, CreateThrows
<1>5. CASE DrainRemoves
  BY <1>0, <1>5 DEF DrainRemoves, Remove, Listed, Nowhere, In
<1>6. CASE DrainStart \/ DrainClears \/ UNCHANGED vars
  BY <1>6 DEF DrainStart, DrainClears, docker, vars
<1> QED
  BY <1>1, <1>2, <1>3, <1>4, <1>5, <1>6 DEF Next

LEMMA StepUnknown ==
    ASSUME OwnerAll, [Next]_vars, NEW c, c \in live, Nowhere(c)
    PROVE  c \in live' /\ Nowhere(c)'
<1>1. c \in Containers
  BY DEF OwnerAll, PoolInv, TypeOK
<1>2. Effect
  BY StepOwner
<1>3. Nowhere(c)'
  <2>1. CASE Made
    BY <1>1, <2>1, NewIsFresh DEF Made, NewPlaced, Fresh
  <2> QED
    BY <1>1, <1>2, <2>1
       DEF Effect, Cleared, StayNowhere, Moved, SamePlaced, Leaked, Destroyed, Emptied
<1> QED
  BY <1>3, StepRemoves

\* Leaving a container for inspection takes it from the pool, and nothing else.
LEMMA KeepsOwner ==
    ASSUME OwnerAll, NEW p \in Clients, Keeps(p), NEW c, c = client[p].container
    PROVE  /\ OwnerAll'
           /\ c \in Containers /\ ~Nowhere(c) /\ Nowhere(c)'
           /\ \A d \in Containers \ {c} : Nowhere(d)' <=> Nowhere(d)
<1>1. c \in Containers /\ c = client[p].container
  BY DEF Keeps, OwnerAll, PoolInv, TypeOK, Placed, MaybeContainer
<1>2. UNCHANGED <<keys, clean, dirty, tick, job, warming, drain, awaited, live, used>>
  BY DEF Keeps, pools, docker
<1>3. \A q \in Clients : client'[q] = IF q = p THEN IdleClient ELSE client[q]
  BY DEF Keeps, OwnerAll, PoolInv, TypeOK
<1>4. IdleClient \in [pc : Pcs, image : MaybeImage, container : MaybeContainer]
  BY DEF IdleClient, Pcs, MaybeImage, MaybeContainer
<1>5. client' \in [Clients -> [pc : Pcs, image : MaybeImage, container : MaybeContainer]]
  BY <1>4 DEF Keeps, OwnerAll, PoolInv, TypeOK
<1>6. TypeOK'
  BY <1>2, <1>5 DEF OwnerAll, PoolInv, TypeOK
<1>7. Placed'
  BY <1>2, <1>3 DEF IdleClient, OwnerAll, PoolInv, Placed
<1>8. \A q \in Clients : client'[q].container = IF q = p THEN None ELSE client[q].container
  BY <1>3 DEF IdleClient
<1>9. OwnerInv'
  BY <1>2, <1>8, ClientDrops DEF OwnerAll
<1>10. Linked'
  BY <1>2 DEF OwnerAll, Linked
<1>11. Single(c) /\ \A d \in Containers : d # None
  BY <1>1, NoneAssumption DEF OwnerAll, OwnerInv
<1>12. ~Nowhere(c) /\ Nowhere(c)'
  BY <1>1, <1>2, <1>8, <1>11 DEF Single, Nowhere
<1>13. \A d \in Containers \ {c} : Nowhere(d)' <=> Nowhere(d)
  BY <1>1, <1>2, <1>8, <1>11 DEF Nowhere
<1> QED
  BY <1>1, <1>6, <1>7, <1>9, <1>10, <1>12, <1>13 DEF OwnerAll, PoolInv

\* The pool's invariants hold for the pool of an engine.
LEMMA EngineOwner ==
    ASSUME EngineInv, [NextEngine]_allVars
    PROVE  OwnerAll' /\ LivePlaced'
<1>1. CASE [Next]_vars
  BY <1>1, StepTyped, StepOwner, StepLinked, StepLivePlaced DEF EngineInv, OwnerAll
<1>2. ASSUME NEW p \in Clients, Keeps(p) PROVE OwnerAll' /\ LivePlaced'
  <2>1. PICK c : c = client[p].container
    OBVIOUS
  <2>2. UNCHANGED <<live, drain>>
    BY <1>2 DEF Keeps, docker
  <2> QED
    BY <1>2, <2>1, <2>2, KeepsOwner DEF EngineInv, LivePlaced
<1> QED
  BY <1>1, <1>2, EngineIsPool DEF EngineInv

\* What is kept stays in Docker, whatever the pool removes.
LEMMA EngineKept ==
    ASSUME EngineInv, [NextEngine]_allVars
    PROVE  KeptApart' /\ kept' \in SUBSET Containers
<1>1. CASE [Next]_vars /\ UNCHANGED kept
  <2>1. \A c \in kept : c \in live' /\ Nowhere(c)'
    BY <1>1, StepUnknown DEF EngineInv, KeptApart
  <2> QED
    BY <1>1, <2>1 DEF EngineInv, EngineTypes, KeptApart
<1>2. ASSUME NEW p \in Clients, Keeps(p) PROVE KeptApart' /\ kept' \in SUBSET Containers
  <2>1. PICK c : c = client[p].container
    OBVIOUS
  <2>2. /\ c \in Containers /\ ~Nowhere(c) /\ Nowhere(c)'
        /\ \A d \in Containers \ {c} : Nowhere(d)' <=> Nowhere(d)
    BY <1>2, <2>1, KeepsOwner DEF EngineInv
  <2>3. c \in live
    BY <1>2, <2>2 DEF EngineInv, LivePlaced, Stopped, Carried, Keeps
  <2>4. kept' = kept \union {c} /\ live' = live
    BY <1>2, <2>1 DEF Keeps, docker
  <2> QED
    BY <2>2, <2>3, <2>4 DEF EngineInv, EngineTypes, KeptApart
<1> QED
  BY <1>1, <1>2, EngineIsPool DEF EngineInv
-----------------------------------------------------------------------------
\* What one execution does in the pool the others do not notice.
LEMMA PooledOthers ==
    ASSUME TypeOK, NEW p \in Clients, Pooled(p) \/ Keeps(p)
    PROVE  drain' = drain /\ \A q \in Clients : q # p => client'[q] = client[q]
<1>1. CASE Acquire(p) \/ CleanedImmediate(p) \/ Recheck(p)
  BY <1>1 DEF Acquire, AcquireFast, AcquireSecure, CleanedImmediate, Recheck, TakeClean,
              Moves, TypeOK
<1>2. CASE Scrubbed(p) \/ Created(p) \/ AcquireThrows(p) \/ Release(p)
  BY <1>2 DEF Scrubbed, Created, AcquireThrows, Release, Moves, TypeOK
<1>3. CASE Keeps(p)
  BY <1>3 DEF Keeps, TypeOK
<1> QED
  BY <1>1, <1>2, <1>3 DEF Pooled

LEMMA AloneOthers == Alone => UNCHANGED client
  BY DEF Alone, TickStart, TickCleaned, Replenished, ReplenishThrows, JobEnds, Warm, Warmed,
         WarmThrows, DrainStart, DrainRemoves, DrainClears

\* A call goes on.
LEMMA GoesFacts ==
    ASSUME EngineTypes, NEW p \in Clients, NEW pc \in CallPcs, Goes(p, pc)
    PROVE  /\ call' \in [Clients -> [pc : CallPcs, kind : Kinds, at : Int]]
           /\ call'[p].pc = pc
           /\ \A q \in Clients : q # p => call'[q] = call[q]
  BY DEF Goes, EngineTypes

LEMMA AfterIsInt == \A k, n : After(k, n) \subseteq Int
  BY DEF After

LEMMA MoveFacts ==
    ASSUME EngineTypes, NEW p \in Clients, NEW n \in Int,
           \/ call' = [call EXCEPT ![p].at = n] /\ call[p].pc = "step"
           \/ call' = [call EXCEPT ![p].pc = "step", ![p].at = n]
    PROVE  /\ call' \in [Clients -> [pc : CallPcs, kind : Kinds, at : Int]]
           /\ call'[p].pc = "step"
           /\ \A q \in Clients : q # p => call'[q] = call[q]
  BY DEF EngineTypes, CallPcs

\* One call moves, and keeps what it must have.
LEMMA OneCall ==
    ASSUME Carried, NEW p \in Clients,
           \A q \in Clients : q # p => /\ call'[q] = call[q]
                                       /\ client'[q] = client[q]
                                       /\ gate[q] = "running" => gate'[q] = "running",
           call'[p].pc \in {"step", "leaving"} => client'[p].pc = "holding",
           client'[p].pc # "idle" => call'[p].pc \in {"acquiring", "step", "leaving"},
           call'[p].pc \notin {"idle", "gated"} => gate'[p] = "running"
    PROVE  Carried'
  BY DEF Carried

\* Every step of a call preserves what relates it to the pool and the semaphore.
CallTyped == call \in [Clients -> [pc : CallPcs, kind : Kinds, at : Int]]

LEMMA CallCarried ==
    ASSUME EngineInv, Sem!SemInv, NEW p \in Clients,
           CallStep(p) \/ \E k \in Kinds : Call(p, k)
    PROVE  Carried' /\ CallTyped'
<1> USE DEF EngineInv
<1>1. ASSUME NEW k \in Kinds, Call(p, k) PROVE Carried' /\ CallTyped'
  <2>1. /\ call'[p].pc = "gated" /\ UNCHANGED client /\ client[p].pc = "idle"
        /\ \A q \in Clients : q # p => call'[q] = call[q] /\ gate'[q] = gate[q]
        /\ CallTyped'
    BY <1>1, AcquireFacts DEF Call, EngineTypes, CallTyped, CallPcs, vars, Carried
  <2> QED
    BY <2>1, OneCall
<1>2. CASE Begin(p)
  <2>1. PICK pc \in {"resolving", "fetching", "returning"} : Goes(p, pc)
    BY <1>2 DEF Begin
  <2>2. /\ call'[p].pc = pc /\ UNCHANGED client /\ client[p].pc = "idle"
        /\ \A q \in Clients : q # p => call'[q] = call[q] /\ gate'[q] = gate[q]
        /\ gate'[p] = "running" /\ CallTyped'
    BY <1>2, <2>1, GoesFacts, ResumeFacts DEF Begin, CallTyped, CallPcs, vars, Carried
  <2> QED
    BY <2>1, <2>2, OneCall
<1>3. CASE Fetched(p) \/ ResolveThrows(p)
  <2>1. PICK pc \in {"resolving", "returning"} : Goes(p, pc)
    BY <1>3 DEF Fetched, ResolveThrows
  <2>2. /\ call'[p].pc = pc /\ UNCHANGED client /\ client[p].pc = "idle"
        /\ \A q \in Clients : q # p => call'[q] = call[q]
        /\ UNCHANGED gate /\ gate[p] = "running" /\ CallTyped'
    BY <1>3, <2>1, GoesFacts DEF Fetched, ResolveThrows, CallTyped, CallPcs, vars, gateVars, Carried
  <2> QED
    BY <2>1, <2>2, OneCall
<1>4. CASE Resolved(p)
  <2>1. /\ call'[p].pc = "acquiring"
        /\ \A q \in Clients : q # p => call'[q] = call[q]
        /\ CallTyped'
    BY <1>4, GoesFacts DEF Resolved, CallTyped, CallPcs
  <2>2. /\ \A q \in Clients : q # p => client'[q] = client[q]
        /\ UNCHANGED gate /\ gate[p] = "running"
    BY <1>4, PooledOthers DEF Resolved, Pooled, gateVars, Carried, OwnerAll, PoolInv
  <2> QED
    BY <2>1, <2>2, OneCall
<1>5. CASE PoolGoesOn(p)
  <2>1. /\ UNCHANGED <<call, gate>> /\ call[p].pc = "acquiring" /\ gate[p] = "running"
        /\ \A q \in Clients : q # p => client'[q] = client[q]
    BY <1>5, PooledOthers DEF PoolGoesOn, Pooled, gateVars, Carried, OwnerAll, PoolInv
  <2> QED
    BY <2>1, OneCall DEF EngineTypes, CallTyped
<1>6. CASE Enter(p)
  <2>1. UNCHANGED <<client, gate>> /\ gate[p] = "running"
    BY <1>6 DEF Enter, vars, gateVars, Carried
  <2>2. CASE client[p].pc = "idle" /\ Goes(p, "returning")
    BY <2>1, <2>2, GoesFacts, OneCall DEF CallTyped, CallPcs
  <2>3. CASE client[p].pc = "holding"
    <3>1. PICK n \in Int : call' = [call EXCEPT ![p].pc = "step", ![p].at = n]
      BY <1>6, <2>3, AfterIsInt DEF Enter
    <3>2. /\ call'[p].pc = "step" /\ CallTyped'
          /\ \A q \in Clients : q # p => call'[q] = call[q]
      BY <3>1, MoveFacts DEF CallTyped
    <3> QED
      BY <2>1, <2>3, <3>2, OneCall
  <2> QED
    BY <1>6, <2>2, <2>3 DEF Enter
<1>7. CASE Advance(p) \/ Breaks(p)
  <2>1. UNCHANGED <<client, gate>> /\ gate[p] = "running" /\ client[p].pc = "holding"
        /\ call[p].pc = "step"
    BY <1>7 DEF Advance, Breaks, AtStep, vars, gateVars, Carried
  <2>2. CASE Goes(p, "leaving")
    BY <2>1, <2>2, GoesFacts, OneCall DEF CallTyped, CallPcs
  <2>3. ASSUME NEW n \in After(call[p].kind, call[p].at), call' = [call EXCEPT ![p].at = n]
        PROVE  Carried' /\ CallTyped'
    <3>1. n \in Int
      BY AfterIsInt
    <3>2. /\ call'[p].pc = "step" /\ CallTyped'
          /\ \A q \in Clients : q # p => call'[q] = call[q]
      BY <2>1, <2>3, <3>1, MoveFacts DEF CallTyped
    <3> QED
      BY <2>1, <3>2, OneCall
  <2> QED
    BY <1>7, <2>2, <2>3 DEF Advance, Breaks
<1>8. CASE Leave(p)
  <2>1. /\ call'[p].pc = "returning" /\ CallTyped'
        /\ \A q \in Clients : q # p => call'[q] = call[q]
    BY <1>8, GoesFacts DEF Leave, CallTyped, CallPcs
  <2>2. UNCHANGED gate /\ gate[p] = "running" /\ client'[p].pc = "idle"
    <3>1. client' = [client EXCEPT ![p] = IdleClient]
      BY <1>8 DEF Leave, Release
    <3>2. client'[p].pc = "idle"
      BY <3>1 DEF IdleClient, OwnerAll, PoolInv, TypeOK
    <3> QED
      BY <1>8, <3>2 DEF Leave, gateVars, Carried
  <2>3. Pooled(p) \/ Keeps(p)
    BY <1>8 DEF Leave, Pooled, Keeps, Carried
  <2>4. \A q \in Clients : q # p => client'[q] = client[q]
    BY <2>3, PooledOthers DEF OwnerAll, PoolInv
  <2> QED
    BY <2>1, <2>2, <2>4, OneCall
<1>9. CASE Return(p)
  <2>1. /\ call'[p].pc = "idle" /\ CallTyped'
        /\ \A q \in Clients : q # p => call'[q] = call[q]
    BY <1>9 DEF Return, IdleCall, EngineTypes, CallTyped, CallPcs, Kinds
  <2>2. UNCHANGED client /\ client[p].pc = "idle"
    BY <1>9 DEF Return, vars, Carried
  <2>3. \A q \in Clients : q # p /\ gate[q] = "running" => gate'[q] = "running"
    BY <1>9, ReleaseFacts DEF Return
  <2> QED
    BY <2>1, <2>2, <2>3, OneCall
<1> QED
  BY <1>1, <1>2, <1>3, <1>4, <1>5, <1>6, <1>7, <1>8, <1>9 DEF CallStep

LEMMA EngineCarried ==
    ASSUME EngineInv, Sem!SemInv, [NextEngine]_allVars
    PROVE  Carried' /\ CallTyped'
<1>1. CASE \/ \E i \in Images : Start(i)
           \/ Stop \/ Background \/ UNCHANGED allVars
  <2>1. UNCHANGED <<call, gate>>
    BY <1>1 DEF Start, Stop, Background, allVars, engineVars, gateVars
  <2>2. UNCHANGED client
    <3>1. Alone \/ UNCHANGED client
      BY <1>1 DEF Start, Stop, Background, Alone, allVars, vars
    <3> QED
      BY <3>1, AloneOthers
  <2> QED
    BY <2>1, <2>2 DEF EngineInv, Carried, EngineTypes, CallTyped
<1> QED
  BY <1>1, CallCarried DEF NextEngine

\* What runs in containers is always the processes of calls.
LEMMA EngineProcs ==
    ASSUME EngineInv, [NextEngine]_allVars
    PROVE  procs' \in [Containers -> SUBSET Clients]
<1>1. procs \in [Containers -> SUBSET Clients]
  BY DEF EngineInv, EngineTypes
<1>2. KillsCleaned => procs' \in [Containers -> SUBSET Clients]
  BY <1>1 DEF KillsCleaned
<1>3. ASSUME NEW p \in Clients, MayLeaveProcesses(p)
      PROVE  procs' \in [Containers -> SUBSET Clients]
  BY <1>1, <1>3 DEF MayLeaveProcesses
<1>4. ASSUME NEW p \in Clients, CallStep(p)
      PROVE  procs' \in [Containers -> SUBSET Clients]
  BY <1>1, <1>2, <1>3, <1>4 DEF CallStep, Begin, Fetched, Resolved, ResolveThrows, PoolGoesOn,
     Enter, Advance, Breaks, Leave, Return
<1>5. CASE \/ \E p \in Clients, k \in Kinds : Call(p, k)
           \/ \E i \in Images : Start(i)
           \/ Stop \/ UNCHANGED allVars
  BY <1>1, <1>5 DEF Call, Start, Stop, allVars, engineVars
<1>6. CASE Background
  BY <1>2, <1>6 DEF Background
<1> QED
  BY <1>4, <1>5, <1>6 DEF NextEngine

\* Calls begin while the engine is not being stopped, and it is stopped while
\* there are none.
LEMMA EngineStopped ==
    ASSUME EngineInv, [NextEngine]_allVars
    PROVE  Stopped'
<1>1. ASSUME NEW p \in Clients, CallStep(p) PROVE drain' = "no"
  <2>1. call[p].pc # "idle"
    BY <1>1 DEF CallStep, Begin, Fetched, Resolved, ResolveThrows, PoolGoesOn, Enter, Advance,
                AtStep, Breaks, Leave, Return
  <2>2. drain = "no"
    BY <2>1 DEF EngineInv, Stopped
  <2>3. UNCHANGED vars \/ Pooled(p) \/ Keeps(p)
    BY <1>1 DEF CallStep, Begin, Fetched, Resolved, ResolveThrows, PoolGoesOn, Enter, Advance,
                Breaks, Leave, Return, Pooled, Keeps, EngineInv, Carried
  <2> QED
    BY <2>2, <2>3, PooledOthers DEF vars, EngineInv, OwnerAll, PoolInv
<1>2. ASSUME NEW p \in Clients, NEW k \in Kinds, Call(p, k) PROVE drain' = "no"
  BY <1>2 DEF Call, vars
<1>3. CASE \/ \E i \in Images : Start(i)
           \/ Background \/ UNCHANGED allVars
  <2>1. UNCHANGED call
    BY <1>3 DEF Start, Background, allVars, engineVars
  <2>2. drain' = drain \/ drain # "no"
    BY <1>3 DEF Start, Background, allVars, vars, Warm, TickStart, TickCleaned, Replenished,
                ReplenishThrows, JobEnds, Warmed, WarmThrows, DrainRemoves, DrainClears
  <2> QED
    BY <2>1, <2>2 DEF EngineInv, Stopped
<1>4. CASE Stop
  BY <1>4 DEF Stop, Stopped, engineVars
<1> QED
  BY <1>1, <1>2, <1>3, <1>4 DEF NextEngine, Stopped

\* Every step of the engine preserves the invariant.
LEMMA StepEngine ==
    ASSUME EngineInv, Sem!SemInv, [NextEngine]_allVars
    PROVE  EngineInv'
  BY EngineOwner, EngineKept, EngineCarried, EngineProcs, EngineStopped
  DEF EngineInv, EngineTypes, CallTyped

LEMMA StartEngine == InitEngine => EngineInv /\ Sem!Init
<1> SUFFICES ASSUME InitEngine PROVE EngineInv /\ Sem!Init
  OBVIOUS
<1>1. Init /\ OwnerAll
  BY InitTyped, InitOwner DEF InitEngine, OwnerAll, Init, IdleTick, Linked
<1>2. Sem!Init
  BY DEF InitEngine, Gate!Init, Sem!Init
<1>3. LivePlaced
  BY <1>1, NoneAssumption DEF Init, LivePlaced, Nowhere, IdleClient, IdleTick, In
<1>4. EngineTypes /\ KeptApart
  BY DEF InitEngine, EngineTypes, KeptApart, IdleCall, CallPcs, Kinds
<1>5. Carried /\ Stopped
  BY <1>1 DEF InitEngine, Init, Carried, Stopped, IdleCall, IdleClient
<1> QED
  BY <1>1, <1>2, <1>3, <1>4, <1>5 DEF EngineInv
-----------------------------------------------------------------------------
\* A step of the engine is a step of the semaphore's class, or leaves it alone.
LEMMA GateSteps ==
    ASSUME [NextEngine]_allVars
    PROVE  [Sem!Next]_(Sem!vars)
<1>1. ASSUME NEW p \in Clients, NEW k \in Kinds, Call(p, k) PROVE Sem!Acquire(p)
  BY <1>1, SameGate DEF Call
<1>2. ASSUME NEW p \in Clients, Begin(p) PROVE Sem!Resume(p)
  BY <1>2, SameGate DEF Begin
<1>3. ASSUME NEW p \in Clients, Return(p) PROVE Sem!Release(p)
  BY <1>3, SameGate DEF Return
<1>4. ASSUME NEW p \in Clients, \/ Fetched(p) \/ Resolved(p) \/ ResolveThrows(p) \/ PoolGoesOn(p)
                                \/ Enter(p) \/ Advance(p) \/ Breaks(p) \/ Leave(p)
      PROVE  UNCHANGED gateVars
  BY <1>4 DEF Fetched, Resolved, ResolveThrows, PoolGoesOn, Enter, Advance, Breaks, Leave
<1>5. (\E i \in Images : Start(i)) \/ Stop \/ Background \/ UNCHANGED allVars
         => UNCHANGED gateVars
  BY DEF Start, Stop, Background, allVars, engineVars
<1> QED
  BY <1>1, <1>2, <1>3, <1>4, <1>5 DEF NextEngine, CallStep, Sem!Next, Sem!vars, gateVars

\* What the semaphore's theorems assume.
LEMMA SemFinite == Sem!IsFiniteSet(Clients)
  BY EngineAssumption DEF Sem!IsFiniteSet, IsFiniteSet

\* The engine uses its semaphore as the class is meant to be used.
LEMMA EngineSemaphore == SpecEngine => Sem!Spec
  BY StartEngine, GateSteps, PTL DEF SpecEngine, Sem!Spec

\* The invariants of the engine and of its semaphore always hold.
THEOREM EngineInvariant == SpecEngine => [](EngineInv /\ Sem!SemInv)
<1>1. SpecEngine => []Sem!SemInv
  BY EngineSemaphore, Sem!SemaphoreInvariant, EngineAssumption, SemFinite, PTL
<1> QED
  BY <1>1, StartEngine, StepEngine, PTL DEF SpecEngine
-----------------------------------------------------------------------------
\* Whoever left processes in a container still has it, or it counts as used, or
\* nobody gets it any more.
Accounted ==
    \A c \in Containers : \A q \in procs[c] :
       \/ c \in used
       \/ c \in kept
       \/ client[q].pc = "holding" /\ client[q].container = c

\* A step that kills what it cleans or removes forgets no process.
LEMMA KillsAccounted ==
    ASSUME EngineInv, Accounted, KillsCleaned, kept \subseteq kept',
           \A q \in Clients : client[q].pc = "holding" =>
              \/ client'[q] = client[q]
              \/ client[q].container \in used' \union kept'
              \/ client[q].container \notin live'
    PROVE  Accounted'
<1> SUFFICES ASSUME NEW c \in Containers, NEW q \in procs'[c]
             PROVE  \/ c \in used'
                    \/ c \in kept'
                    \/ client'[q].pc = "holding" /\ client'[q].container = c
  BY DEF Accounted
<1>1. q \in procs[c] /\ c \in live' /\ (c \in used => c \in used')
  BY DEF KillsCleaned
<1>2. q \in Clients
  BY <1>1 DEF EngineInv, EngineTypes
<1>3. \/ c \in used
      \/ c \in kept
      \/ client[q].pc = "holding" /\ client[q].container = c
  BY <1>1 DEF Accounted
<1> QED
  BY <1>1, <1>2, <1>3

LEMMA EngineAccounted ==
    ASSUME EngineInv, Accounted, [NextEngine]_allVars
    PROVE  Accounted'
<1>1. ASSUME NEW p \in Clients, Resolved(p) \/ PoolGoesOn(p) PROVE Accounted'
  <2>1. Pooled(p) /\ KillsCleaned /\ kept' = kept
    BY <1>1 DEF Resolved, PoolGoesOn, Pooled
  <2>2. client[p].pc # "holding"
    BY <1>1 DEF Resolved, PoolGoesOn, Acquire, AcquireFast, AcquireSecure, CleanedImmediate,
                Recheck, Scrubbed, Created, AcquireThrows
  <2>3. \A q \in Clients : q # p => client'[q] = client[q]
    BY <2>1, PooledOthers DEF EngineInv, OwnerAll, PoolInv
  <2> QED
    BY <2>1, <2>2, <2>3, KillsAccounted
<1>2. ASSUME NEW p \in Clients, Leave(p) PROVE Accounted'
  <2>1. Pooled(p) \/ Keeps(p)
    BY <1>2 DEF Leave, Pooled, Keeps, EngineInv, Carried
  <2>2. \A q \in Clients : q # p => client'[q] = client[q]
    BY <2>1, PooledOthers DEF EngineInv, OwnerAll, PoolInv
  <2>3. \/ client[p].container \in used' \union kept'
        \/ client[p].container \notin live'
    BY <1>2 DEF Leave, Release, Remove
  <2>4. KillsCleaned /\ kept \subseteq kept'
    BY <1>2 DEF Leave
  <2> QED
    BY <2>2, <2>3, <2>4, KillsAccounted
<1>3. ASSUME NEW p \in Clients, Advance(p) \/ Breaks(p) PROVE Accounted'
  <2>1. UNCHANGED <<client, used, kept>> /\ MayLeaveProcesses(p) /\ client[p].pc = "holding"
    BY <1>3 DEF Advance, Breaks, AtStep, vars, EngineInv, Carried
  <2>2. \A c \in Containers : \A q \in procs'[c] :
           q \in procs[c] \/ (q = p /\ c = client[p].container)
    BY <2>1 DEF MayLeaveProcesses, EngineInv, EngineTypes
  <2> QED
    BY <2>1, <2>2 DEF Accounted
<1>4. CASE Background
  <2>1. UNCHANGED client
    BY <1>4, AloneOthers DEF Background, Alone
  <2> QED
    BY <1>4, <2>1, KillsAccounted DEF Background
<1>5. CASE \/ \E p \in Clients : \/ \E k \in Kinds : Call(p, k)
                                 \/ Begin(p) \/ Fetched(p) \/ ResolveThrows(p) \/ Enter(p)
                                 \/ Return(p)
           \/ \E i \in Images : Start(i)
           \/ Stop \/ UNCHANGED allVars
  <2>1. UNCHANGED <<client, used, kept, procs>>
    BY <1>5 DEF Call, Begin, Fetched, ResolveThrows, Enter, Return, Start, Stop, Warm,
                DrainStart, allVars, engineVars, vars, docker
  <2> QED
    BY <2>1 DEF Accounted
<1> QED
  BY <1>1, <1>2, <1>3, <1>4, <1>5 DEF NextEngine, CallStep

LEMMA EngineUntraced ==
    ASSUME EngineInv, Untraced, [NextEngine]_allVars, Strict, ~ExecFails
    PROVE  Untraced'
<1>1. ASSUME NEW p \in Clients, Keeps(p) PROVE Untraced'
  <2>1. UNCHANGED <<clean, used>>
    BY <1>1 DEF Keeps, pools, docker
  <2>2. \A q \in Clients : client'[q] = IF q = p THEN IdleClient ELSE client[q]
    BY <1>1 DEF Keeps, EngineInv, OwnerAll, PoolInv, TypeOK
  <2>3. AddsNoTrace
    BY <2>1, <2>2 DEF AddsNoTrace, IdleClient, Untraced
  <2> QED
    BY <2>3, UntracedStays
<1> QED
  BY <1>1, EngineIsPool, StepUntraced DEF EngineInv

\* In strict mode, with cleanup commands that do their work, no process of another
\* call ever runs in the container of a call, whatever was left running in it when
\* it was given back: by a timeout, an error or a reader of a stream that left.
THEOREM EphemeralNoForeignProcess ==
    ASSUME Strict, ~ExecFails
    PROVE  SpecEngine => []NoForeignProcess
<1>1. InitEngine => Untraced /\ Accounted
  BY DEF InitEngine, Init, Untraced, CleanSlate, IdleClient, In, Accounted
<1>2. EngineInv /\ Untraced /\ Accounted /\ [NextEngine]_allVars => Untraced' /\ Accounted'
  BY EngineUntraced, EngineAccounted
<1>3. EngineInv /\ Untraced /\ Accounted => NoForeignProcess
  <2> SUFFICES ASSUME EngineInv, Untraced, Accounted, NEW p \in Clients, AtStep(p),
                      NEW q \in procs[client[p].container]
               PROVE  q = p
    BY DEF NoForeignProcess
  <2>1. client[p].pc = "holding"
    BY DEF AtStep, EngineInv, Carried
  <2>2. PICK c \in Containers : c = client[p].container
    BY <2>1 DEF EngineInv, OwnerAll, PoolInv, TypeOK, Placed, MaybeContainer
  <2>3. c \notin used
    BY <2>1, <2>2 DEF Untraced, CleanSlate
  <2>4. c \notin kept
    BY <2>2 DEF EngineInv, KeptApart, Nowhere
  <2>5. q \in Clients /\ client[q].container = c
    BY <2>2, <2>3, <2>4 DEF Accounted, EngineInv, EngineTypes
  <2> QED
    BY <2>2, <2>5 DEF EngineInv, OwnerAll, OwnerInv, Single
<1> QED
  BY <1>1, <1>2, <1>3, EngineInvariant, PTL DEF SpecEngine
-----------------------------------------------------------------------------
\* What is in Docker has a place in the pool, or was kept.
KnownOrKept == drain # "done" => \A c \in live \ kept : ~Nowhere(c)

\* In secure mode there are no callbacks.
NoCallback == ~Fast => \A t \in Ticks : tick[t].container = None

\* Once drain() removed what it found, nothing is left but what was kept.
Emptying == ~Fast /\ drain \in {"removing", "done"} => live \subseteq kept

StopInv == KnownOrKept /\ Quieting /\ NoCallback /\ Emptying

LEMMA StepNoCallback ==
    ASSUME NoCallback, [Next]_vars, TypeOK
    PROVE  NoCallback'
<1> SUFFICES ASSUME ~Fast PROVE \A t \in Ticks : tick'[t].container = tick[t].container
  BY DEF NoCallback
<1>1. ASSUME NEW p \in Clients,
             \/ Acquire(p) \/ CleanedImmediate(p) \/ Recheck(p) \/ Scrubbed(p)
             \/ Created(p) \/ AcquireThrows(p) \/ Release(p)
      PROVE  UNCHANGED tick
  BY <1>1 DEF Acquire, AcquireFast, AcquireSecure, CleanedImmediate, Recheck, Scrubbed,
              Created, AcquireThrows, Release
<1>2. ASSUME NEW t \in Ticks, TickStart(t) \/ TickCleaned(t) PROVE FALSE
  BY <1>2 DEF TickStart, TickCleaned, NoCallback
<1>3. ASSUME NEW i \in Images,
             \/ Replenished(i) \/ ReplenishThrows(i) \/ JobEnds(i)
             \/ Warm(i) \/ Warmed(i) \/ WarmThrows(i)
      PROVE  UNCHANGED tick
  BY <1>3 DEF Replenished, ReplenishThrows, JobEnds, Warm, Warmed, WarmThrows
<1>4. CASE DrainClears
  <2>1. \A t \in Ticks : [tick[t] EXCEPT !.pos = 0].container = tick[t].container
    BY DEF TypeOK
  <2> QED
    BY <1>4, <2>1 DEF DrainClears
<1>5. DrainStart \/ DrainRemoves \/ UNCHANGED vars => UNCHANGED tick
  BY DEF DrainStart, DrainRemoves, vars
<1> QED
  BY <1>1, <1>2, <1>3, <1>4, <1>5 DEF Next

LEMMA EngineStops ==
    ASSUME EngineInv, StopInv, [NextEngine]_allVars, "unstarted" \notin Failures, ~StopAnytime
    PROVE  StopInv'
<1>1. CASE [Next]_vars /\ kept' = kept
  <2>1. KnownOrKept'
    <3> SUFFICES ASSUME drain' # "done", NEW c, c \in live', c \notin kept PROVE ~Nowhere(c)'
      BY <1>1 DEF KnownOrKept
    <3> QED
      BY <1>1, DrainGoesOn, StepPlaced DEF StopInv, KnownOrKept, EngineInv
  <2>2. Quieting' /\ NoCallback'
    BY <1>1, StepQuieting, StepNoCallback DEF StopInv, EngineInv, OwnerAll, PoolInv
  <2>3. Emptying'
    <3> SUFFICES ASSUME ~Fast, drain' \in {"removing", "done"}, NEW c, c \in live'
                 PROVE  c \in kept
      BY <1>1 DEF Emptying
    <3>1. CASE drain \in {"removing", "done"}
      BY <1>1, <3>1, NothingMade DEF StopInv, Emptying
    <3>2. CASE drain \notin {"removing", "done"}
      <4>1. DrainRemoves
        BY <1>1, <3>2, DrainBegins
      <4>2. Nowhere(c) \/ \E t \in Ticks : tick[t].container = c
        BY <4>1, DrainMisses DEF StopInv, EngineInv
      <4>3. c \in live /\ c # None
        BY <4>1, NoneAssumption DEF DrainRemoves, Remove, EngineInv, OwnerAll, PoolInv, TypeOK
      <4> QED
        BY <3>2, <4>2, <4>3 DEF StopInv, KnownOrKept, NoCallback
    <3> QED
      BY <3>1, <3>2
  <2> QED
    BY <2>1, <2>2, <2>3 DEF StopInv
<1>2. ASSUME NEW p \in Clients, Keeps(p) PROVE StopInv'
  <2>1. PICK c : c = client[p].container
    OBVIOUS
  <2>2. UNCHANGED <<live, drain, tick>> /\ kept' = kept \union {c}
    BY <1>2, <2>1 DEF Keeps, docker
  <2>3. drain = "no"
    BY <1>2 DEF Keeps, EngineInv, Carried, Stopped
  <2>4. \A d \in Containers \ {c} : Nowhere(d)' <=> Nowhere(d)
    BY <1>2, <2>1, KeepsOwner DEF EngineInv
  <2>5. live \subseteq Containers
    BY DEF EngineInv, OwnerAll, PoolInv, TypeOK
  <2>6. KnownOrKept'
    BY <2>2, <2>4, <2>5 DEF StopInv, KnownOrKept
  <2> QED
    BY <2>2, <2>3, <2>6 DEF StopInv, Quieting, NoCallback, Emptying
<1> QED
  BY <1>1, <1>2, EngineIsPool DEF EngineInv

\* In secure mode stop() leaves nothing of the engine in Docker but what was kept
\* for inspection, provided a container that was created also starts: whatever
\* replenishment was under way when it was called.
THEOREM EphemeralStopLeavesNothing ==
    ASSUME "unstarted" \notin Failures, ~StopAnytime
    PROVE  SpecEngine => []StopLeavesNothing
<1>1. InitEngine => StopInv
  BY DEF InitEngine, Init, StopInv, KnownOrKept, Quieting, NoCallback, IdleTick, Emptying
<1>2. EngineInv /\ StopInv /\ [NextEngine]_allVars => StopInv'
  BY EngineStops
<1>3. StopInv => StopLeavesNothing
  BY DEF StopInv, Emptying, StopLeavesNothing
<1> QED
  BY <1>1, <1>2, <1>3, EngineInvariant, PTL DEF SpecEngine
-----------------------------------------------------------------------------
\* How long the clean lists get in secure mode.  What warm() still waits for is
\* counted with the list; a job that was under way when it began adds one more.
\* Nobody holds or asks for a container meanwhile, and the list of an image
\* that somebody uses is not overfull.
Sizes ==
    /\ \A i \in Images : dirty[i] = <<>>
    /\ \A p \in Clients : client[p].pc \notin {"cleaning", "recheck"}
    /\ \A i \in Images : Len(clean[i]) + warming[i] <= CleanSize + 1
    /\ \A i \in Images : warming[i] > 0 /\ job[i] = "creating"
                            => Len(clean[i]) + warming[i] <= CleanSize
    /\ \A p \in Clients : client[p].pc # "idle" => Len(clean[client[p].image]) <= CleanSize
    /\ \A i \in Images : warming[i] > 0 => \A p \in Clients : call[p].pc = "idle"

\* While a call is under way nothing is being warmed.
LEMMA BusyNotWarming ==
    ASSUME TypeOK, Sizes, NEW p \in Clients, call[p].pc # "idle"
    PROVE  \A i \in Images : warming[i] = 0
<1>1. \A i \in Images : warming[i] \in Nat /\ ~(warming[i] > 0)
  BY DEF TypeOK, Sizes
<1> QED
  BY <1>1

LEMMA LenFacts ==
    ASSUME TypeOK, NEW i \in Images
    PROVE  /\ Len(clean[i]) \in Nat /\ warming[i] \in Nat /\ CleanSize \in Nat
           /\ clean[i] # <<>> => Len(Tail(clean[i])) = Len(clean[i]) - 1
           /\ clean[i] = <<>> => Len(clean[i]) = 0
           /\ \A c \in Containers : Len(Append(clean[i], c)) = Len(clean[i]) + 1
  BY SizeAssumption DEF TypeOK

\* A list that is shifted or pushed to, and the others.
LEMMA ShiftedLen ==
    ASSUME TypeOK, NEW i \in Images, clean[i] # <<>>, clean' = [clean EXCEPT ![i] = Tail(@)]
    PROVE  \A j \in Images : Len(clean'[j]) = IF j = i THEN Len(clean[i]) - 1 ELSE Len(clean[j])
<1>1. Len(Tail(clean[i])) = Len(clean[i]) - 1
  BY LenFacts
<1>2. ASSUME NEW j \in Images, j # i PROVE clean'[j] = clean[j]
  BY <1>2 DEF TypeOK
<1>3. clean'[i] = Tail(clean[i])
  BY DEF TypeOK
<1>4. Len(clean'[i]) = Len(clean[i]) - 1
  BY <1>1, <1>3, Zenon
<1> QED
  BY <1>2, <1>4

LEMMA PushedLen ==
    ASSUME TypeOK, NEW i \in Images, NEW c \in Containers,
           clean' = [clean EXCEPT ![i] = Append(@, c)]
    PROVE  \A j \in Images : Len(clean'[j]) = IF j = i THEN Len(clean[i]) + 1 ELSE Len(clean[j])
<1>1. Len(Append(clean[i], c)) = Len(clean[i]) + 1
  BY LenFacts
<1>2. ASSUME NEW j \in Images, j # i PROVE clean'[j] = clean[j]
  BY <1>2 DEF TypeOK
<1>3. clean'[i] = Append(clean[i], c)
  BY DEF TypeOK
<1>4. Len(clean'[i]) = Len(clean[i]) + 1
  BY <1>1, <1>3, Zenon
<1> QED
  BY <1>2, <1>4

\* A step of one execution, in which no list gets overfull.
LEMMA BusySizes ==
    ASSUME PoolInv, Sizes, UNCHANGED <<dirty, warming>>, \A i \in Images : warming[i] = 0,
           NEW p \in Clients, \A q \in Clients : q # p => client'[q] = client[q],
           client'[p].pc \notin {"cleaning", "recheck"},
           \A i \in Images : /\ Len(clean'[i]) \in Nat
                             /\ \/ Len(clean'[i]) <= Len(clean[i])
                                \/ Len(clean'[i]) <= CleanSize,
           client'[p].pc # "idle" => Len(clean'[client'[p].image]) <= CleanSize
    PROVE  Sizes'
<1>1. \A i \in Images : Len(clean[i]) \in Nat /\ CleanSize \in Nat
  BY LenFacts DEF PoolInv
<1>2. \A i \in Images : Len(clean[i]) <= CleanSize + 1
  BY <1>1 DEF Sizes
<1>3. ASSUME NEW q \in Clients, client'[q].pc # "idle"
      PROVE  Len(clean'[client'[q].image]) <= CleanSize
  <2>1. CASE q # p
    <3>1. client'[q] = client[q] /\ client[q].image \in Images
      BY <1>3, <2>1 DEF PoolInv, Placed
    <3>2. Len(clean[client[q].image]) <= CleanSize
      BY <1>3, <3>1 DEF Sizes
    <3> QED
      BY <1>1, <3>1, <3>2
  <2> QED
    BY <1>3, <2>1
<1>4. \A i \in Images : Len(clean'[i]) + warming'[i] <= CleanSize + 1
  BY <1>1, <1>2
<1>5. \A q \in Clients : client'[q].pc \notin {"cleaning", "recheck"}
  BY DEF Sizes
<1> QED
  BY <1>3, <1>4, <1>5 DEF Sizes

\* A step in which no execution moves.
LEMMA AloneSizes ==
    ASSUME PoolInv, Sizes, UNCHANGED <<client, call>>,
           \A i \in Images :
              /\ dirty'[i] = <<>>
              /\ Len(clean'[i]) + warming'[i] <= CleanSize + 1
              /\ warming'[i] > 0 /\ job'[i] = "creating"
                    => Len(clean'[i]) + warming'[i] <= CleanSize
              /\ \/ Len(clean'[i]) = Len(clean[i])
                 \/ Len(clean'[i]) <= CleanSize
                 \/ \A p \in Clients : client[p].pc = "idle"
              /\ warming'[i] > 0 => warming[i] > 0 \/ \A p \in Clients : call[p].pc = "idle"
    PROVE  Sizes'
<1>1. ASSUME NEW p \in Clients, client[p].pc # "idle"
      PROVE  Len(clean'[client[p].image]) <= CleanSize
  <2>1. client[p].image \in Images /\ Len(clean[client[p].image]) <= CleanSize
    BY <1>1 DEF PoolInv, Placed, Sizes
  <2> QED
    BY <1>1, <2>1
<1>2. \A i \in Images : warming'[i] > 0 => \A p \in Clients : call'[p].pc = "idle"
  BY DEF Sizes
<1> QED
  BY <1>1, <1>2 DEF Sizes

\* What a call does in the pool overfills no list.
LEMMA PooledSizes ==
    ASSUME EngineInv, Sizes, ~Fast, NEW p \in Clients, call[p].pc # "idle",
           Pooled(p) \/ Keeps(p)
    PROVE  Sizes'
<1>1. PoolInv /\ TypeOK
  BY DEF EngineInv, OwnerAll, PoolInv
<1>2. \A i \in Images : warming[i] = 0
  BY <1>1, BusyNotWarming
<1>3. \A q \in Clients : q # p => client'[q] = client[q]
  BY <1>1, PooledOthers
<1>4. \A i \in Images : Len(clean[i]) \in Nat /\ CleanSize \in Nat
  BY <1>1, LenFacts
<1>5. client[p].pc # "idle" => Len(clean[client[p].image]) <= CleanSize
  BY DEF Sizes
<1>6. ASSUME NEW i \in Images, AcquireSecure(p, i) PROVE Sizes'
  <2>1. UNCHANGED <<dirty, warming>>
    BY <1>6 DEF AcquireSecure, pools
  <2>2. CASE clean[i] # <<>>
    <3>1. clean' = [clean EXCEPT ![i] = Tail(@)] /\ Moves(p, "scrubbing", i, Head(clean[i]))
      BY <1>6, <2>2 DEF AcquireSecure
    <3>2. client'[p].pc = "scrubbing" /\ client'[p].image = i
      BY <1>1, <3>1 DEF Moves, TypeOK
    <3>3. \A j \in Images : Len(clean'[j]) = IF j = i THEN Len(clean[i]) - 1 ELSE Len(clean[j])
      BY <1>1, <2>2, <3>1, ShiftedLen
    <3>4. Len(clean[i]) > 0
      BY <1>1, <2>2 DEF TypeOK
    <3>5. Len(clean[i]) + warming[i] <= CleanSize + 1
      BY DEF Sizes
    <3>6. \A j \in Images : Len(clean'[j]) \in Nat /\ Len(clean'[j]) <= Len(clean[j])
      BY <1>4, <3>3, <3>4
    <3>7. Len(clean'[i]) <= CleanSize
      BY <1>2, <1>4, <3>3, <3>5
    <3> QED
      BY <1>1, <1>2, <1>3, <2>1, <3>2, <3>6, <3>7, BusySizes
  <2>3. CASE clean[i] = <<>>
    <3>1. clean' = clean /\ Moves(p, "creating", i, None)
      BY <1>6, <2>3 DEF AcquireSecure, pools
    <3>2. client'[p].pc = "creating" /\ client'[p].image = i
      BY <1>1, <3>1 DEF Moves, TypeOK
    <3>3. Len(clean[i]) = 0
      BY <2>3
    <3>4. Len(clean'[i]) <= CleanSize
      BY <1>4, <3>1, <3>3
    <3> QED
      BY <1>1, <1>2, <1>3, <1>4, <2>1, <3>1, <3>2, <3>4, BusySizes
  <2> QED
    BY <2>2, <2>3
<1>7. CASE CleanedImmediate(p) \/ Recheck(p)
  BY <1>7 DEF CleanedImmediate, Recheck, Sizes
<1>8. CASE Scrubbed(p)
  <2>1. UNCHANGED <<clean, dirty, warming>>
    BY <1>8 DEF Scrubbed, pools
  <2>2. client[p].pc # "idle" /\ client'[p].pc = "holding" /\ client'[p].image = client[p].image
    BY <1>1, <1>8 DEF Scrubbed, TypeOK
  <2> QED
    BY <1>1, <1>2, <1>3, <1>4, <1>5, <2>1, <2>2, BusySizes
<1>9. CASE Created(p)
  <2>1. UNCHANGED <<clean, dirty, warming>>
    BY <1>9 DEF Created, pools
  <2>2. client[p].pc # "idle" /\ client'[p].pc = "holding" /\ client'[p].image = client[p].image
    BY <1>1, <1>9 DEF Created, Moves, TypeOK
  <2> QED
    BY <1>1, <1>2, <1>3, <1>4, <1>5, <2>1, <2>2, BusySizes
<1>10. CASE AcquireThrows(p) \/ Keeps(p)
  <2>1. UNCHANGED <<clean, dirty, warming>>
    BY <1>10 DEF AcquireThrows, Keeps, pools
  <2>2. client'[p].pc = "idle"
    BY <1>1, <1>10 DEF AcquireThrows, Keeps, IdleClient, TypeOK
  <2> QED
    BY <1>1, <1>2, <1>3, <1>4, <2>1, <2>2, BusySizes
<1>11. CASE Release(p)
  <2>1. UNCHANGED <<dirty, warming>>
    BY <1>11 DEF Release
  <2>2. client'[p].pc = "idle"
    BY <1>1, <1>11 DEF Release, IdleClient, TypeOK
  <2>3. PICK i \in Images, c \in Containers : i = client[p].image /\ c = client[p].container
    BY <1>1, <1>11 DEF Release, PoolInv, TypeOK, Placed, MaybeContainer
  <2>4. CASE clean' = clean
    BY <1>1, <1>2, <1>3, <1>4, <2>1, <2>2, <2>4, BusySizes
  <2>5. CASE Len(clean[i]) < CleanSize /\ clean' = [clean EXCEPT ![i] = Append(@, c)]
    <3>1. \A j \in Images : Len(clean'[j]) = IF j = i THEN Len(clean[i]) + 1 ELSE Len(clean[j])
      BY <1>1, <2>5, PushedLen
    <3>2. \A j \in Images : /\ Len(clean'[j]) \in Nat
                            /\ Len(clean'[j]) <= Len(clean[j]) \/ Len(clean'[j]) <= CleanSize
      BY <1>4, <2>5, <3>1
    <3> QED
      BY <1>1, <1>2, <1>3, <2>1, <2>2, <3>2, BusySizes
  <2> QED
    BY <1>11, <2>3, <2>4, <2>5 DEF Release
<1>12. \A i \in Images : ~AcquireFast(p, i)
  BY DEF AcquireFast
<1> QED
  BY <1>6, <1>7, <1>8, <1>9, <1>10, <1>11, <1>12 DEF Pooled, Acquire

\* Nor do replenishment jobs and warm(), by more than one.
LEMMA JobSizes ==
    ASSUME EngineInv, Sizes, UNCHANGED call, NEW i \in Images,
           \/ Replenished(i) \/ ReplenishThrows(i) \/ JobEnds(i) \/ Warmed(i) \/ WarmThrows(i)
           \/ Warm(i) /\ \A p \in Clients : call[p].pc = "idle"
    PROVE  Sizes'
<1>1. PoolInv /\ TypeOK
  BY DEF EngineInv, OwnerAll, PoolInv
<1>2. \A j \in Images : Len(clean[j]) \in Nat /\ warming[j] \in Nat /\ CleanSize \in Nat
  BY <1>1, LenFacts
<1>3. \A j \in Images : Len(clean[j]) + warming[j] <= CleanSize + 1 /\ dirty[j] = <<>>
  BY DEF Sizes
<1>4. \A j \in Images : warming[j] > 0 /\ job[j] = "creating"
                           => Len(clean[j]) + warming[j] <= CleanSize
  BY DEF Sizes
<1>5. UNCHANGED <<client, dirty>>
  BY DEF Replenished, ReplenishThrows, JobEnds, Warm, Warmed, WarmThrows, pools
<1>6. UNCHANGED clean \/ \E c \in Containers : clean' = [clean EXCEPT ![i] = Append(@, c)]
  BY NewIsFresh, FreshIsContainer
     DEF Replenished, ReplenishThrows, JobEnds, Warm, Warmed, WarmThrows, pools, Create
<1>7. \/ UNCHANGED clean
      \/ \A j \in Images : Len(clean'[j]) = IF j = i THEN Len(clean[i]) + 1 ELSE Len(clean[j])
  BY <1>1, <1>6, PushedLen
<1>8. CASE Replenished(i)
  <2>1. /\ job[i] = "creating" /\ UNCHANGED warming
        /\ \A j \in Images : job'[j] = IF j = i THEN "settled" ELSE job[j]
        /\ UNCHANGED clean \/ Len(clean[i]) < CleanSize
    BY <1>1, <1>8 DEF Replenished, TypeOK
  <2>2. \A j \in Images :
           /\ Len(clean'[j]) + warming'[j] <= CleanSize + 1
           /\ warming'[j] > 0 /\ job'[j] = "creating" => Len(clean'[j]) + warming'[j] <= CleanSize
           /\ Len(clean'[j]) = Len(clean[j]) \/ Len(clean'[j]) <= CleanSize
    <3>1. CASE UNCHANGED clean
      BY <1>3, <1>4, <2>1, <3>1
    <3>2. CASE Len(clean[i]) < CleanSize /\ \A j \in Images :
                  Len(clean'[j]) = IF j = i THEN Len(clean[i]) + 1 ELSE Len(clean[j])
      BY <1>2, <1>3, <1>4, <2>1, <3>2
    <3> QED
      BY <1>7, <2>1, <3>1, <3>2
  <2> QED
    BY <1>1, <1>3, <1>5, <2>1, <2>2, AloneSizes
<1>9. CASE ReplenishThrows(i) \/ JobEnds(i)
  <2>1. /\ UNCHANGED <<clean, warming>>
        /\ \A j \in Images : job'[j] = "creating" => job[j] = "creating"
    BY <1>1, <1>9 DEF ReplenishThrows, JobEnds, pools, TypeOK
  <2> QED
    BY <1>1, <1>3, <1>4, <1>5, <2>1, AloneSizes
<1>10. CASE WarmThrows(i) \/ (Warmed(i) /\ UNCHANGED clean)
  <2>1. /\ UNCHANGED <<clean, job>> /\ warming[i] > 0
        /\ \A j \in Images : warming'[j] = IF j = i THEN warming[i] - 1 ELSE warming[j]
    BY <1>1, <1>10 DEF WarmThrows, Warmed, pools, TypeOK
  <2>2. \A j \in Images :
           /\ Len(clean'[j]) + warming'[j] <= CleanSize + 1
           /\ warming'[j] > 0 /\ job'[j] = "creating" => Len(clean'[j]) + warming'[j] <= CleanSize
           /\ Len(clean'[j]) = Len(clean[j])
           /\ warming'[j] > 0 => warming[j] > 0
    BY <1>2, <1>3, <1>4, <2>1
  <2> QED
    BY <1>1, <1>3, <1>5, <2>2, AloneSizes
<1>11. CASE Warmed(i) /\ ~UNCHANGED clean
  <2>1. /\ UNCHANGED job /\ warming[i] > 0
        /\ \A j \in Images : warming'[j] = IF j = i THEN warming[i] - 1 ELSE warming[j]
    BY <1>1, <1>11 DEF Warmed, TypeOK
  <2>2. \A j \in Images : Len(clean'[j]) = IF j = i THEN Len(clean[i]) + 1 ELSE Len(clean[j])
    BY <1>7, <1>11
  <2>3. \A j \in Images :
           /\ Len(clean'[j]) + warming'[j] <= CleanSize + 1
           /\ warming'[j] > 0 /\ job'[j] = "creating" => Len(clean'[j]) + warming'[j] <= CleanSize
           /\ warming'[j] > 0 => warming[j] > 0
    BY <1>2, <1>3, <1>4, <2>1, <2>2
  <2>4. \A p \in Clients : client[p].pc = "idle"
    BY <2>1 DEF Sizes, EngineInv, Carried
  <2> QED
    BY <1>1, <1>3, <1>5, <2>3, <2>4, AloneSizes
<1>12. CASE Warm(i) /\ \A p \in Clients : call[p].pc = "idle"
  <2>1. /\ UNCHANGED <<clean, job>>
        /\ \A j \in Images : warming'[j] =
              IF j = i THEN (IF Len(clean[i]) < CleanSize THEN CleanSize - Len(clean[i]) ELSE 0)
              ELSE warming[j]
    BY <1>1, <1>12 DEF Warm, TypeOK
  <2>2. \A j \in Images :
           /\ Len(clean'[j]) + warming'[j] <= CleanSize + 1
           /\ warming'[j] > 0 /\ job'[j] = "creating" => Len(clean'[j]) + warming'[j] <= CleanSize
           /\ Len(clean'[j]) = Len(clean[j])
    BY <1>2, <1>3, <1>4, <2>1
  <2> QED
    BY <1>1, <1>3, <1>5, <1>12, <2>2, AloneSizes
<1> QED
  BY <1>8, <1>9, <1>10, <1>11, <1>12

\* Nor does any step of the engine.
LEMMA EngineSizes ==
    ASSUME EngineInv, StopInv, Sizes, ~Fast, [NextEngine]_allVars
    PROVE  Sizes'
<1>1. PoolInv /\ TypeOK
  BY DEF EngineInv, OwnerAll, PoolInv
<1>2. \A i \in Images : /\ Len(clean[i]) \in Nat /\ warming[i] \in Nat /\ CleanSize \in Nat
                        /\ Len(clean[i]) + warming[i] <= CleanSize + 1 /\ dirty[i] = <<>>
  BY <1>1, LenFacts DEF Sizes
<1>3. ASSUME NEW p \in Clients, NEW k \in Kinds, Call(p, k) PROVE Sizes'
  <2>1. UNCHANGED vars /\ \A i \in Images : warming[i] = 0
    BY <1>3 DEF Call
  <2>2. \A i \in Images : ~(warming'[i] > 0)
    BY <2>1 DEF vars
  <2> QED
    BY <2>1, <2>2 DEF vars, Sizes
<1>4. ASSUME NEW p \in Clients, CallStep(p) PROVE Sizes'
  <2>1. call[p].pc # "idle"
    BY <1>4 DEF CallStep, Begin, Fetched, Resolved, ResolveThrows, PoolGoesOn, Enter,
                Advance, AtStep, Breaks, Leave, Return
  <2>2. CASE Resolved(p) \/ PoolGoesOn(p) \/ Leave(p)
    <3>1. Pooled(p) \/ Keeps(p)
      BY <2>2 DEF Resolved, PoolGoesOn, Leave, Pooled, Keeps, EngineInv, Carried
    <3> QED
      BY <2>1, <3>1, PooledSizes
  <2>3. CASE Begin(p) \/ Fetched(p) \/ ResolveThrows(p) \/ Enter(p)
                \/ Advance(p) \/ Breaks(p) \/ Return(p)
    <3>1. UNCHANGED vars
      BY <2>3 DEF Begin, Fetched, ResolveThrows, Enter, Advance, Breaks, Return
    <3>2. \A i \in Images : warming[i] = 0
      BY <1>1, <2>1, BusyNotWarming
    <3>3. \A i \in Images : ~(warming'[i] > 0)
      BY <3>1, <3>2 DEF vars
    <3> QED
      BY <3>1, <3>3 DEF vars, Sizes
  <2> QED
    BY <1>4, <2>2, <2>3 DEF CallStep
<1>5. ASSUME NEW i \in Images, Start(i) PROVE Sizes'
  <2>1. Warm(i) /\ UNCHANGED call /\ \A p \in Clients : call[p].pc = "idle"
    BY <1>5 DEF Start, engineVars, IdleCall
  <2> QED
    BY <2>1, JobSizes
<1>6. CASE Stop \/ UNCHANGED allVars
  BY <1>6 DEF Stop, DrainStart, pools, allVars, engineVars, vars, Sizes
<1>7. CASE Background
  <2>1. UNCHANGED call
    BY <1>7 DEF Background
  <2>2. ASSUME NEW t \in Ticks, TickStart(t) \/ TickCleaned(t) PROVE FALSE
    BY <2>2 DEF TickStart, TickCleaned, StopInv, NoCallback
  <2>3. ASSUME NEW i \in Images, \/ Replenished(i) \/ ReplenishThrows(i) \/ JobEnds(i)
                                 \/ Warmed(i) \/ WarmThrows(i)
        PROVE  Sizes'
    BY <2>1, <2>3, JobSizes
  <2>4. CASE DrainRemoves
    BY <2>1, <2>4 DEF DrainRemoves, pools, Sizes
  <2>5. CASE DrainClears
    <3>1. UNCHANGED <<client, job, warming>>
          /\ \A i \in Images : clean'[i] = <<>> /\ dirty'[i] = <<>>
      BY <2>5 DEF DrainClears
    <3>2. \A i \in Images : Len(clean'[i]) = 0
      BY <3>1
    <3>3. \A p \in Clients : client[p].pc = "idle"
      BY <2>5 DEF DrainClears, StopInv, Quieting, Quiet
    <3>4. \A i \in Images : warming[i] = 0
      BY <2>5 DEF DrainClears, StopInv, Quieting, Quiet
    <3>5. \A i \in Images : Len(clean'[i]) + warming'[i] <= CleanSize + 1 /\ ~(warming'[i] > 0)
      BY <1>2, <3>1, <3>2, <3>4
    <3> QED
      BY <3>1, <3>3, <3>5 DEF Sizes
  <2> QED
    BY <1>7, <2>2, <2>3, <2>4, <2>5 DEF Background
<1> QED
  BY <1>3, <1>4, <1>5, <1>6, <1>7 DEF NextEngine

LEMMA InitSizes == InitEngine => Sizes
<1> SUFFICES ASSUME InitEngine PROVE Sizes
  OBVIOUS
<1>1. \A i \in Images : clean[i] = <<>> /\ dirty[i] = <<>> /\ warming[i] = 0
  BY DEF InitEngine, Init
<1>2. \A i \in Images : Len(clean[i]) + warming[i] <= CleanSize + 1 /\ ~(warming[i] > 0)
  BY <1>1, SizeAssumption
<1>3. \A p \in Clients : client[p].pc = "idle"
  BY DEF InitEngine, Init, IdleClient
<1> QED
  BY <1>1, <1>2, <1>3 DEF Sizes
-----------------------------------------------------------------------------
\* The places of the clean lists, the one too many included; those left once one
\* is known to be free; and the containers that executions have.
Slots == Images \X (1..CleanSize + 1)
SlotsBut(i) == Slots \ {<<i, CleanSize + 1>>}
Held == {client[p].container : p \in Clients} \ {None}

LEMMA SlotCount ==
    /\ IsFiniteSet(Slots) /\ Cardinality(Slots) \in Nat
    /\ Cardinality(Slots) = Cardinality(Images) * (CleanSize + 1)
    /\ \A i \in Images : /\ IsFiniteSet(SlotsBut(i)) /\ Cardinality(SlotsBut(i)) \in Nat
                         /\ Cardinality(SlotsBut(i)) = Cardinality(Slots) - 1
<1>1. IsFiniteSet(1..CleanSize + 1) /\ Cardinality(1..CleanSize + 1) = CleanSize + 1
  <2>1. CleanSize + 1 \in Int /\ ~(1 > CleanSize + 1) /\ CleanSize + 1 - 1 + 1 = CleanSize + 1
    BY SizeAssumption
  <2>2. 1 \in Int
    OBVIOUS
  <2> QED
    BY <2>1, <2>2, FS_Interval
<1>2. IsFiniteSet(Slots) /\ Cardinality(Slots) = Cardinality(Images) * (CleanSize + 1)
  BY <1>1, EngineAssumption, FS_Product DEF Slots
<1>3. Cardinality(Slots) \in Nat
  BY <1>2, FS_CardinalityType
<1>4. ASSUME NEW i \in Images
      PROVE  /\ IsFiniteSet(SlotsBut(i)) /\ Cardinality(SlotsBut(i)) \in Nat
             /\ Cardinality(SlotsBut(i)) = Cardinality(Slots) - 1
  <2>1. <<i, CleanSize + 1>> \in Slots
    BY SizeAssumption DEF Slots
  <2>2. IsFiniteSet(SlotsBut(i)) /\ Cardinality(SlotsBut(i)) = Cardinality(Slots) - 1
    BY <1>2, <2>1, FS_RemoveElement DEF SlotsBut
  <2> QED
    BY <2>2, FS_CardinalityType
<1> QED
  BY <1>2, <1>3, <1>4

\* The containers in the lists are no more than the places they are in.
LEMMA ListedCount ==
    ASSUME PoolInv, Sizes, NEW P, IsFiniteSet(P),
           \A i \in Images : \A n \in DOMAIN clean[i] : <<i, n>> \in P
    PROVE  IsFiniteSet(Listed) /\ Cardinality(Listed) <= Cardinality(P)
<1> DEFINE place == [c \in Listed |->
                       CHOOSE s \in P : s[1] \in Images /\ clean[s[1]][s[2]] = c]
<1>1. ASSUME NEW c \in Listed
      PROVE  \E s \in P : s[1] \in Images /\ clean[s[1]][s[2]] = c
  <2>1. PICK i \in Images : \E n \in DOMAIN clean[i] : clean[i][n] = c
    BY DEF Listed, Sizes
  <2>2. PICK n \in DOMAIN clean[i] : clean[i][n] = c
    BY <2>1
  <2> QED
    BY <2>2
<1>2. \A c \in Listed : place[c] \in P /\ clean[place[c][1]][place[c][2]] = c
  BY <1>1
<1>3. place \in [Listed -> P]
  BY <1>2
<1> HIDE DEF place
<1>4. place \in Injection(Listed, P)
  BY <1>2, <1>3 DEF Injection, IsInjective
<1> QED
  BY <1>4, FS_Injection

\* Where the lists may have what they hold.
LEMMA ListedPlaces ==
    ASSUME PoolInv, Sizes, NEW i \in Images, NEW n \in DOMAIN clean[i]
    PROVE  /\ <<i, n>> \in Slots
           /\ \A p \in Clients : client[p].pc # "idle" => <<i, n>> \in SlotsBut(client[p].image)
<1>1. Len(clean[i]) \in Nat /\ warming[i] \in Nat /\ CleanSize \in Nat /\ n \in 1..Len(clean[i])
  BY LenFacts DEF PoolInv, TypeOK
<1>2. n \in 1..CleanSize + 1
  BY <1>1 DEF Sizes
<1>3. ASSUME NEW p \in Clients, client[p].pc # "idle", client[p].image = i
      PROVE  n # CleanSize + 1
  <2>1. Len(clean[i]) <= CleanSize
    BY <1>3 DEF Sizes
  <2> QED
    BY <1>1, <2>1
<1>4. <<i, n>> \in Slots
  BY <1>2 DEF Slots
<1> QED
  BY <1>3, <1>4 DEF SlotsBut

\* Whoever has a container has a permit.
LEMMA HeldCount ==
    ASSUME EngineInv, Sem!SemInv
    PROVE  IsFiniteSet(Held) /\ Cardinality(Held) \in Nat /\ Cardinality(Held) <= MaxConcurrent
<1> DEFINE holder == [c \in Held |-> CHOOSE p \in Sem!Owners : client[p].container = c]
<1>1. ASSUME NEW c \in Held PROVE \E p \in Sem!Owners : client[p].container = c
  <2>1. PICK p \in Clients : client[p].container = c /\ c # None
    BY DEF Held
  <2>2. client[p].pc # "idle"
    BY <2>1 DEF EngineInv, OwnerAll, PoolInv, Placed
  <2>3. gate[p] = "running"
    BY <2>2 DEF EngineInv, Carried
  <2> QED
    BY <2>1, <2>3 DEF Sem!Owners
<1>2. \A c \in Held : holder[c] \in Sem!Owners /\ client[holder[c]].container = c
  BY <1>1
<1>3. holder \in [Held -> Sem!Owners]
  BY <1>2
<1> HIDE DEF holder
<1>4. holder \in Injection(Held, Sem!Owners)
  BY <1>2, <1>3 DEF Injection, IsInjective
<1>5. IsFiniteSet(Sem!Owners)
  BY EngineAssumption, FS_Subset DEF Sem!Owners
<1>6. IsFiniteSet(Held) /\ Cardinality(Held) <= Cardinality(Sem!Owners)
  BY <1>4, <1>5, FS_Injection
<1>7. Sem!Cardinality(Sem!Owners) <= MaxConcurrent
  BY DEF Sem!SemInv, Sem!Accounting
<1>8. Sem!Cardinality(Sem!Owners) = Cardinality(Sem!Owners)
  BY DEF Sem!Cardinality, Cardinality
<1>9. Cardinality(Held) \in Nat /\ Cardinality(Sem!Owners) \in Nat
  BY <1>5, <1>6, FS_CardinalityType
<1> QED
  BY <1>6, <1>7, <1>8, <1>9, EngineAssumption

\* While the pool is not emptied, what is in Docker is in a list or in use.
LEMMA LiveWhere ==
    ASSUME PoolInv, StopInv, ~Fast, drain # "done"
    PROVE  live \ kept \subseteq Listed \union Held
<1> SUFFICES ASSUME NEW c \in live \ kept, c \notin Listed PROVE c \in Held
  OBVIOUS
<1>1. c \in Containers /\ c # None /\ ~Nowhere(c)
  BY NoneAssumption DEF PoolInv, TypeOK, StopInv, KnownOrKept
<1>2. \A i \in Images : ~In(c, clean[i]) /\ ~In(c, dirty[i])
  BY <1>1 DEF Listed, In
<1>3. \A t \in Ticks : tick[t].container # c
  BY <1>1 DEF StopInv, NoCallback
<1> QED
  BY <1>1, <1>2, <1>3 DEF Nowhere, Held

\* The bound, by the places in the lists and the permits.
LEMMA Bounded ==
    ASSUME EngineInv, Sem!SemInv, StopInv, Sizes
    PROVE  BoundedContainers
<1> DEFINE extra == live \ kept
           slots == Cardinality(Images) * (CleanSize + 1)
<1> SUFFICES ASSUME ~Fast PROVE Cardinality(extra) < MaxConcurrent + slots
  BY DEF BoundedContainers
<1>1. PoolInv
  BY DEF EngineInv, OwnerAll
<1>2. slots \in Nat /\ Cardinality(Slots) = slots
  BY SlotCount
<1>3. MaxConcurrent \in Nat /\ MaxConcurrent > 0
  BY EngineAssumption
<1>4. CASE drain = "done"
  <2>1. extra = {}
    BY <1>4 DEF StopInv, Emptying
  <2>2. Cardinality(extra) = 0
    BY <2>1, FS_EmptySet
  <2> QED
    BY <1>2, <1>3, <2>2
<1>5. CASE drain # "done"
  <2>1. extra \subseteq Listed \union Held
    BY <1>1, <1>5, LiveWhere
  <2>2. IsFiniteSet(Held) /\ Cardinality(Held) \in Nat /\ Cardinality(Held) <= MaxConcurrent
    BY HeldCount
  <2>3. CASE Held = {}
    <3>1. IsFiniteSet(Listed) /\ Cardinality(Listed) <= Cardinality(Slots)
      BY <1>1, SlotCount, ListedPlaces, ListedCount
    <3>2. extra \in SUBSET Listed
      BY <2>1, <2>3
    <3>3. IsFiniteSet(extra) /\ Cardinality(extra) <= Cardinality(Listed)
      BY <3>1, <3>2, FS_Subset
    <3>4. Cardinality(extra) \in Nat /\ Cardinality(Listed) \in Nat
      BY <3>1, <3>3, FS_CardinalityType
    <3> QED
      BY <1>2, <1>3, <3>1, <3>3, <3>4
  <2>4. CASE Held # {}
    <3>1. PICK p \in Clients : client[p].container # None
      BY <2>4 DEF Held
    <3>2. client[p].pc # "idle" /\ client[p].image \in Images
      BY <1>1, <3>1 DEF PoolInv, Placed
    <3>3. IsFiniteSet(Listed) /\ Cardinality(Listed) <= Cardinality(SlotsBut(client[p].image))
      BY <1>1, <3>2, SlotCount, ListedPlaces, ListedCount
    <3>4. Cardinality(SlotsBut(client[p].image)) = Cardinality(Slots) - 1
      BY <3>2, SlotCount
    <3>5. Cardinality(Listed) \in Nat
      BY <3>3, FS_CardinalityType
    <3>6. /\ IsFiniteSet(Listed \union Held)
          /\ Cardinality(Listed \union Held) <= Cardinality(Listed) + Cardinality(Held)
      <4>1. IsFiniteSet(Listed \intersect Held)
        BY <3>3, FS_Intersection
      <4>2. Cardinality(Listed \intersect Held) \in Nat
        BY <4>1, FS_CardinalityType
      <4>3. /\ IsFiniteSet(Listed \union Held)
            /\ Cardinality(Listed \union Held)
                  = Cardinality(Listed) + Cardinality(Held) - Cardinality(Listed \intersect Held)
        BY <2>2, <3>3, FS_Union
      <4> QED
        BY <2>2, <3>5, <4>2, <4>3
    <3>7. extra \in SUBSET (Listed \union Held)
      BY <2>1
    <3>8. IsFiniteSet(extra) /\ Cardinality(extra) <= Cardinality(Listed \union Held)
      BY <3>6, <3>7, FS_Subset
    <3>9. Cardinality(extra) \in Nat /\ Cardinality(Listed \union Held) \in Nat
      BY <3>6, <3>8, FS_CardinalityType
    <3> HIDE DEF extra, slots
    <3> QED
      BY <1>2, <1>3, <2>2, <3>3, <3>4, <3>5, <3>6, <3>8, <3>9
  <2> QED
    BY <2>3, <2>4
<1> QED
  BY <1>4, <1>5

\* In secure mode an engine has, besides what it keeps for inspection, fewer
\* containers in Docker than its permits and CleanSize + 1 for each image, provided
\* a container that was created also starts: a container is given back before the
\* permit, warm() runs before the calls, and a job looks again before it pushes.
THEOREM EphemeralBoundedContainers ==
    ASSUME "unstarted" \notin Failures, ~StopAnytime
    PROVE  SpecEngine => []BoundedContainers
<1>1. InitEngine => StopInv /\ Sizes
  BY InitSizes
  DEF InitEngine, Init, StopInv, KnownOrKept, Quieting, NoCallback, IdleTick, Emptying
<1>2. EngineInv /\ StopInv /\ (~Fast => Sizes) /\ [NextEngine]_allVars
         => StopInv' /\ (~Fast => Sizes)'
  BY EngineStops, EngineSizes
<1>3. EngineInv /\ Sem!SemInv /\ StopInv /\ (~Fast => Sizes) => BoundedContainers
  BY Bounded DEF BoundedContainers
<1> QED
  BY <1>1, <1>2, <1>3, EngineInvariant, PTL DEF SpecEngine
=============================================================================
