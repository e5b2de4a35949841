-------------------------- MODULE SemaphoreProofs --------------------------
(***************************************************************************)
(* The semaphore for every finite set of callers and every number of       *)
(* permits.  Accounting ties the counter and the resolver queue to what    *)
(* the callers believe; it is inductive together with the type invariant,  *)
(* the bound on the counter and WorkConserving.  The other properties      *)
(* follow from that invariant, so does every step of the refinement.       *)
(***************************************************************************)
EXTENDS Semaphore, FiniteSetTheorems, TLAPS

\* The inductive invariant.
SemInv == /\ TypeOK
          /\ Accounting
          /\ WorkConserving
          /\ current <= Max

-----------------------------------------------------------------------------
LEMMA OwnersFinite == IsFiniteSet(Owners) /\ Cardinality(Owners) \in Nat
<1>1. Owners \in SUBSET Callers
  BY DEF Owners
<1>2. IsFiniteSet(Owners)
  BY <1>1, CallersAssumption, FS_Subset
<1> QED  BY <1>2, FS_CardinalityType

\* A caller that owns a permit keeps the counter above zero.
LEMMA OwnerCounts ==
  ASSUME SemInv, NEW c \in Owners PROVE current > 0
<1>1. Cardinality(Owners) # 0
  BY OwnersFinite, FS_EmptySet
<1> QED  BY <1>1, OwnersFinite DEF SemInv, Accounting

LEMMA InitInv == Init => SemInv
<1> SUFFICES ASSUME Init PROVE SemInv
  OBVIOUS
<1>1. TypeOK
  BY DEF Init, TypeOK, States
<1>2. Owners = {}
  BY DEF Init, Owners
<1>3. Accounting
  BY <1>2, FS_EmptySet DEF Init, Accounting
<1> QED
  BY <1>1, <1>3, MaxAssumption DEF Init, SemInv, WorkConserving

LEMMA AcquireInv ==
  ASSUME SemInv, NEW c \in Callers, Acquire(c) PROVE SemInv'
<1> USE MaxAssumption DEF SemInv, TypeOK, States
<1>1. CASE current < Max /\ pc' = [pc EXCEPT ![c] = "granted"]
                         /\ current' = current + 1 /\ queue' = queue
  <2>1. Owners' = Owners \union {c}
    BY <1>1 DEF Owners
  <2>2. c \notin Owners
    BY DEF Acquire, Owners
  <2>3. current' = Cardinality(Owners)'
    BY <1>1, <2>1, <2>2, OwnersFinite, FS_AddElement DEF Accounting
  <2>4. \A d \in Callers : pc'[d] = "queued" <=> pc[d] = "queued"
    BY <1>1 DEF Acquire
  <2>5. Accounting'
    BY <1>1, <2>3, <2>4 DEF Accounting
  <2>6. WorkConserving'
    BY <1>1 DEF WorkConserving
  <2> QED  BY <1>1, <2>5, <2>6
<1>2. CASE ~(current < Max) /\ queue' = Append(queue, c) /\ current' = current
                            /\ pc' = [pc EXCEPT ![c] = "queued"]
  <2>1. Owners' = Owners
    BY <1>2 DEF Owners, Acquire
  <2>2. /\ Len(queue') = Len(queue) + 1
        /\ \A i \in 1..Len(queue') :
              queue'[i] = IF i <= Len(queue) THEN queue[i] ELSE c
    BY <1>2
  <2>3. \A i \in 1..Len(queue) : queue[i] # c
    BY DEF Acquire, Accounting
  <2>4. \A d \in Callers :
           pc'[d] = "queued" <=> \E i \in 1..Len(queue') : queue'[i] = d
    <3> SUFFICES ASSUME NEW d \in Callers
                 PROVE  pc'[d] = "queued" <=> \E i \in 1..Len(queue') : queue'[i] = d
      OBVIOUS
    <3>1. CASE d = c
      <4>1. queue'[Len(queue')] = d /\ Len(queue') \in 1..Len(queue')
        BY <2>2, <3>1
      <4> QED  BY <4>1, <1>2, <3>1
    <3>2. CASE d # c
      <4>1. pc'[d] = "queued" <=> \E i \in 1..Len(queue) : queue[i] = d
        BY <1>2, <3>2 DEF Accounting
      <4> QED  BY <4>1, <2>2, <3>2
    <3> QED  BY <3>1, <3>2
  <2>5. \A i, j \in 1..Len(queue') : queue'[i] = queue'[j] => i = j
    BY <2>2, <2>3 DEF Accounting
  <2>6. Accounting'
    BY <1>2, <2>1, <2>4, <2>5 DEF Accounting
  <2>7. WorkConserving'
    BY <1>2 DEF WorkConserving
  <2> QED  BY <1>2, <2>6, <2>7
<1> QED  BY <1>1, <1>2 DEF Acquire

LEMMA ResumeInv ==
  ASSUME SemInv, NEW c \in Callers, Resume(c) PROVE SemInv'
<1> USE DEF SemInv, TypeOK, States
<1>1. Owners' = Owners
  BY DEF Resume, Owners
<1>2. \A d \in Callers : pc'[d] = "queued" <=> pc[d] = "queued"
  BY DEF Resume
<1>3. Accounting'
  BY <1>1, <1>2 DEF Resume, Accounting
<1> QED  BY <1>3 DEF Resume, WorkConserving

LEMMA ReleaseInv ==
  ASSUME SemInv, NEW c \in Callers, Release(c) PROVE SemInv'
<1> USE MaxAssumption DEF SemInv, TypeOK, States
<1>0. c \in Owners
  BY DEF Release, Owners
<1>1. CASE /\ queue # <<>> /\ queue' = Tail(queue) /\ current' = current
           /\ pc' = [pc EXCEPT ![c] = "idle", ![Head(queue)] = "granted"]
  <2> DEFINE w == Head(queue)
  <2>1. w \in Callers /\ w = queue[1] /\ 1 \in 1..Len(queue)
    BY <1>1
  <2>2. pc[w] = "queued" /\ w # c /\ w \notin Owners
    BY <2>1 DEF Accounting, Release, Owners
  <2>3. pc' = [d \in Callers |-> IF d = w THEN "granted"
                                 ELSE IF d = c THEN "idle" ELSE pc[d]]
    BY <1>1, <2>1, <2>2
  <2>4. Owners' = (Owners \ {c}) \union {w}
    BY <2>1, <2>3 DEF Owners
  <2>5. Cardinality((Owners \ {c}) \union {w}) = Cardinality(Owners)
    <3>1. /\ IsFiniteSet(Owners \ {c})
          /\ Cardinality(Owners \ {c}) = Cardinality(Owners) - 1
      BY <1>0, OwnersFinite, FS_RemoveElement
    <3>2. w \notin Owners \ {c}
      BY <2>2
    <3> HIDE DEF w
    <3>3. Cardinality((Owners \ {c}) \union {w}) = Cardinality(Owners \ {c}) + 1
      BY <3>1, <3>2, FS_AddElement
    <3> QED  BY <3>1, <3>3, OwnersFinite
  <2>6. /\ Len(queue') = Len(queue) - 1
        /\ \A i \in 1..Len(queue') : queue'[i] = queue[i + 1] /\ i + 1 \in 1..Len(queue)
    BY <1>1
  <2>7. \A d \in Callers :
           pc'[d] = "queued" <=> \E i \in 1..Len(queue') : queue'[i] = d
    <3> SUFFICES ASSUME NEW d \in Callers
                 PROVE  pc'[d] = "queued" <=> \E i \in 1..Len(queue') : queue'[i] = d
      OBVIOUS
    <3>1. ASSUME NEW i \in 1..Len(queue') PROVE queue'[i] # w /\ queue'[i] # c
      BY <2>1, <2>6 DEF Accounting, Release
    <3>2. ASSUME d # w, d # c, NEW i \in 1..Len(queue), queue[i] = d
          PROVE  \E j \in 1..Len(queue') : queue'[j] = d
      <4>1. i # 1 /\ i - 1 \in 1..Len(queue')
        BY <3>2, <2>1, <2>6
      <4>2. queue'[i - 1] = d
        BY <3>2, <4>1, <2>6
      <4> QED  BY <4>1, <4>2
    <3>3. CASE d = w \/ d = c
      BY <3>1, <3>3, <2>3
    <3>4. CASE d # w /\ d # c
      <4>1. pc'[d] = pc[d]
        BY <2>3, <3>4
      <4>2. pc[d] = "queued" => \E j \in 1..Len(queue') : queue'[j] = d
        BY <3>2, <3>4 DEF Accounting
      <4>3. (\E j \in 1..Len(queue') : queue'[j] = d) => pc[d] = "queued"
        BY <2>6 DEF Accounting
      <4> QED  BY <4>1, <4>2, <4>3
    <3> QED  BY <3>3, <3>4
  <2>8. \A i, j \in 1..Len(queue') : queue'[i] = queue'[j] => i = j
    BY <2>6 DEF Accounting
  <2>9. Accounting'
    BY <1>1, <2>4, <2>5, <2>7, <2>8 DEF Accounting
  <2>10. WorkConserving'
    BY <1>1 DEF WorkConserving
  <2>11. TypeOK'
    BY <1>1, <2>3
  <2> QED  BY <1>1, <2>9, <2>10, <2>11
<1>2. CASE /\ queue = <<>> /\ queue' = queue /\ current' = current - 1
           /\ pc' = [pc EXCEPT ![c] = "idle"]
  <2>1. Owners' = Owners \ {c}
    BY <1>2 DEF Owners
  <2>2. current' = Cardinality(Owners)'
    BY <1>0, <1>2, <2>1, OwnersFinite, FS_RemoveElement DEF Accounting
  <2>3. current' \in Nat
    BY <1>0, <1>2, OwnerCounts
  <2>4. \A d \in Callers : pc'[d] = "queued" <=> pc[d] = "queued"
    BY <1>2 DEF Release
  <2>5. Accounting'
    BY <1>2, <2>2, <2>4 DEF Accounting
  <2> QED  BY <1>2, <2>3, <2>5 DEF WorkConserving
<1> QED  BY <1>1, <1>2 DEF Release

LEMMA StepInv == SemInv /\ [Next]_vars => SemInv'
<1> SUFFICES ASSUME SemInv, [Next]_vars PROVE SemInv'
  OBVIOUS
<1>1. ASSUME NEW c \in Callers, Acquire(c) PROVE SemInv'
  BY <1>1, AcquireInv
<1>2. ASSUME NEW c \in Callers, Resume(c) PROVE SemInv'
  BY <1>2, ResumeInv
<1>3. ASSUME NEW c \in Callers, Release(c) PROVE SemInv'
  BY <1>3, ReleaseInv
<1>4. CASE UNCHANGED vars
  BY <1>4 DEF vars, SemInv, TypeOK, Accounting, WorkConserving, Owners
<1> QED  BY <1>1, <1>2, <1>3, <1>4 DEF Next

\* In every reachable state the counter, the queue and the callers agree, for
\* every number of permits and callers.
THEOREM SemaphoreInvariant == Spec => []SemInv
  BY InitInv, StepInv, PTL DEF Spec

\* The variables keep their types: the counter never goes below zero.
THEOREM SemaphoreType == Spec => []TypeOK
<1>1. SemInv => TypeOK
  BY DEF SemInv
<1> QED  BY <1>1, SemaphoreInvariant, PTL

\* The counter is the number of owned permits and the queue holds exactly the
\* waiting callers.
THEOREM SemaphoreAccounting == Spec => []Accounting
<1>1. SemInv => Accounting
  BY DEF SemInv
<1> QED  BY <1>1, SemaphoreInvariant, PTL

\* A caller waits only while every permit is owned.
THEOREM SemaphoreWorkConserving == Spec => []WorkConserving
<1>1. SemInv => WorkConserving
  BY DEF SemInv
<1> QED  BY <1>1, SemaphoreInvariant, PTL

\* No more than Max executions ever own a permit.
THEOREM SemaphoreMutualExclusion == Spec => []MutualExclusion
<1>1. SemInv => MutualExclusion
  BY DEF SemInv, Accounting, MutualExclusion
<1> QED  BY <1>1, SemaphoreInvariant, PTL
-----------------------------------------------------------------------------
LEMMA StepNoOvertaking ==
  ASSUME SemInv, [Next]_vars, NEW c \in Callers,
         pc[c] # "granted", pc'[c] = "granted"
  PROVE  IF queue = <<>> THEN pc[c] = "idle" ELSE c = Head(queue)
<1> USE DEF SemInv, TypeOK, States
<1>1. ASSUME NEW d \in Callers, Acquire(d)
      PROVE  queue = <<>> /\ pc[c] = "idle"
  BY <1>1, MaxAssumption DEF Acquire, WorkConserving
<1>2. ASSUME NEW d \in Callers, Resume(d) PROVE FALSE
  BY <1>2 DEF Resume
<1>3. ASSUME NEW d \in Callers, Release(d)
      PROVE  queue # <<>> /\ c = Head(queue)
  BY <1>3 DEF Release
<1>4. CASE UNCHANGED vars
  BY <1>4 DEF vars
<1> QED  BY <1>1, <1>2, <1>3, <1>4 DEF Next

\* Permits are granted first come, first served.
THEOREM SemaphoreNoOvertaking == Spec => NoOvertaking
<1>1. SemInv /\ [Next]_vars =>
        [\A c \in Callers :
           (pc[c] # "granted" /\ pc'[c] = "granted")
              => IF queue = <<>> THEN pc[c] = "idle" ELSE c = Head(queue)]_vars
  BY StepNoOvertaking
<1> QED  BY <1>1, SemaphoreInvariant, PTL DEF Spec, NoOvertaking
-----------------------------------------------------------------------------
\* The instance's Cardinality is the one of this module.
LEMMA SameCardinality == \A S : Abstract!Cardinality(S) = Cardinality(S)
  BY DEF Abstract!Cardinality, Cardinality

LEMMA StepPermits ==
  ASSUME SemInv, SemInv', [Next]_vars PROVE [Abstract!PNext]_<<Queued, Owners>>
<1> USE MaxAssumption DEF SemInv, TypeOK, States
<1>1. ASSUME NEW c \in Callers, Acquire(c)
      PROVE  Abstract!TakeFree(c) \/ Abstract!StartWaiting(c)
  <2>1. c \notin Queued \union Owners
    BY <1>1 DEF Acquire, Queued, Owners
  <2>2. CASE current < Max /\ pc' = [pc EXCEPT ![c] = "granted"]
    <3>1. Owners' = Owners \union {c} /\ Queued' = Queued
      BY <1>1, <2>2 DEF Acquire, Owners, Queued
    <3> QED  BY <2>1, <2>2, <3>1, SameCardinality DEF Abstract!TakeFree, Accounting
  <2>3. CASE ~(current < Max) /\ pc' = [pc EXCEPT ![c] = "queued"]
    <3>1. Queued' = Queued \union {c} /\ Owners' = Owners
      BY <1>1, <2>3 DEF Acquire, Owners, Queued
    <3>2. Cardinality(Owners) = Max
      BY <2>3 DEF Accounting
    <3> QED  BY <2>1, <3>1, <3>2, SameCardinality DEF Abstract!StartWaiting
  <2> QED  BY <1>1, <2>2, <2>3 DEF Acquire
<1>2. ASSUME NEW c \in Callers, Resume(c) PROVE UNCHANGED <<Queued, Owners>>
  BY <1>2 DEF Resume, Queued, Owners
<1>3. ASSUME NEW c \in Callers, Release(c)
      PROVE  Abstract!GiveBack(c) \/ \E w \in Callers : Abstract!HandOver(c, w)
  <2>1. c \in Owners
    BY <1>3 DEF Release, Owners
  <2>2. CASE queue = <<>>
    <3>1. Queued = {}
      BY <2>2 DEF Queued, Accounting
    <3>2. Owners' = Owners \ {c} /\ Queued' = Queued
      BY <1>3, <2>2 DEF Release, Owners, Queued
    <3> QED  BY <2>1, <3>1, <3>2 DEF Abstract!GiveBack
  <2>3. CASE queue # <<>>
    <3> DEFINE w == Head(queue)
    <3>1. w \in Callers /\ w = queue[1] /\ 1 \in 1..Len(queue)
      BY <2>3
    <3>2. pc[w] = "queued" /\ w # c
      BY <1>3, <3>1 DEF Accounting, Release
    <3>3. pc' = [d \in Callers |-> IF d = w THEN "granted"
                                   ELSE IF d = c THEN "idle" ELSE pc[d]]
      BY <1>3, <2>3, <3>1, <3>2 DEF Release
    <3>4. Owners' = (Owners \ {c}) \union {w} /\ Queued' = Queued \ {w}
      BY <1>3, <3>1, <3>2, <3>3 DEF Owners, Queued, Release
    <3>5. w \in Queued
      BY <3>1, <3>2 DEF Queued
    <3> HIDE DEF w
    <3>6. Abstract!HandOver(c, w)
      BY <2>1, <3>4, <3>5 DEF Abstract!HandOver
    <3> QED  BY <3>1, <3>6
  <2> QED  BY <2>2, <2>3
<1>4. CASE UNCHANGED vars
  BY <1>4 DEF vars, Queued, Owners
<1> QED  BY <1>1, <1>2, <1>3, <1>4 DEF Next, Abstract!PNext

\* The counter with its resolver queue implements the semaphore that has
\* neither: a permit is never lost in a hand-over nor granted twice.
THEOREM SemaphoreImplementsPermits == Spec => ImplementsPermits
<1>1. Init => Abstract!PInit
  BY DEF Init, Abstract!PInit, Queued, Owners
<1>2. SemInv /\ SemInv' /\ [Next]_vars => [Abstract!PNext]_<<Queued, Owners>>
  BY StepPermits
<1> QED
  BY <1>1, <1>2, SemaphoreInvariant, PTL
  DEF Spec, ImplementsPermits, Abstract!PSpec, Abstract!permitVars
=============================================================================
