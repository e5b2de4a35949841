----------------------------- MODULE Semaphore -----------------------------
(***************************************************************************)
(* The async semaphore of packages/core/src/engine/concurrency.ts: a       *)
(* counter of owned permits and a FIFO of promise resolvers.  A permit     *)
(* given back while somebody queues is handed over without touching the    *)
(* counter.  The promise of acquire() is settled in one step and its       *)
(* caller goes on in a later one, so "granted" and "running" differ.       *)
(*                                                                         *)
(* Every caller in the repository is the pattern                           *)
(*     await sem.acquire(); try { ... } finally { sem.release(); }         *)
(* which is what the order idle, (queued,) granted, running, idle says.    *)
(***************************************************************************)
EXTENDS Integers, Sequences, FiniteSets

CONSTANTS Callers, \* the executions that go through the semaphore
          Max      \* the constructor's argument

\* The constructor throws for max < 1; a process has finitely many callers.
ASSUME MaxAssumption == Max \in Nat \ {0}
ASSUME CallersAssumption == IsFiniteSet(Callers)

VARIABLES current, \* permits in use, as the class counts them
          queue,   \* the resolvers of the callers that wait, oldest first
          pc       \* where each caller is

vars == <<current, queue, pc>>

Queued  == {c \in Callers : pc[c] = "queued"}
Owners  == {c \in Callers : pc[c] \in {"granted", "running"}}

Init == /\ current = 0
        /\ queue = <<>>
        /\ pc = [c \in Callers |-> "idle"]

\* Mutant: one permit too many.
AcquireOneMore(c) ==
    /\ pc[c] = "idle"
    /\ IF current <= Max
         THEN /\ current' = current + 1
              /\ pc' = [pc EXCEPT ![c] = "granted"]
              /\ UNCHANGED queue
         ELSE /\ queue' = Append(queue, c)
              /\ pc' = [pc EXCEPT ![c] = "queued"]
              /\ UNCHANGED current

\* acquire(): take a free permit, or push a resolver and wait for it.
Acquire(c) ==
    /\ pc[c] = "idle"
    /\ \/ /\ current < Max
          /\ current' = current + 1
          /\ pc' = [pc EXCEPT ![c] = "granted"]
          /\ UNCHANGED queue
       \/ /\ ~(current < Max)
          /\ queue' = Append(queue, c)
          /\ pc' = [pc EXCEPT ![c] = "queued"]
          /\ UNCHANGED current

\* The caller's continuation runs after its promise was settled.
Resume(c) ==
    /\ pc[c] = "granted"
    /\ pc' = [pc EXCEPT ![c] = "running"]
    /\ UNCHANGED <<current, queue>>

\* Mutant: the counter is lowered when the permit is handed over, too.
ReleaseLowers(c) ==
    /\ pc[c] = "running"
    /\ current' = current - 1
    /\ queue' = IF queue = <<>> THEN queue ELSE Tail(queue)
    /\ pc' = [d \in Callers |-> IF d = c THEN "idle"
                              ELSE IF queue # <<>> /\ d = Head(queue) THEN "granted"
                              ELSE pc[d]]

\* Mutant: the permit becomes free and nobody is told.
ReleaseWakesNobody(c) ==
    /\ pc[c] = "running"
    /\ current' = current - 1
    /\ pc' = [pc EXCEPT ![c] = "idle"]
    /\ UNCHANGED queue

\* Mutant: the youngest waiter is served, pop() for shift().
ReleaseLast(c) ==
    /\ pc[c] = "running"
    /\ current' = IF queue = <<>> THEN current - 1 ELSE current
    /\ queue' = IF queue = <<>> THEN queue ELSE SubSeq(queue, 1, Len(queue) - 1)
    /\ pc' = [d \in Callers |-> IF d = c THEN "idle"
                              ELSE IF queue # <<>> /\ d = queue[Len(queue)] THEN "granted"
                              ELSE pc[d]]

\* release(): settle the oldest waiting promise, or lower the counter.
Release(c) ==
    /\ pc[c] = "running"
    /\ \/ /\ queue # <<>>
          /\ queue' = Tail(queue)
          /\ pc' = [pc EXCEPT ![c] = "idle", ![Head(queue)] = "granted"]
          /\ UNCHANGED current
       \/ /\ queue = <<>>
          /\ current' = current - 1
          /\ pc' = [pc EXCEPT ![c] = "idle"]
          /\ UNCHANGED queue

Next == \E c \in Callers : Acquire(c) \/ Resume(c) \/ Release(c)

Spec == Init /\ [][Next]_vars

\* A settled promise is resumed by the event loop, and every execution ends:
\* each is bounded by its timeoutMs and releases in a finally block.
Fairness == \A c \in Callers : WF_vars(Resume(c)) /\ WF_vars(Release(c))

FairSpec == Spec /\ Fairness
-----------------------------------------------------------------------------
States == {"idle", "queued", "granted", "running"}

\* The types of the variables.
TypeOK == /\ current \in Nat
          /\ queue \in Seq(Callers)
          /\ pc \in [Callers -> States]

\* The counter is exactly the number of permits owned, and the resolvers
\* queued are exactly the callers that wait, each of them once: no permit is
\* lost or duplicated by the hand-over that leaves the counter alone.
Accounting ==
    /\ current = Cardinality(Owners)
    /\ \A c \in Callers : pc[c] = "queued" <=> \E i \in 1..Len(queue) : queue[i] = c
    /\ \A i, j \in 1..Len(queue) : queue[i] = queue[j] => i = j

\* No permit is unused while a caller waits for one.
WorkConserving == queue # <<>> => current = Max

\* At most Max executions own a permit: what the class exists for.
MutualExclusion == Cardinality(Owners) <= Max

\* Permits are granted in the order they were asked for: a caller that is
\* granted one was at the head of the queue, or nobody queued.
NoOvertaking ==
    [][\A c \in Callers :
          (pc[c] # "granted" /\ pc'[c] = "granted")
             => IF queue = <<>> THEN pc[c] = "idle" ELSE c = Head(queue)]_vars

\* Every caller that waits gets to run.
EveryWaiterRuns == \A c \in Callers : pc[c] = "queued" ~> pc[c] = "running"

\* The semaphore implements the abstract one: a caller owns a permit from the
\* moment its promise is settled, and resuming it is a stutter.
Abstract == INSTANCE Permits WITH waiting <- Queued, holding <- Owners

ImplementsPermits == Abstract!PSpec
=============================================================================
