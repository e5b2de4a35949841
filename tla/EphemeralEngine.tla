-------------------------- MODULE EphemeralEngine --------------------------
(***************************************************************************)
(* The ephemeral mode of packages/core/src/engine/docker.ts: execute() and *)
(* executeStream() of one engine, around its semaphore, which is the       *)
(* module Semaphore, and its pool, the module ContainerPool extended here. *)
(*                                                                         *)
(* A call waits for a permit, resolves its code and its image, acquires a  *)
(* container, goes through the steps of its kind in that container, gives  *)
(* it back without waiting and releases the permit.  A step is what is     *)
(* done between two awaits that matter; those a request does not need are  *)
(* skipped, any of them may throw, and whoever reads a stream may leave    *)
(* whenever an event was yielded.  Code may leave processes behind.        *)
(*                                                                         *)
(* How an image is found is in the module ImageResolution, the events of a *)
(* stream are in ExecutionStream, the output of execute() is in            *)
(* OutputCollector.  stop() is called once no call is under way, as the    *)
(* server does with the engine of a request.                               *)
(***************************************************************************)
EXTENDS ContainerPool

CONSTANTS MaxConcurrent,  \* the permits of the engine's semaphore
          MaxKept         \* a bound on the containers left for inspection

ASSUME EngineAssumption ==
    /\ MaxConcurrent \in Nat \ {0} /\ MaxKept \in Nat
    /\ IsFiniteSet(Clients) /\ IsFiniteSet(Images)

VARIABLES persist,  \* options.persist: containers are left for inspection
          call,     \* for each client, where its call is
          procs,    \* for each container, the calls whose processes are in it
          kept,     \* the containers left for inspection
          permits, waiters, gate  \* the engine's semaphore

gateVars == <<permits, waiters, gate>>
engineVars == <<persist, call, procs, kept, gateVars>>
allVars == <<vars, engineVars>>

Gate == INSTANCE Semaphore WITH Callers <- Clients, Max <- MaxConcurrent,
            current <- permits, queue <- waiters, pc <- gate

Kinds == {"execute", "stream"}
IdleCall == [pc |-> "idle", kind |-> "execute", at |-> 0]

InitEngine == /\ Init
              /\ persist \in BOOLEAN
              /\ call = [p \in Clients |-> IdleCall]
              /\ procs = [c \in Containers |-> {}]
              /\ kept = {}
              /\ Gate!Init
-----------------------------------------------------------------------------
\* The steps in the container, in the order of each kind.
ExecuteSteps == <<"baseline", "network", "code", "packages", "imageSetup", "setup", "stdin",
                  "files", "exec", "output", "usage", "retrieve", "audit">>
StreamSteps == <<"network", "packages", "imageSetup", "setup", "files", "code", "stdin",
                 "exec", "output">>
Steps(kind) == IF kind = "execute" THEN ExecuteSteps ELSE StreamSteps

\* The steps every request goes through.
Needed == {"exec", "output"}

\* The steps in which code of the request runs, those that yield events to the
\* reader of a stream, and those whose errors are swallowed, as recordAudit() and
\* what it collects swallow theirs.
RunsCode == {"packages", "imageSetup", "setup", "exec", "output"}
Yields == {"imageSetup", "setup", "output"}
Swallows == {"baseline", "usage", "retrieve", "audit"}

Step(p) == Steps(call[p].kind)[call[p].at]
AtStep(p) == call[p].pc = "step"

\* The steps that may follow: none that is needed is skipped.
After(kind, n) ==
    {m \in n + 1 .. Len(Steps(kind)) :
       \A k \in n + 1 .. m - 1 : Steps(kind)[k] \notin Needed}
Last(kind, n) == \A k \in n + 1 .. Len(Steps(kind)) : Steps(kind)[k] \notin Needed

Goes(p, pc) == call' = [call EXCEPT ![p].pc = pc]

\* Cleaning a container kills what runs in it, and so does its removal.
KillsCleaned ==
    procs' = [c \in Containers |->
                IF c \in live' /\ ~(c \in used /\ c \notin used') THEN procs[c] ELSE {}]
-----------------------------------------------------------------------------
\* execute() or executeStream() is called, by somebody who awaited start().
Call(p, kind) ==
    /\ call[p].pc = "idle" /\ drain = "no"
    /\ \A i \in Images : warming[i] = 0
    /\ Cardinality(kept) < MaxKept
    /\ call' = [call EXCEPT ![p] = [pc |-> "gated", kind |-> kind, at |-> 0]]
    /\ Gate!Acquire(p)
    /\ UNCHANGED <<vars, persist, procs, kept>>

\* Mutant: acquire() is not awaited.
BeginUnawaited(p) ==
    /\ call[p].pc = "gated"
    /\ gate' = [gate EXCEPT ![p] = "running"]
    /\ \E pc \in {"resolving", "fetching", "returning"} : Goes(p, pc)
    /\ UNCHANGED <<vars, persist, procs, kept, permits, waiters>>

\* A permit is there.  The request is refused if its runtime needs a network it
\* has not got, or if it has not exactly one of code, codeUrl and cmd.
Begin(p) ==
    /\ call[p].pc = "gated"
    /\ Gate!Resume(p)
    /\ \E pc \in {"resolving", "fetching", "returning"} : Goes(p, pc)
    /\ UNCHANGED <<vars, persist, procs, kept>>

\* fetchRemoteCode(): the policy, the host, the answer, the size or the hash
\* may be refused, or the code is there.
Fetched(p) ==
    /\ call[p].pc = "fetching"
    /\ \E pc \in {"resolving", "returning"} : Goes(p, pc)
    /\ UNCHANGED <<vars, persist, procs, kept, gateVars>>

\* The image is known: the pool is asked for a container.
Resolved(p) ==
    /\ call[p].pc = "resolving"
    /\ Acquire(p)
    /\ Goes(p, "acquiring")
    /\ UNCHANGED <<persist, kept, gateVars>> /\ KillsCleaned

ResolveThrows(p) ==
    /\ call[p].pc = "resolving"
    /\ Goes(p, "returning")
    /\ UNCHANGED <<vars, persist, procs, kept, gateVars>>

\* acquire() goes on in the pool.
PoolGoesOn(p) ==
    /\ call[p].pc = "acquiring"
    /\ CleanedImmediate(p) \/ Recheck(p) \/ Scrubbed(p) \/ Created(p) \/ AcquireThrows(p)
    /\ UNCHANGED <<persist, call, kept, gateVars>> /\ KillsCleaned

\* acquire() returned a container, or threw.
Enter(p) ==
    /\ call[p].pc = "acquiring"
    /\ \/ /\ client[p].pc = "holding"
          /\ \E n \in After(call[p].kind, 0) :
                call' = [call EXCEPT ![p].pc = "step", ![p].at = n]
       \/ client[p].pc = "idle" /\ Goes(p, "returning")
    /\ UNCHANGED <<vars, persist, procs, kept, gateVars>>

\* What the code of a step leaves running in the container, if anything.
MayLeaveProcesses(p) ==
    LET c == client[p].container
    IN  \/ Step(p) \in RunsCode /\ procs' = [procs EXCEPT ![c] = @ \union {p}]
        \/ UNCHANGED procs

\* A step is done and the next one begins, or it was the last one.
Advance(p) ==
    /\ AtStep(p)
    /\ MayLeaveProcesses(p)
    /\ \/ \E n \in After(call[p].kind, call[p].at) : call' = [call EXCEPT ![p].at = n]
       \/ Last(call[p].kind, call[p].at) /\ Goes(p, "leaving")
    /\ UNCHANGED <<vars, persist, kept, gateVars>>

\* A step throws, a setup script fails, or the reader of a stream leaves.
Breaks(p) ==
    /\ AtStep(p)
    /\ \/ Step(p) \notin Swallows
       \/ call[p].kind = "stream" /\ Step(p) \in Yields
    /\ MayLeaveProcesses(p)
    /\ Goes(p, "leaving")
    /\ UNCHANGED <<vars, persist, kept, gateVars>>

\* The finally block: the container goes back to the pool, whatever still runs
\* in it, or is left for inspection.
Leave(p) ==
    /\ call[p].pc = "leaving"
    /\ \/ ~persist /\ Release(p) /\ UNCHANGED kept
       \/ /\ persist
          /\ kept' = kept \union {client[p].container}
          /\ client' = [client EXCEPT ![p] = IdleClient]
          /\ UNCHANGED <<pools, tick, job, warming, drain, awaited, docker>>
    /\ Goes(p, "returning")
    /\ UNCHANGED <<persist, gateVars>> /\ KillsCleaned

\* The outer finally block: the permit is released, the call returns or throws.
Return(p) ==
    /\ call[p].pc = "returning"
    /\ Gate!Release(p)
    /\ call' = [call EXCEPT ![p] = IdleCall]
    /\ UNCHANGED <<vars, persist, procs, kept>>
-----------------------------------------------------------------------------
\* start() with prewarm, while no call is under way.
Start(i) == /\ \A p \in Clients : call[p] = IdleCall
            /\ Warm(i)
            /\ UNCHANGED engineVars

\* stop(), which drains the pool.
Stop == /\ \A p \in Clients : call[p].pc = "idle"
        /\ DrainStart
        /\ UNCHANGED engineVars

\* What the pool does by itself.
Background ==
    /\ \/ \E t \in Ticks : TickStart(t) \/ TickCleaned(t)
       \/ \E i \in Images : \/ Replenished(i) \/ ReplenishThrows(i) \/ JobEnds(i)
                            \/ Warmed(i) \/ WarmThrows(i)
       \/ DrainRemoves \/ DrainClears
    /\ UNCHANGED <<persist, call, kept, gateVars>> /\ KillsCleaned

CallStep(p) == \/ Begin(p) \/ Fetched(p) \/ Resolved(p) \/ ResolveThrows(p)
               \/ PoolGoesOn(p) \/ Enter(p) \/ Advance(p) \/ Breaks(p)
               \/ Leave(p) \/ Return(p)

NextEngine == \/ \E p \in Clients : CallStep(p) \/ \E k \in Kinds : Call(p, k)
              \/ \E i \in Images : Start(i)
              \/ Stop
              \/ Background

SpecEngine == InitEngine /\ [][NextEngine]_allVars
-----------------------------------------------------------------------------
\* No process of another call runs in the container in which a call runs code,
\* although a container goes back to the pool with whatever runs in it: after a
\* timeout, or when the reader of a stream leaves.
NoForeignProcess ==
    \A p \in Clients : AtStep(p) => procs[client[p].container] \subseteq {p}

\* The containers in Docker never exceed the permits and what the clean lists
\* hold, as a container is given back before the permit that allowed it.  A list
\* holds one more than CleanSize when warm() began while a job was under way, but
\* not that of an image somebody uses: with one image, what an execution has or
\* the list holds is MaxConcurrent + CleanSize at most.
BoundedContainers ==
    ~Fast => Cardinality(live \ kept) < MaxConcurrent + Cardinality(Images) * (CleanSize + 1)

\* Once stop() returned nothing of the engine is left in Docker but what was
\* kept for inspection.
StopLeavesNothing ==
    ~Fast /\ drain = "done" /\ AtRest => live \subseteq kept
=============================================================================
