--------------------------- MODULE ContainerPool ---------------------------
(***************************************************************************)
(* The warm container pool of packages/core/src/engine/pool.ts.            *)
(*                                                                         *)
(* JavaScript runs one segment of code at a time, from one await to the    *)
(* next, so every action is one such segment of acquire(), release(),      *)
(* warm(), drain(), of the background cleaning tick or of a replenishment  *)
(* job.  The segments of all of them interleave freely.  A Docker call is  *)
(* modelled by its effect at the moment it is answered; a remove() whose   *)
(* answer nobody looks at takes effect when it is issued.                  *)
(***************************************************************************)
EXTENDS Integers, Sequences, FiniteSets

CONSTANTS Clients,       \* the executions that use the pool
          Images,        \* the image names, keys of the `pools` map
          Containers,    \* container identities, reused once removed
          Ticks,         \* background cleaning callbacks that may overlap
          None,          \* no container, no image
          Fast,          \* poolStrategy is "fast" rather than "secure"
          CleanSize,     \* cleanPoolSize
          DirtySize,     \* dirtyPoolSize
          Strict,        \* securityMode is "strict"
          Prewarm,       \* start() warms the pool
          StopAnytime,   \* drain() may overlap with executions
          Failures,      \* how createContainer() may fail
          ExecFails      \* the cleanup command may fail in the container

ASSUME SizeAssumption == CleanSize \in Nat /\ DirtySize \in Nat
ASSUME NoneAssumption == None \notin Containers \union Images

VARIABLES keys,      \* the keys of `pools`, in insertion order
          clean,     \* for each image, the clean list
          dirty,     \* for each image, the dirty list
          client,    \* for each execution, where it is and what it holds
          tick,      \* for each background callback, what it is cleaning
          job,       \* for each image, its replenishment job
          warming,   \* for each image, creations warm() still waits for
          drain,     \* how far drain() got
          awaited,   \* the jobs drain() still waits for
          live,      \* the containers that exist in Docker
          used       \* those that ran code since their last cleanup

vars == <<keys, clean, dirty, client, tick, job, warming, drain, awaited,
          live, used>>
pools == <<keys, clean, dirty>>
docker == <<live, used>>

IdleClient == [pc |-> "idle", image |-> None, container |-> None]
IdleTick == [pos |-> 0, image |-> None, container |-> None, count |-> 0]

Init == /\ keys = <<>>
        /\ clean = [i \in Images |-> <<>>]
        /\ dirty = [i \in Images |-> <<>>]
        /\ client = [p \in Clients |-> IdleClient]
        /\ tick = [t \in Ticks |-> IdleTick]
        /\ job = [i \in Images |-> "none"]
        /\ warming = [i \in Images |-> 0]
        /\ drain = "no"
        /\ awaited = {}
        /\ live = {}
        /\ used = {}
-----------------------------------------------------------------------------
Listed == {c \in Containers : \E i \in Images :
             \/ \E n \in DOMAIN clean[i] : clean[i][n] = c
             \/ \E n \in DOMAIN dirty[i] : dirty[i][n] = c}
InUse == {client[p].container : p \in Clients} \ {None}
InTick == {tick[t].container : t \in Ticks} \ {None}

\* A new container is an identity that nothing refers to, whichever.
Fresh == Containers \ (live \union Listed \union InUse \union InTick)
New == CHOOSE c \in Fresh : TRUE

Known(i) == \E n \in DOMAIN keys : keys[n] = i

\* this.pools.set(image, ...) keeps the position of a key already there.
SetKey(i) == keys' = IF Known(i) THEN keys ELSE Append(keys, i)

\* container.remove({ force: true })
Remove(S) == live' = live \ S /\ used' = used \ S

\* createContainer(): create, then start.
Create == /\ Fresh # {}
          /\ live' = live \union {New}
          /\ used' = used \ {New}

\* It throws: the creation was "refused", or the container is "unstarted" and
\* nobody removes it.
CreateThrows ==
    /\ \/ "refused" \in Failures /\ UNCHANGED live
       \/ "unstarted" \in Failures /\ Fresh # {} /\ live' = live \union {New}
    /\ UNCHANGED used

\* Mutant: the test of the security mode is inverted.
CleanupInverted(c) == \/ ~Strict /\ used' = used \ {c}
                      \/ (Strict \/ ExecFails) /\ UNCHANGED used

\* cleanupContainer(): runs the cleanup command in strict mode only, and
\* swallows every error of it.
Cleanup(c) == \/ Strict /\ used' = used \ {c}
              \/ (~Strict \/ ExecFails) /\ UNCHANGED used

\* The test made before a dirty container is taken for cleaning, `cs` being the
\* clean lists.
Workable(i, cs) == dirty[i] # <<>> /\ Len(cs[i]) < CleanSize

\* replenish(): one job per image, only while the clean list is short.
Replenish(i, size) ==
    job' = IF job[i] = "none" /\ size < CleanSize
             THEN [job EXCEPT ![i] = "creating"] ELSE job

\* The engine forgets the pool once drain() returned.  Until then an execution
\* may still call acquire(), if executions and stop() are allowed to overlap.
Open == drain = "no" \/ (StopAnytime /\ drain # "done")

Moves(p, pc, i, c) ==
    client' = [client EXCEPT ![p] = [pc |-> pc, image |-> i, container |-> c]]
-----------------------------------------------------------------------------
\* Mutant: the entry is read, not shifted.
TakeCleanPeeks(p, i) ==
    /\ clean[i] # <<>>
    /\ Moves(p, "holding", i, Head(clean[i]))
    /\ Replenish(i, Len(clean[i]) - 1)
    /\ UNCHANGED pools

\* The oldest clean container is handed out, and its replacement is started.
TakeClean(p, i) ==
    /\ clean[i] # <<>>
    /\ Moves(p, "holding", i, Head(clean[i]))
    /\ clean' = [clean EXCEPT ![i] = Tail(@)]
    /\ Replenish(i, Len(clean[i]) - 1)
    /\ UNCHANGED <<keys, dirty>>

\* acquire(), "fast": a clean container, else one to clean, else a new one.
AcquireFast(p, i) ==
    /\ Fast
    /\ client[p].pc = "idle"
    /\ Open
    /\ \/ TakeClean(p, i)
       \/ /\ clean[i] = <<>> /\ Workable(i, clean)
          /\ Moves(p, "cleaning", i, Head(dirty[i]))
          /\ dirty' = [dirty EXCEPT ![i] = Tail(@)]
          /\ UNCHANGED <<keys, clean, job>>
       \/ /\ clean[i] = <<>> /\ ~Workable(i, clean)
          /\ Moves(p, "creating", i, None)
          /\ UNCHANGED <<pools, job>>
    /\ UNCHANGED <<tick, warming, drain, awaited, docker>>

\* cleanDirtyImmediate() ends: the container joins the clean list it was taken
\* next to, which is no longer in the map once drain() cleared it.
CleanedImmediate(p) ==
    /\ client[p].pc = "cleaning"
    /\ Cleanup(client[p].container)
    /\ clean' = IF drain = "done" THEN clean
                ELSE [clean EXCEPT ![client[p].image] = Append(@, client[p].container)]
    /\ Moves(p, "recheck", client[p].image, None)
    /\ UNCHANGED <<keys, dirty, tick, job, warming, drain, awaited, live>>

\* Mutant: no fallback when somebody else took the cleaned container.
RecheckOnce(p) ==
    /\ client[p].pc = "recheck"
    /\ TakeClean(p, client[p].image)
    /\ UNCHANGED <<tick, warming, drain, awaited, docker>>

\* acquire() goes on after that await: the clean list is looked at again.
Recheck(p) ==
    LET i == client[p].image
    IN  /\ client[p].pc = "recheck"
        /\ \/ TakeClean(p, i)
           \/ /\ clean[i] = <<>>
              /\ Moves(p, "creating", i, None)
              /\ UNCHANGED <<pools, job>>
        /\ UNCHANGED <<tick, warming, drain, awaited, docker>>

\* Mutant: the container is returned before it is scrubbed.
AcquireSecureAtOnce(p, i) ==
    /\ ~Fast
    /\ client[p].pc = "idle"
    /\ Open
    /\ \/ /\ clean[i] # <<>>
          /\ Moves(p, "holding", i, Head(clean[i]))
          /\ clean' = [clean EXCEPT ![i] = Tail(@)]
          /\ UNCHANGED <<keys, dirty>>
       \/ /\ clean[i] = <<>>
          /\ Moves(p, "creating", i, None)
          /\ UNCHANGED pools
    /\ UNCHANGED <<tick, job, warming, drain, awaited, docker>>

\* acquire(), "secure": the oldest container is taken and scrubbed.
AcquireSecure(p, i) ==
    /\ ~Fast
    /\ client[p].pc = "idle"
    /\ Open
    /\ \/ /\ clean[i] # <<>>
          /\ Moves(p, "scrubbing", i, Head(clean[i]))
          /\ clean' = [clean EXCEPT ![i] = Tail(@)]
          /\ UNCHANGED <<keys, dirty>>
       \/ /\ clean[i] = <<>>
          /\ Moves(p, "creating", i, None)
          /\ UNCHANGED pools
    /\ UNCHANGED <<tick, job, warming, drain, awaited, docker>>

Scrubbed(p) ==
    /\ client[p].pc = "scrubbing"
    /\ Cleanup(client[p].container)
    /\ Replenish(client[p].image, Len(clean[client[p].image]))
    /\ client' = [client EXCEPT ![p].pc = "holding"]
    /\ UNCHANGED <<pools, tick, warming, drain, awaited, live>>

\* The cold path of acquire() ends with a new container or an error.
Created(p) ==
    /\ client[p].pc = "creating"
    /\ Create
    /\ Moves(p, "holding", client[p].image, New)
    /\ UNCHANGED <<pools, tick, job, warming, drain, awaited>>

AcquireThrows(p) ==
    /\ client[p].pc = "creating"
    /\ CreateThrows
    /\ client' = [client EXCEPT ![p] = IdleClient]
    /\ UNCHANGED <<pools, tick, job, warming, drain, awaited>>

\* Mutant: no return after the remove() of a container that has no room.
ReleaseGoesOn(p) ==
    LET i == client[p].image
        c == client[p].container
    IN  /\ client[p].pc = "holding"
        /\ SetKey(i)
        /\ client' = [client EXCEPT ![p] = IdleClient]
        /\ IF Fast THEN /\ dirty' = [dirty EXCEPT ![i] = Append(@, c)]
                        /\ UNCHANGED clean
                   ELSE /\ clean' = [clean EXCEPT ![i] = Append(@, c)]
                        /\ UNCHANGED dirty
        /\ IF Len(IF Fast THEN dirty[i] ELSE clean[i]) >= (IF Fast THEN DirtySize ELSE CleanSize)
             THEN Remove({c}) ELSE used' = used \union {c} /\ UNCHANGED live
        /\ UNCHANGED <<tick, job, warming, drain, awaited>>

\* release(): back to the dirty list ("fast") or the clean list ("secure"),
\* destroyed when that list is full.  The execution ran code in it.
Release(p) ==
    LET i == client[p].image
        c == client[p].container
    IN  /\ client[p].pc = "holding"
        /\ SetKey(i)
        /\ client' = [client EXCEPT ![p] = IdleClient]
        /\ \/ /\ Fast /\ Len(dirty[i]) < DirtySize
              /\ dirty' = [dirty EXCEPT ![i] = Append(@, c)]
              /\ used' = used \union {c}
              /\ UNCHANGED <<clean, live>>
           \/ /\ ~Fast /\ Len(clean[i]) < CleanSize
              /\ clean' = [clean EXCEPT ![i] = Append(@, c)]
              /\ used' = used \union {c}
              /\ UNCHANGED <<dirty, live>>
           \/ /\ IF Fast THEN Len(dirty[i]) >= DirtySize ELSE Len(clean[i]) >= CleanSize
              /\ Remove({c})
              /\ UNCHANGED <<clean, dirty>>
        /\ UNCHANGED <<tick, job, warming, drain, awaited>>
-----------------------------------------------------------------------------
\* A cleaning callback walks the map in insertion order.  It takes the oldest
\* dirty container of the next image that has one and room for it, `cs` being
\* the clean lists at that moment.
NextWork(from, n, cs) ==
    /\ n \in DOMAIN keys /\ n > from /\ Workable(keys[n], cs)
    /\ \A m \in DOMAIN keys : from < m /\ m < n => ~Workable(keys[m], cs)

TickTakes(t, i, n, count) ==
    /\ tick' = [tick EXCEPT ![t] = [pos |-> n, image |-> i, count |-> count,
                                    container |-> Head(dirty[i])]]
    /\ dirty' = [dirty EXCEPT ![i] = Tail(@)]

\* Mutant: the interval is started for the other strategy.
TickStartSecure(t) ==
    /\ ~Fast /\ drain = "no"
    /\ tick[t] = IdleTick
    /\ \E n \in DOMAIN keys : NextWork(0, n, clean) /\ TickTakes(t, keys[n], n, 1)
    /\ UNCHANGED <<keys, clean, client, job, warming, drain, awaited, docker>>

\* The interval fires; a tick that finds nothing to do changes nothing.
TickStart(t) ==
    /\ Fast /\ drain = "no" /\ DirtySize > 0
    /\ tick[t] = IdleTick
    /\ \E n \in DOMAIN keys : NextWork(0, n, clean) /\ TickTakes(t, keys[n], n, 1)
    /\ UNCHANGED <<keys, clean, client, job, warming, drain, awaited, docker>>

\* The cleanup answered.  The container is pushed to the clean list of the
\* PoolState the callback had read, without a second look at that list's
\* length, and the loop goes on: up to DirtySize containers of this image,
\* then the next image.  pos = 0: the map was cleared since.
TickCleaned(t) ==
    LET i == tick[t].image
        again == tick[t].pos > 0 /\ tick[t].count < DirtySize /\ Workable(i, clean')
    IN  /\ tick[t].container # None
        /\ Cleanup(tick[t].container)
        /\ clean' = IF tick[t].pos = 0 THEN clean
                    ELSE [clean EXCEPT ![i] = Append(@, tick[t].container)]
        /\ \/ again /\ TickTakes(t, i, tick[t].pos, tick[t].count + 1)
           \/ /\ ~again
              /\ \E n \in DOMAIN keys :
                    NextWork(tick[t].pos, n, clean') /\ TickTakes(t, keys[n], n, 1)
           \/ /\ ~again
              /\ \A n \in DOMAIN keys : ~NextWork(tick[t].pos, n, clean')
              /\ tick' = [tick EXCEPT ![t] = IdleTick]
              /\ UNCHANGED dirty
        /\ UNCHANGED <<keys, client, job, warming, drain, awaited, live>>
-----------------------------------------------------------------------------
\* Mutant: a container that finds the list full is not removed.
ReplenishedDrops(i) ==
    /\ job[i] = "creating"
    /\ job' = [job EXCEPT ![i] = "settled"]
    /\ Create
    /\ clean' = IF Known(i) /\ Len(clean[i]) < CleanSize
                  THEN [clean EXCEPT ![i] = Append(@, New)] ELSE clean
    /\ UNCHANGED <<keys, dirty, client, tick, warming, drain, awaited>>

\* A replenishment job's container is there: it is kept if the image is still
\* in the map and the clean list still short.
Replenished(i) ==
    /\ job[i] = "creating"
    /\ job' = [job EXCEPT ![i] = "settled"]
    /\ \/ /\ Known(i) /\ Len(clean[i]) < CleanSize
          /\ Create
          /\ clean' = [clean EXCEPT ![i] = Append(@, New)]
       \/ /\ ~(Known(i) /\ Len(clean[i]) < CleanSize)
          /\ UNCHANGED <<clean, docker>>
    /\ UNCHANGED <<keys, dirty, client, tick, warming, drain, awaited>>

ReplenishThrows(i) ==
    /\ job[i] = "creating"
    /\ CreateThrows
    /\ job' = [job EXCEPT ![i] = "settled"]
    /\ UNCHANGED <<pools, client, tick, warming, drain, awaited>>

\* Mutant: the promise stays in pendingReplenishments.
JobEndsUnnoticed(i) ==
    /\ job[i] = "settled"
    /\ job' = [job EXCEPT ![i] = "none"]
    /\ UNCHANGED <<pools, client, tick, warming, drain, awaited, docker>>

\* The finally block, some microtasks later: another job may start.
JobEnds(i) ==
    /\ job[i] = "settled"
    /\ job' = [job EXCEPT ![i] = "none"]
    /\ awaited' = awaited \ {i}
    /\ UNCHANGED <<pools, client, tick, warming, drain, docker>>

\* warm(): as many creations at once as the clean list is short of.
Warm(i) ==
    /\ Prewarm /\ Open
    /\ warming[i] = 0
    /\ SetKey(i)
    /\ warming' = [warming EXCEPT ![i] =
                     IF Len(clean[i]) < CleanSize THEN CleanSize - Len(clean[i]) ELSE 0]
    /\ UNCHANGED <<clean, dirty, client, tick, job, drain, awaited, docker>>

\* One of them is there, and is pushed whatever the list holds by now.
Warmed(i) ==
    /\ warming[i] > 0
    /\ warming' = [warming EXCEPT ![i] = @ - 1]
    /\ Create
    /\ clean' = IF drain = "done" THEN clean
                ELSE [clean EXCEPT ![i] = Append(@, New)]
    /\ UNCHANGED <<keys, dirty, client, tick, job, drain, awaited>>

WarmThrows(i) ==
    /\ warming[i] > 0
    /\ CreateThrows
    /\ warming' = [warming EXCEPT ![i] = @ - 1]
    /\ UNCHANGED <<pools, client, tick, job, drain, awaited>>
-----------------------------------------------------------------------------
Quiet == /\ \A p \in Clients : client[p].pc = "idle"
         /\ \A i \in Images : warming[i] = 0

\* Mutant: drain() does not wait for the jobs under way.
DrainStartAtOnce ==
    /\ drain = "no"
    /\ StopAnytime \/ Quiet
    /\ drain' = "waiting"
    /\ UNCHANGED <<pools, client, tick, job, warming, awaited, docker>>

\* drain(): stop the interval, then wait for the jobs that are under way.
\* The server stops an engine once its executions returned.
DrainStart ==
    /\ drain = "no"
    /\ StopAnytime \/ Quiet
    /\ drain' = "waiting"
    /\ awaited' = {i \in Images : job[i] # "none"}
    /\ UNCHANGED <<pools, client, tick, job, warming, docker>>

\* Every container of every list is removed; the lists keep them meanwhile.
DrainRemoves ==
    /\ drain = "waiting"
    /\ awaited = {}
    /\ drain' = "removing"
    /\ Remove(Listed)
    /\ UNCHANGED <<pools, client, tick, job, warming, awaited>>

\* pools.clear(): a callback that still cleans keeps an unlinked PoolState.
\* stop() then forgets this pool.
DrainClears ==
    /\ drain = "removing"
    /\ drain' = "done"
    /\ keys' = <<>>
    /\ clean' = [i \in Images |-> <<>>]
    /\ dirty' = [i \in Images |-> <<>>]
    /\ tick' = [t \in Ticks |-> [tick[t] EXCEPT !.pos = 0]]
    /\ UNCHANGED <<client, job, warming, awaited, docker>>

Acquire(p) == \E i \in Images : AcquireFast(p, i) \/ AcquireSecure(p, i)

Next == \/ \E p \in Clients :
              \/ Acquire(p)
              \/ CleanedImmediate(p)
              \/ Recheck(p)
              \/ Scrubbed(p)
              \/ Created(p)
              \/ AcquireThrows(p)
              \/ Release(p)
        \/ \E t \in Ticks : TickStart(t) \/ TickCleaned(t)
        \/ \E i \in Images :
              \/ Replenished(i)
              \/ ReplenishThrows(i)
              \/ JobEnds(i)
              \/ Warm(i)
              \/ Warmed(i)
              \/ WarmThrows(i)
        \/ DrainStart
        \/ DrainRemoves
        \/ DrainClears

Spec == Init /\ [][Next]_vars

\* Docker answers every call, an execution is bounded by its timeout, the
\* interval keeps firing.  Nobody has to acquire, to warm or to stop.
Fairness ==
    /\ \A p \in Clients : WF_vars(\/ CleanedImmediate(p) \/ Recheck(p) \/ Scrubbed(p)
                                  \/ Created(p) \/ AcquireThrows(p) \/ Release(p))
    /\ \A t \in Ticks : WF_vars(TickStart(t)) /\ WF_vars(TickCleaned(t))
    /\ \A i \in Images : /\ WF_vars(Replenished(i) \/ ReplenishThrows(i))
                         /\ WF_vars(JobEnds(i))
                         /\ WF_vars(Warmed(i) \/ WarmThrows(i))
    /\ WF_vars(DrainRemoves) /\ WF_vars(DrainClears)

FairSpec == Spec /\ Fairness
-----------------------------------------------------------------------------
Pcs == {"idle", "cleaning", "recheck", "scrubbing", "creating", "holding"}
MaybeImage == Images \union {None}
MaybeContainer == Containers \union {None}

\* The types of the variables.
TypeOK ==
    /\ keys \in Seq(Images)
    /\ clean \in [Images -> Seq(Containers)]
    /\ dirty \in [Images -> Seq(Containers)]
    /\ client \in [Clients -> [pc : Pcs, image : MaybeImage, container : MaybeContainer]]
    /\ tick \in [Ticks -> [pos : Nat, image : MaybeImage, container : MaybeContainer,
                           count : Nat]]
    /\ job \in [Images -> {"none", "creating", "settled"}]
    /\ warming \in [Images -> Nat]
    /\ drain \in {"no", "waiting", "removing", "done"}
    /\ awaited \in SUBSET Images
    /\ live \in SUBSET Containers
    /\ used \in SUBSET Containers

\* No container is in two places: in two entries of the lists, with two
\* executions, with an execution and in a list, or with a cleaning callback
\* and anywhere else.  Two executions in one container would see each other.
ExclusiveOwner ==
    /\ \A i, j \in Images : \A n \in DOMAIN clean[i], m \in DOMAIN clean[j] :
          clean[i][n] = clean[j][m] => i = j /\ n = m
    /\ \A i, j \in Images : \A n \in DOMAIN dirty[i], m \in DOMAIN dirty[j] :
          dirty[i][n] = dirty[j][m] => i = j /\ n = m
    /\ \A i, j \in Images : \A n \in DOMAIN clean[i], m \in DOMAIN dirty[j] :
          clean[i][n] # dirty[j][m]
    /\ \A p, q \in Clients : p # q /\ client[p].container # None
                                => client[p].container # client[q].container
    /\ \A t, u \in Ticks : t # u /\ tick[t].container # None
                                => tick[t].container # tick[u].container
    /\ InUse \intersect InTick = {}
    /\ Listed \intersect (InUse \union InTick) = {}

\* An execution is never given a container in which code ran since it was last
\* cleaned.  It takes strict mode, and cleanup commands that do their work.
CleanSlate ==
    \A p \in Clients : client[p].pc = "holding" => client[p].container \notin used

\* The container of an execution exists as long as the execution runs, or until
\* somebody stops the engine under it.
HeldIsLive ==
    drain = "no" => \A p \in Clients : client[p].pc = "holding" => client[p].container \in live

\* Until drain() has cleared the map every container can be reached from the
\* pool or from an execution: none is forgotten, so drain() or a release can
\* still remove it.
NothingForgotten ==
    drain # "done" => live \subseteq Listed \union InUse \union InTick

\* Nothing of the pool is at work and nobody uses it.
AtRest == /\ Quiet
          /\ \A t \in Ticks : tick[t] = IdleTick
          /\ \A i \in Images : job[i] = "none"

\* drain() misses no more than the containers that callbacks were cleaning, one
\* each: none at all in secure mode, which has no callbacks.
DrainMissesFew == drain = "done" /\ AtRest => Cardinality(live) <= Cardinality(Ticks)

\* Whoever calls acquire() gets a container, or an error.
EveryAcquireReturns ==
    \A p \in Clients : client[p].pc \notin {"idle", "holding"}
                          ~> client[p].pc \in {"idle", "holding"}

\* No dirty container waits for ever next to room in the clean list, however
\* many others come and go.
Waits(c, i) == /\ drain = "no" /\ Workable(i, clean)
               /\ \E n \in DOMAIN dirty[i] : dirty[i][n] = c
DirtyIsRecycled ==
    \A i \in Images, c \in Containers : Waits(c, i) ~> ~Waits(c, i)

\* drain() returns, whatever jobs were under way when it was called.
DrainReturns == drain = "waiting" ~> drain = "done"
=============================================================================
