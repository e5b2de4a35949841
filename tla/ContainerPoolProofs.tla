------------------------ MODULE ContainerPoolProofs ------------------------
(***************************************************************************)
(* Proofs about the warm container pool, for any sets of executions,       *)
(* images, containers and callbacks, any sizes, strategy and failures.     *)
(***************************************************************************)
EXTENDS ContainerPool, FiniteSetTheorems, TLAPS

\* What an execution holds depends on where it is; what a callback cleans
\* belongs to an image.
Placed ==
    /\ \A p \in Clients :
          /\ client[p].pc # "idle" => client[p].image \in Images
          /\ client[p].container # None <=> client[p].pc \in {"cleaning", "scrubbing", "holding"}
    /\ \A t \in Ticks : tick[t].container # None => tick[t].image \in Images

PoolInv == TypeOK /\ Placed

\* New identities are containers to which nothing refers.
LEMMA NewIsFresh == ASSUME Fresh # {} PROVE New \in Fresh
BY DEF New

LEMMA FreshIsContainer == Fresh \subseteq Containers
BY DEF Fresh

\* The invariant holds initially.
LEMMA InitTyped == Init => PoolInv
BY SizeAssumption, NoneAssumption
   DEF Init, PoolInv, TypeOK, Placed, IdleClient, IdleTick, Pcs, MaybeImage, MaybeContainer

LEMMA SetKeyTyped ==
    ASSUME keys \in Seq(Images), NEW i \in Images, SetKey(i)
    PROVE  keys' \in Seq(Images)
BY DEF SetKey

LEMMA CleanupTyped ==
    ASSUME used \in SUBSET Containers, NEW c, Cleanup(c)
    PROVE  used' \in SUBSET Containers
BY DEF Cleanup

LEMMA ReplenishTyped ==
    ASSUME TypeOK, NEW i \in Images, NEW n, Replenish(i, n)
    PROVE  job' \in [Images -> {"none", "creating", "settled"}]
BY DEF Replenish, TypeOK

LEMMA CreateTyped ==
    ASSUME TypeOK, Create \/ CreateThrows
    PROVE  live' \in SUBSET Containers /\ used' \in SUBSET Containers
BY NewIsFresh, FreshIsContainer DEF Create, CreateThrows, TypeOK

\* An execution moves; a container goes with it exactly if it is to hold one.
LEMMA MovesTyped ==
    ASSUME PoolInv, NEW p \in Clients, NEW pc \in Pcs \ {"idle"}, NEW i \in Images,
           NEW c \in MaybeContainer,
           c # None <=> pc \in {"cleaning", "scrubbing", "holding"}, Moves(p, pc, i, c),
           UNCHANGED tick
    PROVE  /\ client' \in [Clients -> [pc : Pcs, image : MaybeImage, container : MaybeContainer]]
           /\ Placed'
BY DEF PoolInv, TypeOK, Placed, Moves, MaybeImage, MaybeContainer, Pcs
-----------------------------------------------------------------------------
\* Every step of an execution preserves the invariant.
LEMMA TakeCleanTyped ==
    ASSUME PoolInv, NEW p \in Clients, NEW i \in Images, TakeClean(p, i),
           UNCHANGED <<tick, warming, drain, awaited, docker>>
    PROVE  PoolInv'
<1>1. Head(clean[i]) \in Containers /\ Tail(clean[i]) \in Seq(Containers)
  BY DEF TakeClean, PoolInv, TypeOK
<1>2. Moves(p, "holding", i, Head(clean[i]))
  BY DEF TakeClean
<1>3. "holding" \in Pcs \ {"idle"} /\ Head(clean[i]) \in MaybeContainer
      /\ Head(clean[i]) # None
  BY <1>1, NoneAssumption DEF Pcs, MaybeContainer
<1>4. /\ client' \in [Clients -> [pc : Pcs, image : MaybeImage, container : MaybeContainer]]
      /\ Placed'
  BY <1>2, <1>3, MovesTyped
<1>5. job' \in [Images -> {"none", "creating", "settled"}]
  BY ReplenishTyped DEF TakeClean, PoolInv
<1>6. clean' \in [Images -> Seq(Containers)]
  BY <1>1 DEF TakeClean, PoolInv, TypeOK
<1> QED
  BY <1>4, <1>5, <1>6 DEF TakeClean, PoolInv, TypeOK, docker

LEMMA AcquireFastTyped ==
    ASSUME PoolInv, NEW p \in Clients, NEW i \in Images, AcquireFast(p, i)
    PROVE  PoolInv'
<1>1. CASE TakeClean(p, i)
  BY <1>1, TakeCleanTyped DEF AcquireFast
<1>2. CASE /\ Workable(i, clean)
           /\ Moves(p, "cleaning", i, Head(dirty[i]))
           /\ dirty' = [dirty EXCEPT ![i] = Tail(@)]
           /\ UNCHANGED <<keys, clean, job>>
  <2>1. Head(dirty[i]) \in Containers /\ Tail(dirty[i]) \in Seq(Containers)
    BY <1>2 DEF Workable, PoolInv, TypeOK
  <2>2. "cleaning" \in Pcs \ {"idle"} /\ Head(dirty[i]) \in MaybeContainer
        /\ Head(dirty[i]) # None
    BY <2>1, NoneAssumption DEF Pcs, MaybeContainer
  <2>3. /\ client' \in [Clients -> [pc : Pcs, image : MaybeImage, container : MaybeContainer]]
        /\ Placed'
    BY <1>2, <2>2, MovesTyped DEF AcquireFast
  <2> QED
    BY <1>2, <2>1, <2>3 DEF AcquireFast, PoolInv, TypeOK, docker
<1>3. CASE Moves(p, "creating", i, None) /\ UNCHANGED <<pools, job>>
  <2>1. "creating" \in Pcs \ {"idle"} /\ None \in MaybeContainer
    BY DEF Pcs, MaybeContainer
  <2>2. /\ client' \in [Clients -> [pc : Pcs, image : MaybeImage, container : MaybeContainer]]
        /\ Placed'
    BY <1>3, <2>1, MovesTyped DEF AcquireFast
  <2> QED
    BY <1>3, <2>2 DEF AcquireFast, PoolInv, TypeOK, docker, pools
<1> QED
  BY <1>1, <1>2, <1>3 DEF AcquireFast

LEMMA CleanedImmediateTyped ==
    ASSUME PoolInv, NEW p \in Clients, CleanedImmediate(p)
    PROVE  PoolInv'
<1>1. client[p].image \in Images /\ client[p].container \in Containers
  BY DEF CleanedImmediate, PoolInv, TypeOK, Placed, MaybeContainer
<1>2. "recheck" \in Pcs \ {"idle"} /\ None \in MaybeContainer
  BY DEF Pcs, MaybeContainer
<1>3. /\ client' \in [Clients -> [pc : Pcs, image : MaybeImage, container : MaybeContainer]]
      /\ Placed'
  BY <1>1, <1>2, MovesTyped DEF CleanedImmediate
<1>4. clean' \in [Images -> Seq(Containers)]
  BY <1>1 DEF CleanedImmediate, PoolInv, TypeOK
<1>5. used' \in SUBSET Containers
  BY CleanupTyped DEF CleanedImmediate, PoolInv, TypeOK
<1> QED
  BY <1>3, <1>4, <1>5 DEF CleanedImmediate, PoolInv, TypeOK

LEMMA RecheckTyped ==
    ASSUME PoolInv, NEW p \in Clients, Recheck(p)
    PROVE  PoolInv'
<1>1. client[p].image \in Images
  BY DEF Recheck, PoolInv, Placed
<1>2. CASE TakeClean(p, client[p].image)
  BY <1>1, <1>2, TakeCleanTyped DEF Recheck
<1>3. CASE Moves(p, "creating", client[p].image, None) /\ UNCHANGED <<pools, job>>
  <2>1. "creating" \in Pcs \ {"idle"} /\ None \in MaybeContainer
    BY DEF Pcs, MaybeContainer
  <2>2. /\ client' \in [Clients -> [pc : Pcs, image : MaybeImage, container : MaybeContainer]]
        /\ Placed'
    BY <1>1, <1>3, <2>1, MovesTyped DEF Recheck
  <2> QED
    BY <1>3, <2>2 DEF Recheck, PoolInv, TypeOK, docker, pools
<1> QED
  BY <1>2, <1>3 DEF Recheck

LEMMA AcquireSecureTyped ==
    ASSUME PoolInv, NEW p \in Clients, NEW i \in Images, AcquireSecure(p, i)
    PROVE  PoolInv'
<1>1. CASE /\ clean[i] # <<>>
           /\ Moves(p, "scrubbing", i, Head(clean[i]))
           /\ clean' = [clean EXCEPT ![i] = Tail(@)]
           /\ UNCHANGED <<keys, dirty>>
  <2>1. Head(clean[i]) \in Containers /\ Tail(clean[i]) \in Seq(Containers)
    BY <1>1 DEF PoolInv, TypeOK
  <2>2. "scrubbing" \in Pcs \ {"idle"} /\ Head(clean[i]) \in MaybeContainer
        /\ Head(clean[i]) # None
    BY <2>1, NoneAssumption DEF Pcs, MaybeContainer
  <2>3. /\ client' \in [Clients -> [pc : Pcs, image : MaybeImage, container : MaybeContainer]]
        /\ Placed'
    BY <1>1, <2>2, MovesTyped DEF AcquireSecure
  <2> QED
    BY <1>1, <2>1, <2>3 DEF AcquireSecure, PoolInv, TypeOK, docker
<1>2. CASE Moves(p, "creating", i, None) /\ UNCHANGED pools
  <2>1. "creating" \in Pcs \ {"idle"} /\ None \in MaybeContainer
    BY DEF Pcs, MaybeContainer
  <2>2. /\ client' \in [Clients -> [pc : Pcs, image : MaybeImage, container : MaybeContainer]]
        /\ Placed'
    BY <1>2, <2>1, MovesTyped DEF AcquireSecure
  <2> QED
    BY <1>2, <2>2 DEF AcquireSecure, PoolInv, TypeOK, docker, pools
<1> QED
  BY <1>1, <1>2 DEF AcquireSecure

LEMMA ScrubbedTyped ==
    ASSUME PoolInv, NEW p \in Clients, Scrubbed(p)
    PROVE  PoolInv'
<1>1. client[p].image \in Images
  BY DEF Scrubbed, PoolInv, Placed
<1>2. used' \in SUBSET Containers
  BY CleanupTyped DEF Scrubbed, PoolInv, TypeOK
<1>3. job' \in [Images -> {"none", "creating", "settled"}]
  BY <1>1, ReplenishTyped DEF Scrubbed, PoolInv
<1>4. /\ client' \in [Clients -> [pc : Pcs, image : MaybeImage, container : MaybeContainer]]
      /\ Placed'
  BY DEF Scrubbed, PoolInv, TypeOK, Placed, Pcs
<1> QED
  BY <1>2, <1>3, <1>4 DEF Scrubbed, PoolInv, TypeOK, pools

LEMMA CreatedTyped ==
    ASSUME PoolInv, NEW p \in Clients, Created(p)
    PROVE  PoolInv'
<1>1. client[p].image \in Images
  BY DEF Created, PoolInv, Placed
<1>2. live' \in SUBSET Containers /\ used' \in SUBSET Containers
  BY CreateTyped DEF Created, PoolInv
<1>3. New \in Containers
  BY NewIsFresh, FreshIsContainer DEF Created, Create
<1>4. "holding" \in Pcs \ {"idle"} /\ New \in MaybeContainer /\ New # None
  BY <1>3, NoneAssumption DEF Pcs, MaybeContainer
<1>5. /\ client' \in [Clients -> [pc : Pcs, image : MaybeImage, container : MaybeContainer]]
      /\ Placed'
  BY <1>1, <1>4, MovesTyped DEF Created
<1> QED
  BY <1>2, <1>5 DEF Created, PoolInv, TypeOK, pools

LEMMA AcquireThrowsTyped ==
    ASSUME PoolInv, NEW p \in Clients, AcquireThrows(p)
    PROVE  PoolInv'
<1>1. live' \in SUBSET Containers /\ used' \in SUBSET Containers
  BY CreateTyped DEF AcquireThrows, PoolInv
<1>2. /\ client' \in [Clients -> [pc : Pcs, image : MaybeImage, container : MaybeContainer]]
      /\ Placed'
  BY DEF AcquireThrows, IdleClient, PoolInv, TypeOK, Placed, Pcs, MaybeImage, MaybeContainer
<1> QED
  BY <1>1, <1>2 DEF AcquireThrows, PoolInv, TypeOK, pools

LEMMA ReleaseTyped ==
    ASSUME PoolInv, NEW p \in Clients, Release(p)
    PROVE  PoolInv'
<1>1. client[p].image \in Images /\ client[p].container \in Containers
  BY DEF Release, PoolInv, TypeOK, Placed, MaybeContainer
<1>2. keys' \in Seq(Images)
  BY <1>1, SetKeyTyped DEF Release, PoolInv, TypeOK
<1>3. /\ client' \in [Clients -> [pc : Pcs, image : MaybeImage, container : MaybeContainer]]
      /\ Placed'
  BY DEF Release, IdleClient, PoolInv, TypeOK, Placed, Pcs, MaybeImage, MaybeContainer
<1>4. clean' \in [Images -> Seq(Containers)] /\ dirty' \in [Images -> Seq(Containers)]
  <2>1. /\ clean \in [Images -> Seq(Containers)] /\ dirty \in [Images -> Seq(Containers)]
        /\ Append(clean[client[p].image], client[p].container) \in Seq(Containers)
        /\ Append(dirty[client[p].image], client[p].container) \in Seq(Containers)
    BY <1>1 DEF PoolInv, TypeOK
  <2>2. \/ UNCHANGED <<clean, dirty>>
        \/ /\ UNCHANGED clean
           /\ dirty' = [dirty EXCEPT ![client[p].image] = Append(@, client[p].container)]
        \/ /\ UNCHANGED dirty
           /\ clean' = [clean EXCEPT ![client[p].image] = Append(@, client[p].container)]
    BY DEF Release
  <2> QED
    BY <2>1, <2>2
<1>5. live' \in SUBSET Containers /\ used' \in SUBSET Containers
  BY <1>1 DEF Release, Remove, PoolInv, TypeOK
<1> QED
  BY <1>2, <1>3, <1>4, <1>5 DEF Release, PoolInv, TypeOK
-----------------------------------------------------------------------------
\* So does every step of a cleaning callback.
LEMMA TickTakesTyped ==
    ASSUME PoolInv, NEW t \in Ticks, NEW i \in Images, NEW n \in Nat, NEW m \in Nat,
           dirty[i] # <<>>, TickTakes(t, i, n, m), UNCHANGED client
    PROVE  /\ tick' \in [Ticks -> [pos : Nat, image : MaybeImage, container : MaybeContainer,
                                   count : Nat]]
           /\ dirty' \in [Images -> Seq(Containers)]
           /\ Placed'
<1>1. Head(dirty[i]) \in Containers /\ Tail(dirty[i]) \in Seq(Containers)
  BY DEF PoolInv, TypeOK
<1> QED
  BY <1>1 DEF TickTakes, PoolInv, TypeOK, Placed, MaybeImage, MaybeContainer

LEMMA NextWorkTyped ==
    ASSUME PoolInv, NEW m, NEW n \in DOMAIN keys, NEW cs, NextWork(m, n, cs)
    PROVE  keys[n] \in Images /\ n \in Nat /\ dirty[keys[n]] # <<>>
BY DEF NextWork, Workable, PoolInv, TypeOK

LEMMA TickStartTyped ==
    ASSUME PoolInv, NEW t \in Ticks, TickStart(t)
    PROVE  PoolInv'
<1>1. PICK n \in DOMAIN keys : NextWork(0, n, clean) /\ TickTakes(t, keys[n], n, 1)
  BY DEF TickStart
<1>2. /\ tick' \in [Ticks -> [pos : Nat, image : MaybeImage, container : MaybeContainer,
                              count : Nat]]
      /\ dirty' \in [Images -> Seq(Containers)]
      /\ Placed'
  BY <1>1, NextWorkTyped, TickTakesTyped DEF TickStart
<1> QED
  BY <1>2 DEF TickStart, PoolInv, TypeOK, docker

LEMMA TickCleanedTyped ==
    ASSUME PoolInv, NEW t \in Ticks, TickCleaned(t)
    PROVE  PoolInv'
<1> DEFINE i == tick[t].image
           c == tick[t].container
<1>1. i \in Images /\ c \in Containers /\ tick[t].pos \in Nat /\ tick[t].count \in Nat
  BY DEF TickCleaned, PoolInv, TypeOK, Placed, MaybeContainer
<1>2. clean' \in [Images -> Seq(Containers)]
  BY <1>1 DEF TickCleaned, PoolInv, TypeOK
<1>3. used' \in SUBSET Containers
  BY CleanupTyped DEF TickCleaned, PoolInv, TypeOK
<1>4. /\ tick' \in [Ticks -> [pos : Nat, image : MaybeImage, container : MaybeContainer,
                              count : Nat]]
      /\ dirty' \in [Images -> Seq(Containers)]
      /\ Placed'
  <2>1. CASE /\ Workable(i, clean')
             /\ TickTakes(t, i, tick[t].pos, tick[t].count + 1)
    BY <2>1, <1>1, TickTakesTyped DEF TickCleaned, Workable
  <2>2. CASE \E n \in DOMAIN keys :
                NextWork(tick[t].pos, n, clean') /\ TickTakes(t, keys[n], n, 1)
    BY <2>2, NextWorkTyped, TickTakesTyped DEF TickCleaned
  <2>3. CASE tick' = [tick EXCEPT ![t] = IdleTick] /\ UNCHANGED dirty
    BY <2>3 DEF TickCleaned, IdleTick, PoolInv, TypeOK, Placed, MaybeImage, MaybeContainer
  <2> QED
    BY <2>1, <2>2, <2>3 DEF TickCleaned
<1> QED
  BY <1>2, <1>3, <1>4 DEF TickCleaned, PoolInv, TypeOK
-----------------------------------------------------------------------------
\* So does every step of a replenishment job, of warm() and of drain().
LEMMA ReplenishedTyped ==
    ASSUME PoolInv, NEW i \in Images, Replenished(i)
    PROVE  PoolInv'
<1>1. CASE Create /\ clean' = [clean EXCEPT ![i] = Append(@, New)]
  <2>1. live' \in SUBSET Containers /\ used' \in SUBSET Containers /\ New \in Containers
    BY <1>1, CreateTyped, NewIsFresh, FreshIsContainer DEF Create, PoolInv
  <2> QED
    BY <1>1, <2>1 DEF Replenished, PoolInv, TypeOK, Placed
<1>2. CASE UNCHANGED <<clean, docker>>
  BY <1>2 DEF Replenished, docker, PoolInv, TypeOK, Placed
<1> QED
  BY <1>1, <1>2 DEF Replenished

LEMMA ReplenishThrowsTyped ==
    ASSUME PoolInv, NEW i \in Images, ReplenishThrows(i)
    PROVE  PoolInv'
<1>1. live' \in SUBSET Containers /\ used' \in SUBSET Containers
  BY CreateTyped DEF ReplenishThrows, PoolInv
<1> QED
  BY <1>1 DEF ReplenishThrows, PoolInv, TypeOK, Placed, pools

LEMMA JobEndsTyped ==
    ASSUME PoolInv, NEW i \in Images, JobEnds(i)
    PROVE  PoolInv'
BY DEF JobEnds, PoolInv, TypeOK, Placed, pools, docker

LEMMA WarmTyped ==
    ASSUME PoolInv, NEW i \in Images, Warm(i)
    PROVE  PoolInv'
<1>1. keys' \in Seq(Images)
  BY SetKeyTyped DEF Warm, PoolInv, TypeOK
<1>2. Len(clean[i]) \in Nat
  BY DEF PoolInv, TypeOK
<1>3. warming' \in [Images -> Nat]
  BY <1>2, SizeAssumption DEF Warm, PoolInv, TypeOK
<1> QED
  BY <1>1, <1>3 DEF Warm, PoolInv, TypeOK, Placed, docker

LEMMA WarmedTyped ==
    ASSUME PoolInv, NEW i \in Images, Warmed(i)
    PROVE  PoolInv'
<1>1. live' \in SUBSET Containers /\ used' \in SUBSET Containers /\ New \in Containers
  BY CreateTyped, NewIsFresh, FreshIsContainer DEF Warmed, Create, PoolInv
<1>2. clean' \in [Images -> Seq(Containers)]
  BY <1>1 DEF Warmed, PoolInv, TypeOK
<1>3. warming' \in [Images -> Nat]
  BY DEF Warmed, PoolInv, TypeOK
<1> QED
  BY <1>1, <1>2, <1>3 DEF Warmed, PoolInv, TypeOK, Placed

LEMMA WarmThrowsTyped ==
    ASSUME PoolInv, NEW i \in Images, WarmThrows(i)
    PROVE  PoolInv'
<1>1. live' \in SUBSET Containers /\ used' \in SUBSET Containers
  BY CreateTyped DEF WarmThrows, PoolInv
<1>2. warming' \in [Images -> Nat]
  BY DEF WarmThrows, PoolInv, TypeOK
<1> QED
  BY <1>1, <1>2 DEF WarmThrows, PoolInv, TypeOK, Placed, pools

LEMMA DrainTyped ==
    ASSUME PoolInv, DrainStart \/ DrainRemoves \/ DrainClears
    PROVE  PoolInv'
<1>1. CASE DrainStart
  BY <1>1 DEF DrainStart, PoolInv, TypeOK, Placed, pools, docker
<1>2. CASE DrainRemoves
  BY <1>2 DEF DrainRemoves, Remove, PoolInv, TypeOK, Placed, pools
<1>3. CASE DrainClears
  <2>1. /\ clean' \in [Images -> Seq(Containers)] /\ dirty' \in [Images -> Seq(Containers)]
        /\ keys' \in Seq(Images)
    BY <1>3 DEF DrainClears
  <2>2. /\ tick' \in [Ticks -> [pos : Nat, image : MaybeImage, container : MaybeContainer,
                                count : Nat]]
        /\ \A t \in Ticks : /\ tick'[t].container = tick[t].container
                            /\ tick'[t].image = tick[t].image
    <3>1. tick' = [t \in Ticks |-> [tick[t] EXCEPT !.pos = 0]]
      BY <1>3 DEF DrainClears
    <3>2. ASSUME NEW t \in Ticks
          PROVE  LET r == [tick[t] EXCEPT !.pos = 0]
                 IN  /\ r \in [pos : Nat, image : MaybeImage, container : MaybeContainer,
                               count : Nat]
                     /\ r.container = tick[t].container /\ r.image = tick[t].image
      <4>1. tick[t] \in [pos : Nat, image : MaybeImage, container : MaybeContainer,
                         count : Nat]
        BY DEF PoolInv, TypeOK
      <4> QED
        BY <4>1
    <3> QED
      BY <3>1, <3>2
  <2> QED
    BY <1>3, <2>1, <2>2 DEF DrainClears, PoolInv, TypeOK, Placed, docker
<1> QED
  BY <1>1, <1>2, <1>3
-----------------------------------------------------------------------------
\* Every step of the pool preserves the invariant.
LEMMA StepTyped == PoolInv /\ [Next]_vars => PoolInv'
<1> SUFFICES ASSUME PoolInv, [Next]_vars PROVE PoolInv'
  OBVIOUS
<1>1. ASSUME NEW p \in Clients, Acquire(p) PROVE PoolInv'
  BY <1>1, AcquireFastTyped, AcquireSecureTyped DEF Acquire
<1>2. ASSUME NEW p \in Clients,
             \/ CleanedImmediate(p) \/ Recheck(p) \/ Scrubbed(p)
             \/ Created(p) \/ AcquireThrows(p) \/ Release(p)
      PROVE  PoolInv'
  BY <1>2, CleanedImmediateTyped, RecheckTyped, ScrubbedTyped, CreatedTyped,
     AcquireThrowsTyped, ReleaseTyped
<1>3. ASSUME NEW t \in Ticks, TickStart(t) \/ TickCleaned(t) PROVE PoolInv'
  BY <1>3, TickStartTyped, TickCleanedTyped
<1>4. ASSUME NEW i \in Images,
             \/ Replenished(i) \/ ReplenishThrows(i) \/ JobEnds(i)
             \/ Warm(i) \/ Warmed(i) \/ WarmThrows(i)
      PROVE  PoolInv'
  BY <1>4, ReplenishedTyped, ReplenishThrowsTyped, JobEndsTyped, WarmTyped, WarmedTyped,
     WarmThrowsTyped
<1>5. CASE UNCHANGED vars
  BY <1>5 DEF vars, PoolInv, TypeOK, Placed
<1> QED
  BY <1>1, <1>2, <1>3, <1>4, <1>5, DrainTyped DEF Next

\* The types of the variables: the pool never pushes anything but a container,
\* nor keeps an execution without the container it needs.
THEOREM PoolInvariant == Spec => []PoolInv
<1>1. Init => PoolInv
  BY InitTyped
<1>2. PoolInv /\ [Next]_vars => PoolInv'
  BY StepTyped
<1> QED
  BY <1>1, <1>2, PTL DEF Spec

\* TypeOK of the runs, for every instance.
THEOREM PoolType == Spec => []TypeOK
<1>1. PoolInv => TypeOK
  BY DEF PoolInv
<1> QED
  BY <1>1, PoolInvariant, PTL
-----------------------------------------------------------------------------
\* What shift() and push() do to one of the lists of a family: lists in which
\* nothing occurs twice stay so.
In(c, s) == \E n \in DOMAIN s : s[n] = c
Once(s) == \A m, n \in DOMAIN s : s[m] = s[n] => m = n

LEMMA TailFacts ==
    ASSUME NEW S, NEW s \in Seq(S), s # <<>>, Once(s)
    PROVE  /\ In(Head(s), s) /\ Once(Tail(s))
           /\ \A c : In(c, Tail(s)) <=> In(c, s) /\ c # Head(s)
<1>1. /\ Len(s) \in Nat \ {0} /\ DOMAIN s = 1..Len(s) /\ Head(s) = s[1]
      /\ DOMAIN Tail(s) = 1..Len(s) - 1
      /\ \A n \in 1..Len(s) - 1 : Tail(s)[n] = s[n + 1]
  OBVIOUS
<1>2. In(Head(s), s) /\ Once(Tail(s))
  BY <1>1 DEF In, Once
<1>3. ASSUME NEW c, In(c, Tail(s)) PROVE In(c, s) /\ c # Head(s)
  <2>1. PICK n \in 1..Len(s) - 1 : s[n + 1] = c
    BY <1>1, <1>3 DEF In
  <2> QED
    BY <1>1, <2>1 DEF In, Once
<1>4. ASSUME NEW c, In(c, s), c # Head(s) PROVE In(c, Tail(s))
  <2>1. PICK n \in 1..Len(s) : s[n] = c
    BY <1>1, <1>4 DEF In
  <2>2. n - 1 \in 1..Len(s) - 1 /\ Tail(s)[n - 1] = c
    BY <1>1, <1>4, <2>1
  <2> QED
    BY <1>1, <2>2 DEF In
<1> QED
  BY <1>2, <1>3, <1>4

LEMMA AppendFacts ==
    ASSUME NEW S, NEW s \in Seq(S), NEW d \in S, ~In(d, s), Once(s)
    PROVE  /\ Once(Append(s, d))
           /\ \A c : In(c, Append(s, d)) <=> In(c, s) \/ c = d
<1>1. /\ Len(s) \in Nat /\ DOMAIN s = 1..Len(s)
      /\ DOMAIN Append(s, d) = 1..Len(s) + 1
      /\ \A n \in 1..Len(s) : Append(s, d)[n] = s[n]
      /\ Append(s, d)[Len(s) + 1] = d
  OBVIOUS
<1>2. Once(Append(s, d))
  BY <1>1 DEF In, Once
<1>3. ASSUME NEW c, In(c, Append(s, d)) PROVE In(c, s) \/ c = d
  BY <1>1, <1>3 DEF In
<1>4. ASSUME NEW c, In(c, s) \/ c = d PROVE In(c, Append(s, d))
  BY <1>1, <1>4 DEF In
<1> QED
  BY <1>2, <1>3, <1>4

LEMMA ShiftFacts ==
    ASSUME NEW f \in [Images -> Seq(Containers)], NEW i \in Images, f[i] # <<>>,
           \A j \in Images : Once(f[j])
    PROVE  LET g == [f EXCEPT ![i] = Tail(@)]
           IN  /\ In(Head(f[i]), f[i])
               /\ \A j \in Images : Once(g[j])
               /\ \A j \in Images, c \in Containers :
                     In(c, g[j]) <=> In(c, f[j]) /\ ~(j = i /\ c = Head(f[i]))
<1>1. f[i] \in Seq(Containers)
  OBVIOUS
<1>2. /\ In(Head(f[i]), f[i]) /\ Once(Tail(f[i]))
      /\ \A c : In(c, Tail(f[i])) <=> In(c, f[i]) /\ c # Head(f[i])
  BY <1>1, TailFacts
<1>3. \A j \in Images : [f EXCEPT ![i] = Tail(@)][j] = IF j = i THEN Tail(f[i]) ELSE f[j]
  OBVIOUS
<1> QED
  BY <1>1, <1>2, <1>3

LEMMA PushFacts ==
    ASSUME NEW f \in [Images -> Seq(Containers)], NEW i \in Images,
           NEW d \in Containers, ~In(d, f[i]), \A j \in Images : Once(f[j])
    PROVE  LET g == [f EXCEPT ![i] = Append(@, d)]
           IN  /\ \A j \in Images : Once(g[j])
               /\ \A j \in Images, c \in Containers :
                     In(c, g[j]) <=> In(c, f[j]) \/ (j = i /\ c = d)
<1>1. f[i] \in Seq(Containers)
  OBVIOUS
<1>2. /\ Once(Append(f[i], d))
      /\ \A c : In(c, Append(f[i], d)) <=> In(c, f[i]) \/ c = d
  BY <1>1, AppendFacts
<1>3. \A j \in Images : [f EXCEPT ![i] = Append(@, d)][j]
                           = IF j = i THEN Append(f[i], d) ELSE f[j]
  OBVIOUS
<1> QED
  BY <1>2, <1>3
-----------------------------------------------------------------------------
\* Who owns a container: the proof of ExclusiveOwner, and of the facts on which
\* the other properties rest.  The argument follows one container at a time.
\* Every action moves a container from one place to another, or two of them one
\* after the other, and adds none to the places of the others.

\* The container c has one place at most.
Single(c) ==
    /\ \A i, j \in Images : /\ In(c, clean[i]) /\ In(c, clean[j]) => i = j
                            /\ In(c, dirty[i]) /\ In(c, dirty[j]) => i = j
                            /\ ~(In(c, clean[i]) /\ In(c, dirty[j]))
    /\ \A i \in Images, p \in Clients :
          client[p].container = c => ~In(c, clean[i]) /\ ~In(c, dirty[i])
    /\ \A i \in Images, t \in Ticks :
          tick[t].container = c => ~In(c, clean[i]) /\ ~In(c, dirty[i])
    /\ \A p, q \in Clients : client[p].container = c /\ client[q].container = c => p = q
    /\ \A t, u \in Ticks : tick[t].container = c /\ tick[u].container = c => t = u
    /\ \A p \in Clients, t \in Ticks : ~(client[p].container = c /\ tick[t].container = c)

Nowhere(c) ==
    /\ \A i \in Images : ~In(c, clean[i]) /\ ~In(c, dirty[i])
    /\ \A p \in Clients : client[p].container # c
    /\ \A t \in Ticks : tick[t].container # c

\* The containers that have a place are the same after a step.
SamePlaced == \A c \in Containers : Nowhere(c)' <=> Nowhere(c)

\* The new container is the only one that gets a place.
NewPlaced == \A c \in Containers : Nowhere(c)' <=> Nowhere(c) /\ c # New

\* A container without a place gets none.
StayNowhere == \A c \in Containers : Nowhere(c) => Nowhere(c)'

\* A step gives c no place that it did not have.
NoNewPlace(c) ==
    /\ \A i \in Images : In(c, clean'[i]) => In(c, clean[i])
    /\ \A i \in Images : In(c, dirty'[i]) => In(c, dirty[i])
    /\ \A p \in Clients : client'[p].container = c => client[p].container = c
    /\ \A t \in Ticks : tick'[t].container = c => tick[t].container = c

NoDoubles == \A i \in Images : Once(clean[i]) /\ Once(dirty[i])

OwnerInv == NoDoubles /\ \A c \in Containers : Single(c)

LEMMA StaysSingle == \A c : Single(c) /\ NoNewPlace(c) => Single(c)'
BY DEF Single, NoNewPlace

LEMMA NowhereIsSingle == \A c : Nowhere(c) => Single(c)
BY DEF Nowhere, Single

LEMMA NewIsNowhere == ASSUME TypeOK, Fresh # {} PROVE New \in Containers /\ Nowhere(New)
<1>1. New \in Fresh
  BY NewIsFresh
<1>2. /\ New \in Containers /\ New \notin Listed /\ New \notin InUse /\ New \notin InTick
  BY <1>1 DEF Fresh
<1>3. \A i \in Images : ~In(New, clean[i]) /\ ~In(New, dirty[i])
  BY <1>2 DEF Listed, In
<1>4. New # None
  BY <1>2, NoneAssumption
<1> QED
  BY <1>2, <1>3, <1>4 DEF Nowhere, InUse, InTick

\* The invariant says what ExclusiveOwner says.
LEMMA OwnerInvIsEnough == PoolInv /\ OwnerInv => ExclusiveOwner
<1> SUFFICES ASSUME PoolInv, OwnerInv PROVE ExclusiveOwner
  OBVIOUS
<1>1. /\ \A i \in Images : clean[i] \in Seq(Containers) /\ dirty[i] \in Seq(Containers)
      /\ \A p \in Clients : client[p].container \in Containers \union {None}
      /\ \A t \in Ticks : tick[t].container \in Containers \union {None}
  BY DEF PoolInv, TypeOK, MaybeContainer
<1>2. \A i \in Images : /\ \A n \in DOMAIN clean[i] : /\ clean[i][n] \in Containers
                                                       /\ In(clean[i][n], clean[i])
                        /\ \A n \in DOMAIN dirty[i] : /\ dirty[i][n] \in Containers
                                                      /\ In(dirty[i][n], dirty[i])
  BY <1>1 DEF In
<1>3. ASSUME NEW i \in Images, NEW j \in Images, NEW n \in DOMAIN clean[i],
             NEW m \in DOMAIN clean[j], clean[i][n] = clean[j][m]
      PROVE  i = j /\ n = m
  BY <1>2, <1>3 DEF OwnerInv, NoDoubles, Once, Single
<1>4. ASSUME NEW i \in Images, NEW j \in Images, NEW n \in DOMAIN dirty[i],
             NEW m \in DOMAIN dirty[j], dirty[i][n] = dirty[j][m]
      PROVE  i = j /\ n = m
  BY <1>2, <1>4 DEF OwnerInv, NoDoubles, Once, Single
<1>5. ASSUME NEW i \in Images, NEW j \in Images, NEW n \in DOMAIN clean[i],
             NEW m \in DOMAIN dirty[j]
      PROVE  clean[i][n] # dirty[j][m]
  BY <1>2 DEF OwnerInv, Single
<1>6. \A p, q \in Clients : p # q /\ client[p].container # None
                               => client[p].container # client[q].container
  BY <1>1 DEF OwnerInv, Single
<1>7. \A t, u \in Ticks : t # u /\ tick[t].container # None
                               => tick[t].container # tick[u].container
  BY <1>1 DEF OwnerInv, Single
<1>8. InUse \intersect InTick = {}
  BY <1>1 DEF OwnerInv, Single, InUse, InTick
<1>9. Listed \intersect (InUse \union InTick) = {}
  <2>1. \A c \in Listed : \E i \in Images : In(c, clean[i]) \/ In(c, dirty[i])
    BY DEF Listed, In
  <2>2. \A c \in Listed : c \in Containers
    BY DEF Listed
  <2> QED
    BY <1>1, <2>1, <2>2 DEF OwnerInv, Single, InUse, InTick
<1> QED
  BY <1>3, <1>4, <1>5, <1>6, <1>7, <1>8, <1>9 DEF ExclusiveOwner
-----------------------------------------------------------------------------
\* Single ownership holds initially.
LEMMA InitOwner == Init => OwnerInv
BY NoneAssumption
   DEF Init, IdleClient, IdleTick, OwnerInv, NoDoubles, Single, Once, In

\* A step that gives no container a new place preserves the invariant, if it
\* leaves the lists alone or empties them.
LEMMA NothingMoves ==
    ASSUME OwnerInv, NoDoubles', \A c \in Containers : NoNewPlace(c)
    PROVE  OwnerInv'
BY StaysSingle DEF OwnerInv

\* One container moves, and no other gets a new place.
LEMMA OneMoves ==
    ASSUME OwnerInv, NoDoubles', NEW c \in Containers, Single(c)',
           \A d \in Containers \ {c} : NoNewPlace(d)
    PROVE  OwnerInv'
BY StaysSingle DEF OwnerInv

\* A list entry that is shifted belongs to the execution that shifted it.
LEMMA CleanToClient ==
    ASSUME PoolInv, OwnerInv, NEW p \in Clients, NEW pc, NEW i \in Images,
           clean[i] # <<>>, client[p].container = None, Moves(p, pc, i, Head(clean[i])),
           clean' = [clean EXCEPT ![i] = Tail(@)], UNCHANGED <<dirty, tick>>
    PROVE  OwnerInv' /\ SamePlaced
<1>0. PICK c \in Containers : c = Head(clean[i])
  BY DEF PoolInv, TypeOK
<1>1. clean \in [Images -> Seq(Containers)] /\ \A j \in Images : Once(clean[j])
  BY DEF PoolInv, TypeOK, OwnerInv, NoDoubles
<1>2. /\ In(c, clean[i]) /\ c \in Containers
      /\ \A j \in Images : Once(clean'[j])
      /\ \A j \in Images, d \in Containers :
            In(d, clean'[j]) <=> In(d, clean[j]) /\ ~(j = i /\ d = c)
  BY <1>0, <1>1, ShiftFacts
<1>3. \A q \in Clients : client'[q].container = IF q = p THEN c ELSE client[q].container
  BY <1>0 DEF Moves, PoolInv, TypeOK
<1>4. NoDoubles'
  BY <1>2 DEF OwnerInv, NoDoubles
<1>5. \A d \in Containers \ {c} : NoNewPlace(d)
  BY <1>2, <1>3 DEF NoNewPlace
<1>6. Single(c)
  BY <1>2 DEF OwnerInv
<1>7. Single(c)'
  BY <1>2, <1>3, <1>6 DEF Single
<1>8. SamePlaced
  <2>1. \A d \in Containers : d # None
    BY NoneAssumption
  <2> QED
    BY <1>2, <1>3, <2>1 DEF SamePlaced, Nowhere
<1> QED
  BY <1>2, <1>4, <1>5, <1>7, <1>8, OneMoves

LEMMA DirtyToClient ==
    ASSUME PoolInv, OwnerInv, NEW p \in Clients, NEW pc, NEW i \in Images,
           dirty[i] # <<>>, client[p].container = None, Moves(p, pc, i, Head(dirty[i])),
           dirty' = [dirty EXCEPT ![i] = Tail(@)], UNCHANGED <<clean, tick>>
    PROVE  OwnerInv' /\ SamePlaced
<1>0. PICK c \in Containers : c = Head(dirty[i])
  BY DEF PoolInv, TypeOK
<1>1. dirty \in [Images -> Seq(Containers)] /\ \A j \in Images : Once(dirty[j])
  BY DEF PoolInv, TypeOK, OwnerInv, NoDoubles
<1>2. /\ In(c, dirty[i]) /\ c \in Containers
      /\ \A j \in Images : Once(dirty'[j])
      /\ \A j \in Images, d \in Containers :
            In(d, dirty'[j]) <=> In(d, dirty[j]) /\ ~(j = i /\ d = c)
  BY <1>0, <1>1, ShiftFacts
<1>3. \A q \in Clients : client'[q].container = IF q = p THEN c ELSE client[q].container
  BY <1>0 DEF Moves, PoolInv, TypeOK
<1>4. NoDoubles'
  BY <1>2 DEF OwnerInv, NoDoubles
<1>5. \A d \in Containers \ {c} : NoNewPlace(d)
  BY <1>2, <1>3 DEF NoNewPlace
<1>6. Single(c)
  BY <1>2 DEF OwnerInv
<1>7. Single(c)'
  BY <1>2, <1>3, <1>6 DEF Single
<1>8. SamePlaced
  <2>1. \A d \in Containers : d # None
    BY NoneAssumption
  <2> QED
    BY <1>2, <1>3, <2>1 DEF SamePlaced, Nowhere
<1> QED
  BY <1>2, <1>4, <1>5, <1>7, <1>8, OneMoves

\* An execution that is given no container, or keeps its own.
LEMMA ClientDrops ==
    ASSUME OwnerInv, UNCHANGED <<clean, dirty, tick>>,
           \A q \in Clients : client'[q].container \in {client[q].container, None}
    PROVE  OwnerInv'
<1>1. NoDoubles'
  BY DEF OwnerInv, NoDoubles
<1>2. \A c \in Containers : c # None
  BY NoneAssumption
<1>3. \A c \in Containers : NoNewPlace(c)
  BY <1>2 DEF NoNewPlace
<1> QED
  BY <1>1, <1>3, NothingMoves

\* What an execution pushes to a list it no longer holds.
LEMMA ClientToClean ==
    ASSUME PoolInv, OwnerInv, NEW p \in Clients, NEW i \in Images, NEW c \in Containers,
           client[p].container = c, clean' = [clean EXCEPT ![i] = Append(@, c)],
           \A q \in Clients :
              client'[q].container = IF q = p THEN None ELSE client[q].container,
           UNCHANGED <<dirty, tick>>
    PROVE  OwnerInv' /\ SamePlaced
<1>1. clean \in [Images -> Seq(Containers)] /\ \A j \in Images : Once(clean[j])
  BY DEF PoolInv, TypeOK, OwnerInv, NoDoubles
<1>2. Single(c) /\ c # None
  BY NoneAssumption DEF OwnerInv
<1>3. ~In(c, clean[i])
  BY <1>2 DEF Single
<1>4. /\ \A j \in Images : Once(clean'[j])
      /\ \A j \in Images, d \in Containers :
            In(d, clean'[j]) <=> In(d, clean[j]) \/ (j = i /\ d = c)
  BY <1>1, <1>3, PushFacts
<1>5. NoDoubles'
  BY <1>4 DEF OwnerInv, NoDoubles
<1>6. \A d \in Containers \ {c} : NoNewPlace(d)
  <2>1. \A d \in Containers : d # None
    BY NoneAssumption
  <2> QED
    BY <1>4, <2>1 DEF NoNewPlace
<1>7. Single(c)'
  BY <1>2, <1>4 DEF Single
<1>8. SamePlaced
  <2>1. \A d \in Containers : d # None
    BY NoneAssumption
  <2> QED
    BY <1>4, <2>1 DEF SamePlaced, Nowhere
<1> QED
  BY <1>5, <1>6, <1>7, <1>8, OneMoves

LEMMA ClientToDirty ==
    ASSUME PoolInv, OwnerInv, NEW p \in Clients, NEW i \in Images, NEW c \in Containers,
           client[p].container = c, dirty' = [dirty EXCEPT ![i] = Append(@, c)],
           \A q \in Clients :
              client'[q].container = IF q = p THEN None ELSE client[q].container,
           UNCHANGED <<clean, tick>>
    PROVE  OwnerInv' /\ SamePlaced
<1>1. dirty \in [Images -> Seq(Containers)] /\ \A j \in Images : Once(dirty[j])
  BY DEF PoolInv, TypeOK, OwnerInv, NoDoubles
<1>2. Single(c) /\ c # None
  BY NoneAssumption DEF OwnerInv
<1>3. ~In(c, dirty[i])
  BY <1>2 DEF Single
<1>4. /\ \A j \in Images : Once(dirty'[j])
      /\ \A j \in Images, d \in Containers :
            In(d, dirty'[j]) <=> In(d, dirty[j]) \/ (j = i /\ d = c)
  BY <1>1, <1>3, PushFacts
<1>5. NoDoubles'
  BY <1>4 DEF OwnerInv, NoDoubles
<1>6. \A d \in Containers \ {c} : NoNewPlace(d)
  <2>1. \A d \in Containers : d # None
    BY NoneAssumption
  <2> QED
    BY <1>4, <2>1 DEF NoNewPlace
<1>7. Single(c)'
  BY <1>2, <1>4 DEF Single
<1>8. SamePlaced
  <2>1. \A d \in Containers : d # None
    BY NoneAssumption
  <2> QED
    BY <1>4, <2>1 DEF SamePlaced, Nowhere
<1> QED
  BY <1>5, <1>6, <1>7, <1>8, OneMoves
-----------------------------------------------------------------------------
\* A new container is pushed.
LEMMA NewToClean ==
    ASSUME PoolInv, OwnerInv, NEW i \in Images, Fresh # {},
           clean' = [clean EXCEPT ![i] = Append(@, New)], UNCHANGED <<dirty, client, tick>>
    PROVE  OwnerInv' /\ NewPlaced
<1>1. PICK c \in Containers : c = New /\ Nowhere(c)
  BY NewIsNowhere DEF PoolInv
<1>2. clean \in [Images -> Seq(Containers)] /\ \A j \in Images : Once(clean[j])
  BY DEF PoolInv, TypeOK, OwnerInv, NoDoubles
<1>3. ~In(c, clean[i])
  BY <1>1 DEF Nowhere
<1>4. /\ \A j \in Images : Once(clean'[j])
      /\ \A j \in Images, d \in Containers :
            In(d, clean'[j]) <=> In(d, clean[j]) \/ (j = i /\ d = c)
  BY <1>1, <1>2, <1>3, PushFacts
<1>5. NoDoubles'
  BY <1>4 DEF OwnerInv, NoDoubles
<1>6. \A d \in Containers \ {c} : NoNewPlace(d)
  BY <1>4 DEF NoNewPlace
<1>7. Single(c)'
  BY <1>1, <1>4 DEF Nowhere, Single
<1>8. NewPlaced
  BY <1>1, <1>4 DEF NewPlaced, Nowhere
<1> QED
  BY <1>5, <1>6, <1>7, <1>8, OneMoves

LEMMA NewToClient ==
    ASSUME PoolInv, OwnerInv, NEW p \in Clients, NEW pc, NEW i, Fresh # {},
           client[p].container = None, Moves(p, pc, i, New), UNCHANGED <<clean, dirty, tick>>
    PROVE  OwnerInv' /\ NewPlaced
<1>1. PICK c \in Containers : c = New /\ Nowhere(c)
  BY NewIsNowhere DEF PoolInv
<1>2. \A q \in Clients : client'[q].container = IF q = p THEN c ELSE client[q].container
  BY <1>1 DEF Moves, PoolInv, TypeOK
<1>3. NoDoubles'
  BY DEF OwnerInv, NoDoubles
<1>4. \A d \in Containers \ {c} : NoNewPlace(d)
  BY <1>2 DEF NoNewPlace
<1>5. Single(c)'
  BY <1>1, <1>2 DEF Nowhere, Single
<1>6. NewPlaced
  <2>1. \A d \in Containers : d # None
    BY NoneAssumption
  <2> QED
    BY <1>1, <1>2, <2>1 DEF NewPlaced, Nowhere
<1> QED
  BY <1>3, <1>4, <1>5, <1>6, OneMoves
-----------------------------------------------------------------------------
\* What a cleaning callback does in one step: it pushes the container it has,
\* unless it has none or the map was cleared, and then takes another or stops.
Pushed(c) == /\ c \in Containers
             /\ \E i \in Images : clean' = [clean EXCEPT ![i] = Append(@, c)]

Takes(t) ==
    \/ UNCHANGED dirty /\ tick'[t].container = None
    \/ \E i \in Images : /\ dirty[i] # <<>>
                         /\ dirty' = [dirty EXCEPT ![i] = Tail(@)]
                         /\ tick'[t].container = Head(dirty[i])

LEMMA TickMoves ==
    ASSUME PoolInv, OwnerInv, NEW t \in Ticks, NEW c \in MaybeContainer,
           tick[t].container = c, UNCHANGED clean \/ Pushed(c), Takes(t),
           \A u \in Ticks \ {t} : tick'[u].container = tick[u].container,
           UNCHANGED client
    PROVE  OwnerInv' /\ StayNowhere /\ (c = None \/ Pushed(c) => SamePlaced)
<1>1. /\ clean \in [Images -> Seq(Containers)] /\ dirty \in [Images -> Seq(Containers)]
      /\ \A j \in Images : Once(clean[j]) /\ Once(dirty[j])
      /\ \A d \in Containers : Single(d) /\ d # None
  BY NoneAssumption DEF PoolInv, TypeOK, OwnerInv, NoDoubles
<1> DEFINE CleanAfter ==
              /\ \A j \in Images : Once(clean'[j])
              /\ \A j, k \in Images, d \in Containers :
                    In(d, clean'[j]) /\ In(d, clean'[k]) => j = k
              /\ \A j \in Images, d \in Containers \ {c} : In(d, clean'[j]) => In(d, clean[j])
              /\ \A j \in Images, d \in Containers : In(d, clean[j]) => In(d, clean'[j])
           DirtyAfter ==
              /\ \A j \in Images : Once(dirty'[j])
              /\ \A j \in Images, d \in Containers : In(d, dirty'[j]) => In(d, dirty[j])
              /\ \A j \in Images, d \in Containers :
                    In(d, dirty[j]) => In(d, dirty'[j]) \/ tick'[t].container = d
              /\ \A j \in Images : ~In(tick'[t].container, dirty'[j])
              /\ \/ tick'[t].container = None
                 \/ /\ tick'[t].container \in Containers
                    /\ \E j \in Images : In(tick'[t].container, dirty[j])
<1>2. ASSUME Pushed(c) PROVE CleanAfter /\ \E j \in Images : In(c, clean'[j])
  <2>1. PICK i \in Images : clean' = [clean EXCEPT ![i] = Append(@, c)]
    BY <1>2 DEF Pushed
  <2>2. c \in Containers /\ Single(c)
    BY <1>1, <1>2 DEF Pushed
  <2>3. \A j \in Images : ~In(c, clean[j])
    BY <2>2 DEF Single
  <2>4. /\ clean \in [Images -> Seq(Containers)] /\ ~In(c, clean[i])
        /\ \A j \in Images : Once(clean[j])
    BY <1>1, <2>3
  <2>5. /\ \A j \in Images : Once(clean'[j])
        /\ \A j \in Images, d \in Containers :
              In(d, clean'[j]) <=> In(d, clean[j]) \/ (j = i /\ d = c)
    BY <2>1, <2>2, <2>4, PushFacts
  <2>6. ASSUME NEW j \in Images, NEW k \in Images, NEW d \in Containers,
               In(d, clean'[j]), In(d, clean'[k])
        PROVE  j = k
    <3>1. Single(d)
      BY <1>1
    <3> QED
      BY <2>3, <2>5, <2>6, <3>1 DEF Single
  <2> QED
    BY <2>2, <2>5, <2>6
<1>3. CleanAfter
  <2>1. CASE UNCHANGED clean
    BY <1>1, <2>1 DEF Single
  <2> QED
    BY <1>2, <2>1
<1>4. DirtyAfter
  <2>1. CASE UNCHANGED dirty /\ tick'[t].container = None
    <3>1. \A j \in Images : \A n \in DOMAIN dirty[j] : dirty[j][n] \in Containers
      BY <1>1
    <3> QED
      BY <1>1, <2>1, <3>1 DEF In
  <2>2. ASSUME NEW i \in Images, dirty[i] # <<>>, dirty' = [dirty EXCEPT ![i] = Tail(@)],
               tick'[t].container = Head(dirty[i])
        PROVE  DirtyAfter
    <3>1. Head(dirty[i]) \in Containers
      BY <1>1, <2>2
    <3>2. /\ In(Head(dirty[i]), dirty[i])
          /\ \A j \in Images : Once(dirty'[j])
          /\ \A j \in Images, d \in Containers :
                In(d, dirty'[j]) <=> In(d, dirty[j]) /\ ~(j = i /\ d = Head(dirty[i]))
      BY <1>1, <2>2, ShiftFacts
    <3>3. PICK d \in Containers : d = Head(dirty[i])
      BY <3>1
    <3>4. \A j \in Images : In(d, dirty[j]) => j = i
      BY <1>1, <3>2, <3>3 DEF Single
    <3> QED
      BY <2>2, <3>2, <3>3, <3>4
  <2> QED
    BY <2>1, <2>2 DEF Takes
<1>5. NoDoubles'
  BY <1>3, <1>4 DEF NoDoubles
<1>6. ASSUME NEW d \in Containers PROVE Single(d)'
  <2>1. Single(d) /\ d # None
    BY <1>1
  <2>2. CASE d = c
    <3>1. /\ \A j \in Images : ~In(d, dirty[j]) /\ ~In(d, clean[j])
          /\ \A u \in Ticks \ {t} : tick[u].container # d
          /\ \A p \in Clients : client[p].container # d
      BY <2>1, <2>2 DEF Single
    <3>2. /\ \A j \in Images : ~In(d, dirty'[j])
          /\ \A u \in Ticks : tick'[u].container # d
          /\ \A p \in Clients : client'[p].container # d
      BY <1>4, <2>1, <3>1
    <3> QED
      BY <1>3, <3>2 DEF Single
  <2>3. CASE d # c /\ tick'[t].container # d
    <3>1. NoNewPlace(d)
      BY <1>3, <1>4, <2>3 DEF NoNewPlace
    <3> QED
      BY <2>1, <3>1, StaysSingle
  <2>4. CASE d # c /\ tick'[t].container = d
    <3>1. PICK k \in Images : In(d, dirty[k])
      BY <1>4, <2>1, <2>4
    <3>2. /\ \A j \in Images : ~In(d, clean[j])
          /\ \A u \in Ticks : tick[u].container # d
          /\ \A p \in Clients : client[p].container # d
      BY <2>1, <3>1 DEF Single
    <3>3. /\ \A j \in Images : ~In(d, clean'[j]) /\ ~In(d, dirty'[j])
          /\ \A u \in Ticks \ {t} : tick'[u].container # d
          /\ \A p \in Clients : client'[p].container # d
      BY <1>3, <1>4, <2>4, <3>2
    <3> QED
      BY <3>3 DEF Single
  <2> QED
    BY <2>2, <2>3, <2>4
<1>7. StayNowhere
  <2> SUFFICES ASSUME NEW d \in Containers, Nowhere(d) PROVE Nowhere(d)'
    BY DEF StayNowhere
  <2>1. d # c /\ d # None
    BY <1>1 DEF Nowhere
  <2> QED
    BY <1>3, <1>4, <2>1 DEF Nowhere
<1>8. ASSUME c = None \/ Pushed(c) PROVE SamePlaced
  <2>1. ASSUME NEW d \in Containers, Nowhere(d)' PROVE Nowhere(d)
    <3>1. d # c
      BY <1>1, <1>2, <1>8, <2>1 DEF Nowhere
    <3>2. \A j \in Images : ~In(d, clean[j]) /\ ~In(d, dirty[j])
      BY <1>3, <1>4, <2>1 DEF Nowhere
    <3> QED
      BY <2>1, <3>1, <3>2 DEF Nowhere
  <2> QED
    BY <1>7, <2>1 DEF SamePlaced, StayNowhere
<1> QED
  BY <1>5, <1>6, <1>7, <1>8 DEF OwnerInv
-----------------------------------------------------------------------------
\* What a step does to the places of containers and to Docker, until drain() has
\* cleared the map.
Moved == SamePlaced /\ UNCHANGED live
Made == Fresh # {} /\ NewPlaced /\ live' = live \union {New}
Leaked == "unstarted" \in Failures /\ SamePlaced /\ live \subseteq live'
Destroyed == \E c \in Containers :
                /\ live' = live \ {c} /\ Nowhere(c)'
                /\ \A d \in Containers \ {c} : Nowhere(d)' <=> Nowhere(d)
Emptied == drain' # "no" /\ SamePlaced /\ live' \subseteq live
Cleared == drain' = "done" /\ StayNowhere
Effect == Cleared \/ Moved \/ Made \/ Leaked \/ Destroyed \/ Emptied

LEMMA NoNewPlaceIsNowhere ==
    ASSUME \A c \in Containers : NoNewPlace(c)
    PROVE  StayNowhere
BY DEF NoNewPlace, Nowhere, StayNowhere

LEMMA KeptIsSamePlaced ==
    ASSUME UNCHANGED <<clean, dirty>>,
           \A p \in Clients : client'[p].container = client[p].container,
           \A t \in Ticks : tick'[t].container = tick[t].container
    PROVE  SamePlaced
BY DEF SamePlaced, Nowhere

\* A callback works on a PoolState that is in the map until drain() clears it.
Linked == drain # "done" => \A t \in Ticks : tick[t].container # None => tick[t].pos > 0

OwnerAll == PoolInv /\ OwnerInv /\ Linked

\* Every step of an execution preserves the invariant.
LEMMA AcquireOwner ==
    ASSUME OwnerAll, NEW p \in Clients, Acquire(p) \/ Recheck(p)
    PROVE  OwnerInv' /\ Effect
<1>1. client[p].container = None
  BY DEF Acquire, AcquireFast, AcquireSecure, Recheck, OwnerAll, PoolInv, Placed
<1>2. client[p].pc = "recheck" => client[p].image \in Images
  BY DEF OwnerAll, PoolInv, Placed
<1>3. UNCHANGED <<tick, live>>
  BY DEF Acquire, AcquireFast, AcquireSecure, Recheck, docker
<1>4. ASSUME NEW i \in Images, TakeClean(p, i) PROVE OwnerInv' /\ SamePlaced
  BY <1>1, <1>3, <1>4, CleanToClient DEF TakeClean, OwnerAll
<1>5. ASSUME NEW i, Moves(p, "creating", i, None), UNCHANGED pools
      PROVE  OwnerInv' /\ SamePlaced
  <2>1. \A q \in Clients : client'[q].container = client[q].container
    BY <1>1, <1>5 DEF Moves, OwnerAll, PoolInv, TypeOK
  <2> QED
    BY <1>3, <1>5, <2>1, ClientDrops, KeptIsSamePlaced DEF pools, OwnerAll
<1>6. ASSUME NEW i \in Images, AcquireFast(p, i) PROVE OwnerInv' /\ SamePlaced
  <2>1. CASE /\ Workable(i, clean)
             /\ Moves(p, "cleaning", i, Head(dirty[i]))
             /\ dirty' = [dirty EXCEPT ![i] = Tail(@)]
             /\ UNCHANGED <<keys, clean, job>>
    BY <1>1, <1>3, <2>1, DirtyToClient DEF Workable, OwnerAll
  <2> QED
    BY <1>4, <1>5, <1>6, <2>1 DEF AcquireFast
<1>7. ASSUME NEW i \in Images, AcquireSecure(p, i) PROVE OwnerInv' /\ SamePlaced
  <2>1. CASE /\ clean[i] # <<>>
             /\ Moves(p, "scrubbing", i, Head(clean[i]))
             /\ clean' = [clean EXCEPT ![i] = Tail(@)]
             /\ UNCHANGED <<keys, dirty>>
    BY <1>1, <1>3, <2>1, CleanToClient DEF OwnerAll
  <2> QED
    BY <1>5, <1>7, <2>1 DEF AcquireSecure
<1>8. ASSUME Recheck(p) PROVE OwnerInv' /\ SamePlaced
  BY <1>2, <1>4, <1>5, <1>8 DEF Recheck
<1> QED
  BY <1>3, <1>6, <1>7, <1>8 DEF Acquire, Effect, Moved

LEMMA CleanedImmediateOwner ==
    ASSUME OwnerAll, NEW p \in Clients, CleanedImmediate(p)
    PROVE  OwnerInv' /\ Effect
<1>1. PICK i \in Images, c \in Containers : i = client[p].image /\ c = client[p].container
  BY DEF CleanedImmediate, OwnerAll, PoolInv, TypeOK, Placed, MaybeContainer
<1>2. \A q \in Clients : client'[q].container = IF q = p THEN None ELSE client[q].container
  BY DEF CleanedImmediate, Moves, OwnerAll, PoolInv, TypeOK
<1>3. CASE drain = "done"
  <2>1. \A d \in Containers : d # None
    BY NoneAssumption
  <2>2. \A d \in Containers : NoNewPlace(d)
    BY <1>2, <1>3, <2>1 DEF CleanedImmediate, NoNewPlace
  <2> QED
    BY <1>2, <1>3, <2>2, ClientDrops, NoNewPlaceIsNowhere
       DEF CleanedImmediate, OwnerAll, Effect, Cleared
<1>4. CASE clean' = [clean EXCEPT ![i] = Append(@, c)]
  <2>1. UNCHANGED <<dirty, tick, live>>
    BY DEF CleanedImmediate
  <2>2. OwnerInv' /\ SamePlaced
    BY <1>1, <1>2, <1>4, <2>1, ClientToClean DEF OwnerAll
  <2> QED
    BY <2>1, <2>2 DEF Effect, Moved
<1> QED
  BY <1>1, <1>3, <1>4 DEF CleanedImmediate

LEMMA ReleaseOwner ==
    ASSUME OwnerAll, NEW p \in Clients, Release(p)
    PROVE  OwnerInv' /\ Effect
<1>1. PICK i \in Images, c \in Containers : i = client[p].image /\ c = client[p].container
  BY DEF Release, OwnerAll, PoolInv, TypeOK, Placed, MaybeContainer
<1>2. \A q \in Clients : client'[q].container = IF q = p THEN None ELSE client[q].container
  BY DEF Release, IdleClient, OwnerAll, PoolInv, TypeOK
<1>3. CASE clean' = [clean EXCEPT ![i] = Append(@, c)] /\ UNCHANGED <<dirty, live>>
  BY <1>1, <1>2, <1>3, ClientToClean DEF Release, OwnerAll, Effect, Moved
<1>4. CASE dirty' = [dirty EXCEPT ![i] = Append(@, c)] /\ UNCHANGED <<clean, live>>
  BY <1>1, <1>2, <1>4, ClientToDirty DEF Release, OwnerAll, Effect, Moved
<1>5. CASE Remove({c}) /\ UNCHANGED <<clean, dirty>>
  <2>1. Single(c) /\ \A d \in Containers : d # None
    BY NoneAssumption DEF OwnerAll, OwnerInv
  <2>2. UNCHANGED <<clean, dirty, tick>>
    BY <1>5 DEF Release
  <2>3. Nowhere(c)'
    BY <1>1, <1>2, <2>1, <2>2 DEF Single, Nowhere
  <2>4. \A d \in Containers \ {c} : Nowhere(d)' <=> Nowhere(d)
    BY <1>1, <1>2, <2>1, <2>2 DEF Nowhere
  <2>5. OwnerInv'
    BY <1>2, <2>2, ClientDrops DEF OwnerAll
  <2> QED
    BY <1>5, <2>3, <2>4, <2>5 DEF Remove, Destroyed, Effect
<1> QED
  BY <1>1, <1>3, <1>4, <1>5 DEF Release

LEMMA OtherClientOwner ==
    ASSUME OwnerAll, NEW p \in Clients, Scrubbed(p) \/ Created(p) \/ AcquireThrows(p)
    PROVE  OwnerInv' /\ Effect
<1>1. CASE Scrubbed(p)
  <2>1. \A q \in Clients : client'[q].container = client[q].container
    BY <1>1 DEF Scrubbed, OwnerAll, PoolInv, TypeOK
  <2> QED
    BY <1>1, <2>1, ClientDrops, KeptIsSamePlaced
       DEF Scrubbed, pools, OwnerAll, Effect, Moved
<1>2. CASE Created(p)
  <2>1. client[p].container = None
    BY <1>2 DEF Created, OwnerAll, PoolInv, Placed
  <2> QED
    BY <1>2, <2>1, NewToClient DEF Created, Create, pools, OwnerAll, Effect, Made
<1>3. CASE AcquireThrows(p)
  <2>1. \A q \in Clients : client'[q].container = client[q].container
    BY <1>3 DEF AcquireThrows, IdleClient, OwnerAll, PoolInv, TypeOK, Placed
  <2>2. OwnerInv' /\ SamePlaced
    BY <1>3, <2>1, ClientDrops, KeptIsSamePlaced DEF AcquireThrows, pools, OwnerAll
  <2> QED
    BY <1>3, <2>2 DEF AcquireThrows, CreateThrows, Effect, Moved, Leaked
<1> QED
  BY <1>1, <1>2, <1>3

\* So does every step of a cleaning callback.
LEMMA TickOwner ==
    ASSUME OwnerAll, NEW t \in Ticks, TickStart(t) \/ TickCleaned(t)
    PROVE  OwnerInv' /\ Effect
<1>1. ASSUME NEW i \in Images, NEW n, NEW m, dirty[i] # <<>>, TickTakes(t, i, n, m)
      PROVE  Takes(t) /\ \A u \in Ticks \ {t} : tick'[u].container = tick[u].container
  BY <1>1 DEF TickTakes, Takes, OwnerAll, PoolInv, TypeOK
<1>2. ASSUME NEW k, NEW cs, NEW n \in DOMAIN keys, NextWork(k, n, cs),
             TickTakes(t, keys[n], n, 1)
      PROVE  Takes(t) /\ \A u \in Ticks \ {t} : tick'[u].container = tick[u].container
  BY <1>1, <1>2, NextWorkTyped DEF OwnerAll
<1>3. PICK c \in MaybeContainer : tick[t].container = c
  BY DEF OwnerAll, PoolInv, TypeOK
<1>4. CASE TickStart(t)
  <2>1. Takes(t) /\ \A u \in Ticks \ {t} : tick'[u].container = tick[u].container
    BY <1>2, <1>4 DEF TickStart
  <2>2. c = None
    BY <1>3, <1>4 DEF TickStart, IdleTick
  <2> QED
    BY <1>3, <1>4, <2>1, <2>2, TickMoves DEF TickStart, docker, OwnerAll, Effect, Moved
<1>5. CASE TickCleaned(t)
  <2>1. c \in Containers /\ tick[t].image \in Images
    BY <1>3, <1>5 DEF TickCleaned, OwnerAll, PoolInv, Placed, MaybeContainer
  <2>2. Takes(t) /\ \A u \in Ticks \ {t} : tick'[u].container = tick[u].container
    <3>1. CASE /\ Workable(tick[t].image, clean')
               /\ TickTakes(t, tick[t].image, tick[t].pos, tick[t].count + 1)
      BY <1>1, <2>1, <3>1 DEF Workable
    <3>2. CASE tick' = [tick EXCEPT ![t] = IdleTick] /\ UNCHANGED dirty
      BY <3>2 DEF Takes, IdleTick, OwnerAll, PoolInv, TypeOK
    <3> QED
      BY <1>2, <1>5, <3>1, <3>2 DEF TickCleaned
  <2>3. Pushed(c) \/ (UNCHANGED clean /\ drain = "done")
    <3>1. CASE drain = "done"
      BY <1>3, <1>5, <2>1, <3>1 DEF TickCleaned, Pushed
    <3>2. CASE drain # "done"
      <4>1. tick[t].pos # 0
        BY <1>5, <3>2 DEF TickCleaned, OwnerAll, PoolInv, TypeOK, Linked
      <4> QED
        BY <1>3, <1>5, <2>1, <4>1 DEF TickCleaned, Pushed
    <3> QED
      BY <3>1, <3>2
  <2>4. OwnerInv' /\ StayNowhere /\ (Pushed(c) => SamePlaced)
    BY <1>3, <1>5, <2>2, <2>3, TickMoves DEF TickCleaned, OwnerAll
  <2> QED
    BY <1>5, <2>3, <2>4 DEF TickCleaned, Effect, Cleared, Moved
<1> QED
  BY <1>4, <1>5

\* So does every step of a replenishment job, of warm() and of drain().
LEMMA JobOwner ==
    ASSUME OwnerAll, NEW i \in Images,
           \/ Replenished(i) \/ ReplenishThrows(i) \/ JobEnds(i)
           \/ Warm(i) \/ Warmed(i) \/ WarmThrows(i)
    PROVE  OwnerInv' /\ Effect
<1>1. UNCHANGED <<dirty, client, tick, drain>>
  BY DEF Replenished, ReplenishThrows, JobEnds, Warm, Warmed, WarmThrows, pools
<1>2. CASE Create /\ clean' = [clean EXCEPT ![i] = Append(@, New)]
  BY <1>1, <1>2, NewToClean DEF Create, OwnerAll, Effect, Made
<1>3. ASSUME UNCHANGED clean PROVE OwnerInv' /\ SamePlaced
  BY <1>1, <1>3, ClientDrops, KeptIsSamePlaced DEF OwnerAll
<1>4. CASE UNCHANGED <<clean, live>>
  BY <1>3, <1>4 DEF Effect, Moved
<1>5. CASE UNCHANGED clean /\ CreateThrows
  BY <1>3, <1>5 DEF CreateThrows, Effect, Moved, Leaked
<1>6. CASE UNCHANGED clean /\ drain = "done"
  BY <1>1, <1>3, <1>6 DEF Effect, Cleared, SamePlaced, StayNowhere
<1>7. \/ Create /\ clean' = [clean EXCEPT ![i] = Append(@, New)]
      \/ UNCHANGED <<clean, live>>
      \/ UNCHANGED clean /\ CreateThrows
      \/ UNCHANGED clean /\ drain = "done"
  BY DEF Replenished, ReplenishThrows, JobEnds, Warm, Warmed, WarmThrows, pools, docker
<1> QED
  BY <1>2, <1>4, <1>5, <1>6, <1>7

LEMMA DrainOwner ==
    ASSUME OwnerAll, DrainStart \/ DrainRemoves \/ DrainClears
    PROVE  OwnerInv' /\ Effect
<1>1. CASE DrainStart \/ DrainRemoves
  <2>1. UNCHANGED <<clean, dirty, client, tick>> /\ drain' # "no" /\ live' \subseteq live
    BY <1>1 DEF DrainStart, DrainRemoves, pools, docker, Remove
  <2> QED
    BY <2>1, ClientDrops, KeptIsSamePlaced DEF OwnerAll, Effect, Emptied
<1>2. CASE DrainClears
  <2>1. \A t \in Ticks : tick'[t].container = tick[t].container
    <3>1. \A t \in Ticks : [tick[t] EXCEPT !.pos = 0].container = tick[t].container
      BY DEF OwnerAll, PoolInv, TypeOK
    <3> QED
      BY <1>2, <3>1 DEF DrainClears
  <2>2. \A i \in Images : clean'[i] = <<>> /\ dirty'[i] = <<>>
    BY <1>2 DEF DrainClears
  <2>3. NoDoubles' /\ \A c \in Containers : NoNewPlace(c)
    BY <1>2, <2>1, <2>2 DEF DrainClears, NoDoubles, NoNewPlace, Once, In
  <2> QED
    BY <1>2, <2>3, NothingMoves, NoNewPlaceIsNowhere DEF DrainClears, OwnerAll, Effect, Cleared
<1> QED
  BY <1>1, <1>2
-----------------------------------------------------------------------------
\* Every step of the pool preserves single ownership.
LEMMA StepOwner == OwnerAll /\ [Next]_vars => OwnerInv' /\ Effect
<1> SUFFICES ASSUME OwnerAll, [Next]_vars PROVE OwnerInv' /\ Effect
  OBVIOUS
<1>1. CASE UNCHANGED vars
  BY <1>1, ClientDrops, KeptIsSamePlaced DEF vars, OwnerAll, Effect, Moved
<1> QED
  BY <1>1, AcquireOwner, CleanedImmediateOwner, ReleaseOwner, OtherClientOwner, TickOwner,
     JobOwner, DrainOwner DEF Next

\* Only the callbacks and drain() touch what a callback works on.
LEMMA StepLinked == PoolInv /\ Linked /\ [Next]_vars => Linked'
<1> SUFFICES ASSUME PoolInv, Linked, [Next]_vars PROVE Linked'
  OBVIOUS
<1>1. ASSUME NEW t \in Ticks, TickStart(t) \/ TickCleaned(t), drain # "done"
      PROVE  \A u \in Ticks : tick'[u].container # None => tick'[u].pos > 0
  <2>1. ASSUME NEW i, NEW n \in Nat, NEW m, n > 0, TickTakes(t, i, n, m)
        PROVE  \A u \in Ticks : tick'[u].container # None => tick'[u].pos > 0
    BY <1>1, <2>1 DEF TickTakes, PoolInv, TypeOK, Linked
  <2>2. ASSUME NEW k, NEW cs, NEW n \in DOMAIN keys, TickTakes(t, keys[n], n, 1)
        PROVE  \A u \in Ticks : tick'[u].container # None => tick'[u].pos > 0
    <3>1. n \in Nat /\ n > 0
      BY DEF PoolInv, TypeOK
    <3> QED
      BY <2>1, <2>2, <3>1
  <2>3. CASE tick' = [tick EXCEPT ![t] = IdleTick]
    BY <1>1, <2>3 DEF IdleTick, PoolInv, TypeOK, Linked
  <2>4. CASE TickCleaned(t) /\ TickTakes(t, tick[t].image, tick[t].pos, tick[t].count + 1)
    <3>1. tick[t].pos \in Nat /\ tick[t].pos > 0
      BY <1>1, <2>4 DEF TickCleaned, PoolInv, TypeOK, Linked
    <3> QED
      BY <2>1, <2>4, <3>1
  <2> QED
    BY <1>1, <2>2, <2>3, <2>4 DEF TickStart, TickCleaned
<1>2. ASSUME NEW t \in Ticks, TickStart(t) \/ TickCleaned(t) PROVE UNCHANGED drain
  BY <1>2 DEF TickStart, TickCleaned
<1>3. CASE DrainClears
  BY <1>3 DEF DrainClears, Linked
<1>4. CASE UNCHANGED <<tick, drain>> \/ (UNCHANGED tick /\ drain # "done")
  BY <1>4 DEF Linked
<1>5. ASSUME NEW p \in Clients,
             \/ Acquire(p) \/ CleanedImmediate(p) \/ Recheck(p) \/ Scrubbed(p)
             \/ Created(p) \/ AcquireThrows(p) \/ Release(p)
      PROVE  UNCHANGED <<tick, drain>>
  BY <1>5 DEF Acquire, AcquireFast, AcquireSecure, CleanedImmediate, Recheck, Scrubbed,
              Created, AcquireThrows, Release
<1>6. ASSUME NEW i \in Images,
             \/ Replenished(i) \/ ReplenishThrows(i) \/ JobEnds(i)
             \/ Warm(i) \/ Warmed(i) \/ WarmThrows(i)
      PROVE  UNCHANGED <<tick, drain>>
  BY <1>6 DEF Replenished, ReplenishThrows, JobEnds, Warm, Warmed, WarmThrows
<1>7. DrainStart \/ DrainRemoves => UNCHANGED tick /\ drain # "done"
  BY DEF DrainStart, DrainRemoves
<1>8. UNCHANGED vars => UNCHANGED <<tick, drain>>
  BY DEF vars
<1> QED
  BY <1>1, <1>2, <1>3, <1>4, <1>5, <1>6, <1>7, <1>8 DEF Next, Linked

\* The inductive invariant: types, places, single ownership.
THEOREM PoolOwnership == Spec => []OwnerAll
<1>1. Init => OwnerAll
  BY InitTyped, InitOwner DEF OwnerAll, Init, IdleTick, Linked
<1>2. OwnerAll /\ [Next]_vars => OwnerAll'
  BY StepTyped, StepOwner, StepLinked DEF OwnerAll
<1> QED
  BY <1>1, <1>2, PTL DEF Spec

\* No container is ever in two places, whatever acquire(), release(), the
\* cleaning callbacks, the replenishments, warm() and drain() do in between.
THEOREM PoolExclusiveOwner == Spec => []ExclusiveOwner
<1>1. OwnerAll => ExclusiveOwner
  BY OwnerInvIsEnough DEF OwnerAll
<1> QED
  BY <1>1, PoolOwnership, PTL
-----------------------------------------------------------------------------
(***************************************************************************)
(* What follows from single ownership: the containers of executions exist, *)
(* none is forgotten, and none is handed out with the traces of another    *)
(* execution.                                                              *)
(***************************************************************************)
\* Docker has every container that has a place, and no other.
LivePlaced == drain = "no" => \A c \in Containers : ~Nowhere(c) => c \in live
LiveKnown == drain # "done" => \A c \in live : ~Nowhere(c)

\* drain() never goes back.
LEMMA DrainGoesOn ==
    ASSUME [Next]_vars
    PROVE  (drain' = "no" => drain = "no") /\ (drain' # "done" => drain # "done")
<1>1. ASSUME NEW p \in Clients,
             \/ Acquire(p) \/ CleanedImmediate(p) \/ Recheck(p) \/ Scrubbed(p)
             \/ Created(p) \/ AcquireThrows(p) \/ Release(p)
      PROVE  UNCHANGED drain
  BY <1>1 DEF Acquire, AcquireFast, AcquireSecure, CleanedImmediate, Recheck, Scrubbed,
              Created, AcquireThrows, Release
<1>2. ASSUME NEW t \in Ticks, TickStart(t) \/ TickCleaned(t) PROVE UNCHANGED drain
  BY <1>2 DEF TickStart, TickCleaned
<1>3. ASSUME NEW i \in Images,
             \/ Replenished(i) \/ ReplenishThrows(i) \/ JobEnds(i)
             \/ Warm(i) \/ Warmed(i) \/ WarmThrows(i)
      PROVE  UNCHANGED drain
  BY <1>3 DEF Replenished, ReplenishThrows, JobEnds, Warm, Warmed, WarmThrows
<1>4. DrainStart \/ DrainRemoves \/ DrainClears
         => (drain' = "no" => drain = "no") /\ (drain' # "done" => drain # "done")
  BY DEF DrainStart, DrainRemoves, DrainClears
<1> QED
  BY <1>1, <1>2, <1>3, <1>4 DEF Next, vars

LEMMA StepLivePlaced ==
    ASSUME OwnerAll, LivePlaced, [Next]_vars
    PROVE  LivePlaced'
<1> SUFFICES ASSUME drain' = "no", NEW c \in Containers, ~Nowhere(c)' PROVE c \in live'
  BY DEF LivePlaced
<1>1. \A d \in Containers : ~Nowhere(d) => d \in live
  BY DrainGoesOn DEF LivePlaced
<1>2. Effect
  BY StepOwner
<1>3. CASE Moved
  BY <1>1, <1>3 DEF Moved, SamePlaced
<1>4. CASE Made
  BY <1>1, <1>4 DEF Made, NewPlaced
<1>5. CASE Leaked
  BY <1>1, <1>5 DEF Leaked, SamePlaced
<1>6. CASE Destroyed
  BY <1>1, <1>6 DEF Destroyed
<1> QED
  BY <1>2, <1>3, <1>4, <1>5, <1>6 DEF Effect, Cleared, Emptied

\* A container that exists after a step has a place, unless it had none before.
LEMMA StepPlaced ==
    ASSUME OwnerAll, [Next]_vars, "unstarted" \notin Failures, drain' # "done",
           NEW c, c \in live', c \in live => ~Nowhere(c)
    PROVE  ~Nowhere(c)'
<1>1. live \subseteq Containers
  BY DEF OwnerAll, PoolInv, TypeOK
<1>2. Effect
  BY StepOwner
<1>3. CASE Moved \/ Emptied
  BY <1>1, <1>3 DEF Moved, Emptied, SamePlaced
<1>4. CASE Made
  BY <1>1, <1>4, NewIsFresh, FreshIsContainer DEF Made, NewPlaced
<1>5. CASE Destroyed
  BY <1>1, <1>5 DEF Destroyed
<1> QED
  BY <1>2, <1>3, <1>4, <1>5 DEF Effect, Cleared, Leaked

LEMMA StepLiveKnown ==
    ASSUME OwnerAll, LiveKnown, [Next]_vars, "unstarted" \notin Failures
    PROVE  LiveKnown'
<1> SUFFICES ASSUME drain' # "done", NEW c, c \in live' PROVE ~Nowhere(c)'
  BY DEF LiveKnown
<1> QED
  BY DrainGoesOn, StepPlaced DEF LiveKnown

\* The container of an execution is never removed under it by the pool: no other
\* release, no cleaning and no failure destroys it, until drain() is called.
THEOREM PoolHeldIsLive == Spec => []HeldIsLive
<1>1. Init => LivePlaced
  BY NoneAssumption DEF Init, LivePlaced, Nowhere, IdleClient, IdleTick, In
<1>2. OwnerAll /\ LivePlaced /\ [Next]_vars => LivePlaced'
  BY StepLivePlaced
<1>3. OwnerAll /\ LivePlaced => HeldIsLive
  <2> SUFFICES ASSUME OwnerAll, LivePlaced, drain = "no",
                      NEW p \in Clients, client[p].pc = "holding"
               PROVE  client[p].container \in live
    BY DEF HeldIsLive
  <2>1. PICK c \in Containers : client[p].container = c
    BY DEF OwnerAll, PoolInv, TypeOK, Placed, MaybeContainer
  <2> QED
    BY <2>1 DEF LivePlaced, Nowhere
<1> QED
  BY <1>1, <1>2, <1>3, PoolOwnership, PTL DEF Spec

\* If a container that was created also starts, none is lost: until drain() has
\* cleared the map each is in a list, with an execution or with a callback.
THEOREM PoolNothingForgotten ==
    ASSUME "unstarted" \notin Failures
    PROVE  Spec => []NothingForgotten
<1>1. Init => LiveKnown
  BY DEF Init, LiveKnown
<1>2. OwnerAll /\ LiveKnown /\ [Next]_vars => LiveKnown'
  BY StepLiveKnown
<1>3. OwnerAll /\ LiveKnown => NothingForgotten
  <2> SUFFICES ASSUME OwnerAll, LiveKnown, drain # "done", NEW c \in live
               PROVE  c \in Listed \union InUse \union InTick
    BY DEF NothingForgotten
  <2>1. c \in Containers /\ c # None /\ ~Nowhere(c)
    BY NoneAssumption DEF LiveKnown, OwnerAll, PoolInv, TypeOK
  <2> QED
    BY <2>1 DEF Nowhere, Listed, InUse, InTick, In
<1> QED
  BY <1>1, <1>2, <1>3, PoolOwnership, PTL DEF Spec
-----------------------------------------------------------------------------
\* What drain() finds when nobody uses the pool: it has nothing to wait for but
\* the jobs that were under way when it was called, and nothing more is created.
Quieting ==
    drain # "no" => /\ Quiet
                    /\ \A i \in Images : job[i] # "none" => drain = "waiting" /\ i \in awaited

LEMMA StepQuieting ==
    ASSUME PoolInv, Quieting, [Next]_vars, ~StopAnytime
    PROVE  Quieting'
<1>1. CASE UNCHANGED vars
  BY <1>1 DEF vars, Quieting, Quiet
<1>2. ASSUME NEW p \in Clients,
             \/ Acquire(p) \/ CleanedImmediate(p) \/ Recheck(p) \/ Scrubbed(p)
             \/ Created(p) \/ AcquireThrows(p) \/ Release(p)
      PROVE  drain' = "no"
  BY <1>2 DEF Acquire, AcquireFast, AcquireSecure, CleanedImmediate, Recheck, Scrubbed,
              Created, AcquireThrows, Release, Open, Quieting, Quiet
<1>3. ASSUME NEW t \in Ticks, TickStart(t) \/ TickCleaned(t) PROVE Quieting'
  BY <1>3 DEF TickStart, TickCleaned, Quieting, Quiet
<1>4. ASSUME NEW i \in Images, Replenished(i) \/ ReplenishThrows(i) PROVE Quieting'
  <2>1. job[i] = "creating" /\ \A j \in Images : job'[j] # "none" => job[j] # "none"
    BY <1>4 DEF Replenished, ReplenishThrows, PoolInv, TypeOK
  <2> QED
    BY <1>4, <2>1 DEF Replenished, ReplenishThrows, Quieting, Quiet
<1>5. ASSUME NEW i \in Images, JobEnds(i) PROVE Quieting'
  <2>1. \A j \in Images : job'[j] = IF j = i THEN "none" ELSE job[j]
    BY <1>5 DEF JobEnds, PoolInv, TypeOK
  <2> QED
    BY <1>5, <2>1 DEF JobEnds, Quieting, Quiet
<1>6. ASSUME NEW i \in Images, Warm(i) \/ Warmed(i) \/ WarmThrows(i) PROVE drain' = "no"
  BY <1>6 DEF Warm, Warmed, WarmThrows, Open, Quieting, Quiet
<1>7. CASE DrainStart \/ DrainRemoves \/ DrainClears
  BY <1>7 DEF DrainStart, DrainRemoves, DrainClears, Quieting, Quiet
<1> QED
  BY <1>1, <1>2, <1>3, <1>4, <1>5, <1>6, <1>7 DEF Next, Quieting

\* Once drain() has removed what it found, Docker stays as it is.
LEMMA NothingMade ==
    ASSUME Quieting, [Next]_vars, ~StopAnytime, drain \in {"removing", "done"}
    PROVE  UNCHANGED live
<1>1. ASSUME NEW p \in Clients PROVE client[p].pc = "idle"
  BY DEF Quieting, Quiet
<1>2. ASSUME NEW i \in Images PROVE job[i] = "none" /\ warming[i] = 0
  BY DEF Quieting, Quiet
<1>3. ASSUME NEW p \in Clients,
             \/ Acquire(p) \/ CleanedImmediate(p) \/ Recheck(p) \/ Scrubbed(p)
             \/ Created(p) \/ AcquireThrows(p) \/ Release(p)
      PROVE  FALSE
  BY <1>1, <1>3 DEF Acquire, AcquireFast, AcquireSecure, CleanedImmediate, Recheck, Scrubbed,
              Created, AcquireThrows, Release, Open
<1>4. ASSUME NEW t \in Ticks, TickStart(t) \/ TickCleaned(t) PROVE UNCHANGED live
  BY <1>4 DEF TickStart, TickCleaned, docker
<1>5. ASSUME NEW i \in Images, \/ Replenished(i) \/ ReplenishThrows(i) \/ JobEnds(i)
                               \/ Warm(i) \/ Warmed(i) \/ WarmThrows(i)
      PROVE  FALSE
  BY <1>2, <1>5 DEF Replenished, ReplenishThrows, JobEnds, Warm, Warmed, WarmThrows, Open
<1>6. CASE DrainStart \/ DrainRemoves \/ DrainClears \/ UNCHANGED vars
  BY <1>6 DEF DrainStart, DrainRemoves, DrainClears, docker, vars
<1> QED
  BY <1>3, <1>4, <1>5, <1>6 DEF Next

\* It removes what it found in one step.
LEMMA DrainBegins ==
    ASSUME [Next]_vars, drain \notin {"removing", "done"}, drain' \in {"removing", "done"}
    PROVE  DrainRemoves
<1>1. ASSUME NEW p \in Clients,
             \/ Acquire(p) \/ CleanedImmediate(p) \/ Recheck(p) \/ Scrubbed(p)
             \/ Created(p) \/ AcquireThrows(p) \/ Release(p)
      PROVE  UNCHANGED drain
  BY <1>1 DEF Acquire, AcquireFast, AcquireSecure, CleanedImmediate, Recheck, Scrubbed,
              Created, AcquireThrows, Release
<1>2. ASSUME NEW t \in Ticks, TickStart(t) \/ TickCleaned(t) PROVE UNCHANGED drain
  BY <1>2 DEF TickStart, TickCleaned
<1>3. ASSUME NEW i \in Images,
             \/ Replenished(i) \/ ReplenishThrows(i) \/ JobEnds(i)
             \/ Warm(i) \/ Warmed(i) \/ WarmThrows(i)
      PROVE  UNCHANGED drain
  BY <1>3 DEF Replenished, ReplenishThrows, JobEnds, Warm, Warmed, WarmThrows
<1>4. DrainStart \/ DrainClears \/ UNCHANGED vars
         => drain' \notin {"removing", "done"} \/ drain \in {"removing", "done"}
  BY DEF DrainStart, DrainClears, vars
<1> QED
  BY <1>1, <1>2, <1>3, <1>4 DEF Next

\* What drain() does not find is in the hands of callbacks.
LEMMA DrainMisses ==
    ASSUME OwnerAll, Quieting, DrainRemoves
    PROVE  \A c \in live' : Nowhere(c) \/ \E t \in Ticks : tick[t].container = c
<1> SUFFICES ASSUME NEW c, c \in live', ~Nowhere(c)
             PROVE  \E t \in Ticks : tick[t].container = c
  OBVIOUS
<1>1. c \in Containers /\ c \notin Listed /\ c # None
  BY NoneAssumption DEF DrainRemoves, Remove, OwnerAll, PoolInv, TypeOK
<1>2. \A i \in Images : ~In(c, clean[i]) /\ ~In(c, dirty[i])
  BY <1>1 DEF Listed, In
<1>3. \A p \in Clients : client[p].container = None
  BY DEF DrainRemoves, Quieting, Quiet, OwnerAll, PoolInv, Placed
<1> QED
  BY <1>1, <1>2, <1>3 DEF Nowhere

\* Each in those of one.
Few == drain \in {"removing", "done"}
          => IsFiniteSet(live) /\ Cardinality(live) <= Cardinality(Ticks)

LEMMA StepFew ==
    ASSUME OwnerAll, LiveKnown, Quieting, Few, [Next]_vars, ~StopAnytime, IsFiniteSet(Ticks)
    PROVE  Few'
<1> SUFFICES ASSUME drain' \in {"removing", "done"}
             PROVE  IsFiniteSet(live') /\ Cardinality(live') <= Cardinality(Ticks)
  BY DEF Few
<1>1. CASE drain \in {"removing", "done"}
  <2>1. live' = live
    BY <1>1, NothingMade
  <2> QED
    BY <1>1, <2>1 DEF Few
<1>2. CASE drain \notin {"removing", "done"}
  <2>1. DrainRemoves
    BY <1>2, DrainBegins
  <2>2. \A c \in live' : \E t \in Ticks : tick[t].container = c
    <3>1. live' \subseteq live /\ drain # "done"
      BY <2>1 DEF DrainRemoves, Remove
    <3> QED
      BY <2>1, <3>1, DrainMisses DEF LiveKnown
  <2> DEFINE cleaner == [c \in live' |-> CHOOSE t \in Ticks : tick[t].container = c]
  <2>3. \A c \in live' : cleaner[c] \in Ticks /\ tick[cleaner[c]].container = c
    BY <2>2
  <2>4. cleaner \in [live' -> Ticks]
    BY <2>3
  <2> HIDE DEF cleaner
  <2>5. cleaner \in Injection(live', Ticks)
    BY <2>3, <2>4 DEF Injection, IsInjective
  <2> QED
    BY <2>5, FS_Injection
<1> QED
  BY <1>1, <1>2

\* drain() leaves no more containers in Docker than there were callbacks that
\* cleaned one while it ran, whatever jobs were under way when it was called: the
\* jobs are awaited, and what they create is in a list before it looks.
THEOREM PoolDrainMissesFew ==
    ASSUME "unstarted" \notin Failures, ~StopAnytime, IsFiniteSet(Ticks)
    PROVE  Spec => []DrainMissesFew
<1>1. Init => LiveKnown /\ Quieting /\ Few
  BY DEF Init, LiveKnown, Quieting, Few
<1>2. OwnerAll /\ LiveKnown /\ Quieting /\ Few /\ [Next]_vars
         => LiveKnown' /\ Quieting' /\ Few'
  BY StepLiveKnown, StepQuieting, StepFew DEF OwnerAll
<1>3. Few => DrainMissesFew
  BY DEF Few, DrainMissesFew
<1> QED
  BY <1>1, <1>2, <1>3, PoolOwnership, PTL DEF Spec
-----------------------------------------------------------------------------
\* Where traces can be.  In fast mode a clean list has none; in secure mode it
\* may, and acquire() scrubs what it takes.
Untraced ==
    /\ ~Fast => \A p \in Clients : client[p].pc \notin {"cleaning", "recheck"}
    /\ Fast => \A i \in Images, c \in Containers : In(c, clean[i]) => c \notin used
    /\ CleanSlate

\* What a step must not do: put a container with traces in a clean list or in
\* the hands of an execution, or leave traces in one that is there.
AddsNoTrace ==
    /\ ~Fast => \A p \in Clients : client'[p].pc \notin {"cleaning", "recheck"}
    /\ Fast => \A i \in Images, c \in Containers :
                  In(c, clean'[i]) /\ c \in used' => In(c, clean[i]) /\ c \in used
    /\ \A p \in Clients :
          client'[p].pc = "holding" /\ client'[p].container \in used'
             => /\ client[p].pc = "holding" /\ client[p].container \in used

LEMMA UntracedStays == Untraced /\ AddsNoTrace => Untraced'
BY DEF Untraced, AddsNoTrace, CleanSlate

LEMMA ShiftedIn ==
    ASSUME NEW f \in [Images -> Seq(Containers)], NEW i \in Images, f[i] # <<>>
    PROVE  \A j \in Images : \A c : In(c, [f EXCEPT ![i] = Tail(@)][j]) => In(c, f[j])
<1>1. /\ f[i] \in Seq(Containers) /\ Len(f[i]) \in Nat \ {0} /\ DOMAIN f[i] = 1..Len(f[i])
      /\ DOMAIN Tail(f[i]) = 1..Len(f[i]) - 1
      /\ \A n \in 1..Len(f[i]) - 1 : Tail(f[i])[n] = f[i][n + 1]
  OBVIOUS
<1>2. \A c : In(c, Tail(f[i])) => In(c, f[i])
  BY <1>1 DEF In
<1> QED
  BY <1>2

LEMMA PushedIn ==
    ASSUME NEW f \in [Images -> Seq(Containers)], NEW i \in Images, NEW d \in Containers
    PROVE  \A j \in Images : \A c : In(c, [f EXCEPT ![i] = Append(@, d)][j]) => In(c, f[j]) \/ c = d
<1>1. /\ f[i] \in Seq(Containers) /\ Len(f[i]) \in Nat /\ DOMAIN f[i] = 1..Len(f[i])
      /\ DOMAIN Append(f[i], d) = 1..Len(f[i]) + 1
      /\ \A n \in 1..Len(f[i]) : Append(f[i], d)[n] = f[i][n]
      /\ Append(f[i], d)[Len(f[i]) + 1] = d
  OBVIOUS
<1>2. \A c : In(c, Append(f[i], d)) => In(c, f[i]) \/ c = d
  BY <1>1 DEF In
<1> QED
  BY <1>2

\* What acquire() does adds no trace.
LEMMA TakeCleanUntraced ==
    ASSUME OwnerAll, Untraced, Fast, NEW p \in Clients, NEW i \in Images, TakeClean(p, i),
           UNCHANGED docker
    PROVE  Untraced'
<1>1. clean \in [Images -> Seq(Containers)]
  BY DEF OwnerAll, PoolInv, TypeOK
<1>2. PICK c \in Containers : c = Head(clean[i])
  BY <1>1 DEF TakeClean
<1>3. In(c, clean[i]) /\ \A j \in Images, d \in Containers : In(d, clean'[j]) => In(d, clean[j])
  BY <1>1, <1>2, ShiftedIn, ShiftFacts DEF TakeClean, OwnerAll, OwnerInv, NoDoubles
<1>4. c \notin used
  BY <1>3 DEF Untraced
<1>5. \A q \in Clients : client'[q] = IF q = p THEN [pc |-> "holding", image |-> i,
                                                     container |-> c] ELSE client[q]
  BY <1>2 DEF TakeClean, Moves, OwnerAll, PoolInv, TypeOK
<1>6. AddsNoTrace
  BY <1>3, <1>4, <1>5 DEF AddsNoTrace, Untraced, docker
<1> QED
  BY <1>6, UntracedStays

LEMMA LeavesUntraced ==
    ASSUME OwnerAll, Untraced, NEW p \in Clients, NEW pc, NEW i, NEW c,
           pc \notin {"holding", "recheck"}, pc = "cleaning" => Fast,
           Moves(p, pc, i, c), UNCHANGED docker,
           \A j \in Images, d \in Containers : In(d, clean'[j]) => In(d, clean[j])
    PROVE  Untraced'
<1>1. \A q \in Clients : client'[q] = IF q = p THEN [pc |-> pc, image |-> i, container |-> c]
                                               ELSE client[q]
  BY DEF Moves, OwnerAll, PoolInv, TypeOK
<1>2. AddsNoTrace
  BY <1>1 DEF AddsNoTrace, Untraced, docker
<1> QED
  BY <1>2, UntracedStays

LEMMA AcquireUntraced ==
    ASSUME OwnerAll, Untraced, NEW p \in Clients, Acquire(p) \/ Recheck(p)
    PROVE  Untraced'
<1>1. UNCHANGED docker
  BY DEF Acquire, AcquireFast, AcquireSecure, Recheck
<1>2. ASSUME NEW i, Moves(p, "creating", i, None), UNCHANGED pools PROVE Untraced'
  BY <1>1, <1>2, LeavesUntraced DEF pools
<1>3. ASSUME NEW i \in Images, AcquireFast(p, i) PROVE Untraced'
  <2>1. CASE TakeClean(p, i)
    BY <1>1, <1>3, <2>1, TakeCleanUntraced DEF AcquireFast
  <2>2. CASE Moves(p, "cleaning", i, Head(dirty[i])) /\ UNCHANGED <<keys, clean, job>>
    BY <1>1, <1>3, <2>2, LeavesUntraced DEF AcquireFast
  <2> QED
    BY <1>2, <1>3, <2>1, <2>2 DEF AcquireFast
<1>4. ASSUME NEW i \in Images, AcquireSecure(p, i) PROVE Untraced'
  <2>1. CASE /\ clean[i] # <<>>
             /\ Moves(p, "scrubbing", i, Head(clean[i]))
             /\ clean' = [clean EXCEPT ![i] = Tail(@)]
    <3>1. \A j \in Images, d \in Containers : In(d, clean'[j]) => In(d, clean[j])
      BY <2>1, ShiftedIn DEF OwnerAll, PoolInv, TypeOK
    <3> QED
      BY <1>1, <2>1, <3>1, LeavesUntraced
  <2> QED
    BY <1>2, <1>4, <2>1 DEF AcquireSecure
<1>5. ASSUME Recheck(p) PROVE Untraced'
  <2>1. Fast /\ client[p].image \in Images
    BY <1>5 DEF Recheck, Untraced, OwnerAll, PoolInv, Placed
  <2> QED
    BY <1>1, <1>2, <1>5, <2>1, TakeCleanUntraced DEF Recheck
<1> QED
  BY <1>3, <1>4, <1>5 DEF Acquire

\* The cleanup command does its work: strict mode, and no failure of it.
LEMMA CleanedImmediateUntraced ==
    ASSUME OwnerAll, Untraced, NEW p \in Clients, CleanedImmediate(p), Strict, ~ExecFails
    PROVE  Untraced'
<1>1. PICK c \in Containers : c = client[p].container
  BY DEF CleanedImmediate, OwnerAll, PoolInv, TypeOK, Placed, MaybeContainer
<1>2. used' = used \ {c} /\ Fast
  BY <1>1 DEF CleanedImmediate, Cleanup, Untraced
<1>3. \A j \in Images, d \in Containers : In(d, clean'[j]) => In(d, clean[j]) \/ d = c
  BY <1>1, PushedIn DEF CleanedImmediate, OwnerAll, PoolInv, TypeOK, Placed
<1>4. \A q \in Clients : client'[q] = IF q = p THEN [pc |-> "recheck", container |-> None,
                                                     image |-> client[p].image] ELSE client[q]
  BY DEF CleanedImmediate, Moves, OwnerAll, PoolInv, TypeOK
<1>5. AddsNoTrace
  BY <1>2, <1>3, <1>4 DEF AddsNoTrace
<1> QED
  BY <1>5, UntracedStays

LEMMA ScrubbedUntraced ==
    ASSUME OwnerAll, Untraced, NEW p \in Clients, Scrubbed(p), Strict, ~ExecFails
    PROVE  Untraced'
<1>1. used' = used \ {client[p].container} /\ UNCHANGED clean
  BY DEF Scrubbed, Cleanup, pools
<1>2. \A q \in Clients : /\ q # p => client'[q] = client[q]
                         /\ client'[p].pc = "holding"
                         /\ client'[p].container = client[p].container
  BY DEF Scrubbed, OwnerAll, PoolInv, TypeOK
<1>3. AddsNoTrace
  BY <1>1, <1>2 DEF AddsNoTrace, Untraced
<1> QED
  BY <1>3, UntracedStays

LEMMA CreatedUntraced ==
    ASSUME OwnerAll, Untraced, NEW p \in Clients, Created(p)
    PROVE  Untraced'
<1>1. used' = used \ {New} /\ UNCHANGED clean
  BY DEF Created, Create, pools
<1>2. \A q \in Clients : client'[q] = IF q = p THEN [pc |-> "holding", container |-> New,
                                                     image |-> client[p].image] ELSE client[q]
  BY DEF Created, Moves, OwnerAll, PoolInv, TypeOK
<1>3. AddsNoTrace
  BY <1>1, <1>2 DEF AddsNoTrace, Untraced
<1> QED
  BY <1>3, UntracedStays

\* The container that is given back has traces, but nobody else has it.
LEMMA ReleaseUntraced ==
    ASSUME OwnerAll, Untraced, NEW p \in Clients, Release(p)
    PROVE  Untraced'
<1>1. PICK i \in Images, c \in Containers : i = client[p].image /\ c = client[p].container
  BY DEF Release, OwnerAll, PoolInv, TypeOK, Placed, MaybeContainer
<1>2. Single(c)
  BY DEF OwnerAll, OwnerInv
<1>3. \A q \in Clients : client'[q] = IF q = p THEN IdleClient ELSE client[q]
  BY DEF Release, OwnerAll, PoolInv, TypeOK
<1>4. (Fast => UNCHANGED clean) /\ used' \subseteq used \union {c}
  BY <1>1 DEF Release, Remove
<1>5. \A j \in Images : ~In(c, clean[j])
  BY <1>1, <1>2 DEF Single
<1>6. \A q \in Clients \ {p} : client[q].container # c
  BY <1>1, <1>2 DEF Single
<1>7. \A j \in Images, d \in Containers :
         Fast /\ In(d, clean'[j]) /\ d \in used' => In(d, clean[j]) /\ d \in used
  BY <1>4, <1>5
<1>8. \A q \in Clients : client'[q].pc = "holding" /\ client'[q].container \in used'
                            => client[q].pc = "holding" /\ client[q].container \in used
  BY <1>3, <1>4, <1>6 DEF IdleClient
<1>9. ~Fast => \A q \in Clients : client'[q].pc \notin {"cleaning", "recheck"}
  BY <1>3 DEF IdleClient, Untraced
<1> QED
  BY <1>7, <1>8, <1>9, UntracedStays DEF AddsNoTrace

\* Nor do the steps in which no execution moves.
LEMMA OthersUntraced ==
    ASSUME OwnerAll, Untraced, UNCHANGED client, used' \subseteq used,
           \A j \in Images, d \in Containers :
              In(d, clean'[j]) => In(d, clean[j]) \/ d \notin used'
    PROVE  Untraced'
BY DEF Untraced, CleanSlate

LEMMA AcquireThrowsUntraced ==
    ASSUME OwnerAll, Untraced, NEW p \in Clients, AcquireThrows(p)
    PROVE  Untraced'
<1>1. UNCHANGED <<clean, used>>
  BY DEF AcquireThrows, CreateThrows, pools
<1>2. \A q \in Clients : client'[q] = IF q = p THEN IdleClient ELSE client[q]
  BY DEF AcquireThrows, OwnerAll, PoolInv, TypeOK
<1>3. AddsNoTrace
  BY <1>1, <1>2 DEF AddsNoTrace, IdleClient, Untraced
<1> QED
  BY <1>3, UntracedStays

LEMMA TickUntraced ==
    ASSUME OwnerAll, Untraced, NEW t \in Ticks, TickStart(t) \/ TickCleaned(t),
           Strict, ~ExecFails
    PROVE  Untraced'
<1>1. CASE TickStart(t)
  BY <1>1, OthersUntraced DEF TickStart, docker
<1>2. CASE TickCleaned(t)
  <2>1. PICK c \in Containers : c = tick[t].container
    BY <1>2 DEF TickCleaned, OwnerAll, PoolInv, TypeOK, MaybeContainer
  <2>2. PICK i \in Images : i = tick[t].image
    BY <1>2 DEF TickCleaned, OwnerAll, PoolInv, Placed
  <2>3. used' = used \ {c} /\ UNCHANGED client
    BY <1>2, <2>1 DEF TickCleaned, Cleanup
  <2>4. UNCHANGED clean \/ clean' = [clean EXCEPT ![i] = Append(@, c)]
    BY <1>2, <2>1, <2>2 DEF TickCleaned
  <2>5. \A j \in Images, d \in Containers : In(d, clean'[j]) => In(d, clean[j]) \/ d = c
    BY <2>4, PushedIn DEF OwnerAll, PoolInv, TypeOK
  <2> QED
    BY <2>3, <2>5, OthersUntraced
<1> QED
  BY <1>1, <1>2

LEMMA JobUntraced ==
    ASSUME OwnerAll, Untraced, NEW i \in Images,
           \/ Replenished(i) \/ ReplenishThrows(i) \/ JobEnds(i)
           \/ Warm(i) \/ Warmed(i) \/ WarmThrows(i)
    PROVE  Untraced'
<1>1. UNCHANGED client
  BY DEF Replenished, ReplenishThrows, JobEnds, Warm, Warmed, WarmThrows
<1>2. \/ UNCHANGED clean /\ used' \subseteq used
      \/ Create /\ clean' = [clean EXCEPT ![i] = Append(@, New)]
  BY DEF Replenished, ReplenishThrows, JobEnds, Warm, Warmed, WarmThrows, pools, docker,
         Create, CreateThrows
<1>3. CASE UNCHANGED clean /\ used' \subseteq used
  BY <1>1, <1>3, OthersUntraced
<1>4. CASE Create /\ clean' = [clean EXCEPT ![i] = Append(@, New)]
  <2>1. PICK c \in Containers : c = New
    BY <1>4, NewIsFresh, FreshIsContainer DEF Create
  <2>2. \A j \in Images, d \in Containers : In(d, clean'[j]) => In(d, clean[j]) \/ d = c
    BY <1>4, <2>1, PushedIn DEF OwnerAll, PoolInv, TypeOK
  <2>3. used' = used \ {c}
    BY <1>4, <2>1 DEF Create
  <2> QED
    BY <1>1, <2>2, <2>3, OthersUntraced
<1> QED
  BY <1>2, <1>3, <1>4

LEMMA DrainUntraced ==
    ASSUME OwnerAll, Untraced, DrainStart \/ DrainRemoves \/ DrainClears
    PROVE  Untraced'
<1>1. UNCHANGED client /\ used' \subseteq used
  BY DEF DrainStart, DrainRemoves, DrainClears, docker, Remove
<1>2. \A j \in Images, d \in Containers : In(d, clean'[j]) => In(d, clean[j])
  BY DEF DrainStart, DrainRemoves, DrainClears, pools, In
<1> QED
  BY <1>1, <1>2, OthersUntraced

\* Every step of the pool keeps traces where they may be.
LEMMA StepUntraced ==
    ASSUME OwnerAll, Untraced, [Next]_vars, Strict, ~ExecFails
    PROVE  Untraced'
<1>1. CASE UNCHANGED vars
  BY <1>1, OthersUntraced DEF vars
<1> QED
  BY <1>1, AcquireUntraced, CleanedImmediateUntraced, ScrubbedUntraced, CreatedUntraced,
     AcquireThrowsUntraced, ReleaseUntraced, TickUntraced, JobUntraced, DrainUntraced
     DEF Next

\* In strict mode, with cleanup commands that do their work, no execution is ever
\* given a container that has traces of another one: whatever interleaving of
\* acquire(), release(), the callbacks and the jobs led to it.
THEOREM PoolCleanSlate ==
    ASSUME Strict, ~ExecFails
    PROVE  Spec => []CleanSlate
<1>1. Init => Untraced
  BY DEF Init, Untraced, CleanSlate, IdleClient, In
<1>2. OwnerAll /\ Untraced /\ [Next]_vars => Untraced'
  BY StepUntraced
<1>3. Untraced => CleanSlate
  BY DEF Untraced
<1> QED
  BY <1>1, <1>2, <1>3, PoolOwnership, PTL DEF Spec
=============================================================================
