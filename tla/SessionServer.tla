--------------------------- MODULE SessionServer ---------------------------
(***************************************************************************)
(* Persistent sessions of the HTTP server, apps/server/src/index.ts, with  *)
(* the persistent half of the engine, packages/core/src/engine/docker.ts.  *)
(* Requests that name a session share the engine in the `sessions` map;    *)
(* every request goes through the server's semaphore, which is the module  *)
(* Semaphore.  DELETE /session/:id and the prune interval stop engines.    *)
(*                                                                         *)
(* An action is the code between two awaits.  A request creates at most    *)
(* one engine and at most one container, so both go by the name of the     *)
(* request that created them.  The semaphore inside an engine has the      *)
(* server's maxConcurrent as well: no request ever waits at it, and it is  *)
(* left out.  The network mode is not "filtered": startProxy() and          *)
(* setupIptables() return at once.  A request has code, so it writes a     *)
(* file.                                                                   *)
(***************************************************************************)
EXTENDS Naturals, Sequences, FiniteSets

CONSTANTS Requests,       \* the requests to /execute, /execute/stream, /execute/ws
          Sessions,       \* the session ids they name
          Runtimes,       \* the runtimes they ask for
          Stoppers,       \* runs of DELETE /session/:id and of the interval
          MaxConcurrent,  \* config.maxConcurrent
          None,           \* no session, no engine, no container, no runtime
          OneAtATime,     \* a session's requests never overlap
          NoLateArrival,  \* no request arrives while its session is stopped
          Fails           \* calls to Docker, or for remote code, may fail

\* What the map holds: an engine, isActive, and whether maxContainerAgeMs
\* passed since lastAccessedAt.
Session == [engine : Requests, active : BOOLEAN, old : BOOLEAN]

ASSUME ServerAssumption ==
    None \notin Requests \union Sessions \union Runtimes \union Session

\* What the constructor of the semaphore asks for; requests are finitely many.
ASSUME GateAssumption == MaxConcurrent \in Nat \ {0} /\ IsFiniteSet(Requests)

VARIABLES sessions,   \* for each id, the session in the map, or None
          container,  \* for each engine, this.container
          runtime,    \* for each engine, this.persistentRuntime
          live,       \* the containers that exist in Docker
          request,    \* for each request, where it is
          stopper,    \* for each stopping task, where it is
          permits, waiters, gate  \* the server's semaphore

engines == <<container, runtime>>
gateVars == <<permits, waiters, gate>>
vars == <<sessions, engines, live, request, stopper, gateVars>>

Gate == INSTANCE Semaphore WITH Callers <- Requests, Max <- MaxConcurrent,
            current <- permits, queue <- waiters, pc <- gate

NewRequest == [pc |-> "new", sid |-> None, runtime |-> None, engine |-> None,
               runs |-> None]
IdleStopper == [pc |-> "idle", sid |-> None, engine |-> None, prune |-> FALSE]

Init == /\ sessions = [s \in Sessions |-> None]
        /\ container = [e \in Requests |-> None]
        /\ runtime = [e \in Requests |-> None]
        /\ live = {}
        /\ request = [r \in Requests |-> NewRequest]
        /\ stopper = [k \in Stoppers |-> IdleStopper]
        /\ Gate!Init
-----------------------------------------------------------------------------
InProgress(r) == request[r].pc \notin {"new", "done"}
Goes(r, pc) == request' = [request EXCEPT ![r].pc = pc]

\* What this.container is for the request's engine, if it still exists.
Usable(r) == container[request[r].engine] \in live

\* How the clients behave.
MayArrive(s) ==
    /\ OneAtATime => \A r \in Requests : InProgress(r) => request[r].sid # s
    /\ NoLateArrival => \A k \in Stoppers : stopper[k].sid # s

\* Mutant: a session that is reused is not marked active.
ArriveQuietly(r, s, k) ==
    /\ request[r].pc = "new"
    /\ MayArrive(s)
    /\ IF sessions[s] # None
         THEN /\ sessions' = [sessions EXCEPT ![s].old = FALSE]
              /\ request' = [request EXCEPT ![r] = [@ EXCEPT !.pc = "gated", !.sid = s,
                                           !.runtime = k, !.engine = sessions[s].engine]]
              /\ Gate!Acquire(r)
         ELSE /\ request' = [request EXCEPT ![r] = [@ EXCEPT !.pc = "starting", !.sid = s,
                                                      !.runtime = k, !.engine = r]]
              /\ UNCHANGED <<sessions, gateVars>>
    /\ UNCHANGED <<engines, live, stopper>>

\* A request finds its session and goes to the semaphore, or makes an engine.
Arrive(r, s, k) ==
    /\ request[r].pc = "new"
    /\ MayArrive(s)
    /\ \/ /\ sessions[s] # None
          /\ sessions' = [sessions EXCEPT ![s].active = TRUE, ![s].old = FALSE]
          /\ request' = [request EXCEPT ![r] = [@ EXCEPT !.pc = "gated", !.sid = s,
                                       !.runtime = k, !.engine = sessions[s].engine]]
          /\ Gate!Acquire(r)
       \/ /\ sessions[s] = None
          /\ request' = [request EXCEPT ![r] = [@ EXCEPT !.pc = "starting", !.sid = s,
                                                 !.runtime = k, !.engine = r]]
          /\ UNCHANGED <<sessions, gateVars>>
    /\ UNCHANGED <<engines, live, stopper>>

\* engine.start() returned: the new session goes into the map.
Register(r) ==
    /\ request[r].pc = "starting"
    /\ sessions' = [sessions EXCEPT ![request[r].sid] =
                      [engine |-> r, active |-> TRUE, old |-> FALSE]]
    /\ Goes(r, "gated")
    /\ Gate!Acquire(r)
    /\ UNCHANGED <<engines, live, stopper>>

\* Mutant: a container of another runtime is used all the same.
LooksAway(r) == IF container[request[r].engine] = None THEN "creating" ELSE "ready"

\* Where executePersistent() goes from the engine's container and runtime.
Looks(r) == LET e == request[r].engine
            IN  IF container[e] = None THEN "creating"
                ELSE IF runtime[e] # request[r].runtime THEN "refused"
                ELSE "ready"

\* A permit is there: the request is resolved, which may throw, then
\* executePersistent() starts.
Begin(r) ==
    /\ request[r].pc = "gated"
    /\ Gate!Resume(r)
    /\ \/ Goes(r, Looks(r))
       \/ Fails /\ Goes(r, "failed")
    /\ UNCHANGED <<sessions, engines, live, stopper>>

\* createContainer() returned: this.container is set, then it is started.
Created(r) ==
    /\ request[r].pc = "creating"
    /\ live' = live \union {r}
    /\ container' = [container EXCEPT ![request[r].engine] = r]
    /\ Goes(r, "booting")
    /\ UNCHANGED <<sessions, runtime, stopper, gateVars>>

\* start() returned: only now does the engine know its runtime.
Booted(r) ==
    /\ request[r].pc = "booting"
    /\ r \in live
    /\ runtime' = [runtime EXCEPT ![request[r].engine] = request[r].runtime]
    /\ Goes(r, "ready")
    /\ UNCHANGED <<sessions, container, live, stopper, gateVars>>

\* The code file is written to whatever this.container is by now.
Write(r) ==
    /\ request[r].pc = "ready"
    /\ Usable(r)
    /\ Goes(r, "written")
    /\ UNCHANGED <<sessions, engines, live, stopper, gateVars>>

\* The exec is created in whatever this.container is by now.
Exec(r) ==
    /\ request[r].pc = "written"
    /\ Usable(r)
    /\ request' = [request EXCEPT ![r].pc = "executing",
                                  ![r].runs = container[request[r].engine]]
    /\ UNCHANGED <<sessions, engines, live, stopper, gateVars>>

\* A step throws: Docker refuses, this.container is null, or it was removed.
Throws(r) ==
    /\ \/ Fails /\ request[r].pc \in {"creating", "booting", "ready", "written"}
       \/ request[r].pc \in {"ready", "written"} /\ ~Usable(r)
       \/ request[r].pc = "booting" /\ r \notin live
    /\ Goes(r, "failed")
    /\ UNCHANGED <<sessions, engines, live, stopper, gateVars>>

\* Mutant: what the finally blocks do is done on success only.
FinishUnlessThrown(r) ==
    LET s == request[r].sid
    IN  /\ Goes(r, "done")
        /\ \/ /\ request[r].pc = "executing"
              /\ Gate!Release(r)
              /\ sessions' = IF sessions[s] = None THEN sessions
                             ELSE [sessions EXCEPT ![s].active = FALSE, ![s].old = FALSE]
           \/ /\ request[r].pc \in {"failed", "refused"}
              /\ UNCHANGED <<sessions, gateVars>>
        /\ UNCHANGED <<engines, live, stopper>>

\* The execution ended or threw: the finally blocks release the permit and
\* mark whatever session the id stands for by now as inactive.
Finish(r) ==
    LET s == request[r].sid
    IN  /\ request[r].pc \in {"executing", "failed", "refused"}
        /\ Gate!Release(r)
        /\ Goes(r, "done")
        /\ sessions' = IF sessions[s] = None THEN sessions
                       ELSE [sessions EXCEPT ![s].active = FALSE, ![s].old = FALSE]
        /\ UNCHANGED <<engines, live, stopper>>
-----------------------------------------------------------------------------
\* maxContainerAgeMs pass without an access to the session.
Age(s) ==
    /\ sessions[s] # None /\ ~sessions[s].old
    /\ sessions' = [sessions EXCEPT ![s].old = TRUE]
    /\ UNCHANGED <<engines, live, request, stopper, gateVars>>

\* POST /file and GET /file set lastAccessedAt; isActive stays as it is.
TransferFile(s) ==
    /\ sessions[s] # None /\ sessions[s].old
    /\ sessions' = [sessions EXCEPT ![s].old = FALSE]
    /\ UNCHANGED <<engines, live, request, stopper, gateVars>>

\* Mutant: the interval does not look at isActive.
StopAnyStale(k, s, prune) ==
    /\ stopper[k] = IdleStopper
    /\ sessions[s] # None
    /\ prune => sessions[s].old
    /\ OneAtATime /\ ~prune => \A r \in Requests : InProgress(r) => request[r].sid # s
    /\ stopper' = [stopper EXCEPT ![k] =
                     [pc |-> IF container[sessions[s].engine] = None
                               THEN "deleting" ELSE "stopping",
                      sid |-> s, engine |-> sessions[s].engine, prune |-> prune]]
    /\ UNCHANGED <<sessions, engines, live, request, gateVars>>

\* engine.stop() is called, by DELETE or for a stale session by the interval,
\* which skips the active ones.
Stop(k, s, prune) ==
    /\ stopper[k] = IdleStopper
    /\ sessions[s] # None
    /\ prune => ~sessions[s].active /\ sessions[s].old
    /\ OneAtATime /\ ~prune => \A r \in Requests : InProgress(r) => request[r].sid # s
    /\ stopper' = [stopper EXCEPT ![k] =
                     [pc |-> IF container[sessions[s].engine] = None
                               THEN "deleting" ELSE "stopping",
                      sid |-> s, engine |-> sessions[s].engine, prune |-> prune]]
    /\ UNCHANGED <<sessions, engines, live, request, gateVars>>

\* Mutant: the container is stopped and not removed.
StopLeaves(k) ==
    /\ stopper[k].pc = "stopping"
    /\ stopper' = [stopper EXCEPT ![k].pc = "removing"]
    /\ UNCHANGED <<sessions, engines, live, request, gateVars>>

\* stop() of the container returned; remove() goes to whatever this.container
\* is by now, and an error of either is swallowed.
StopRemoves(k) ==
    /\ stopper[k].pc = "stopping"
    /\ live' = live \ {container[stopper[k].engine]}
    /\ stopper' = [stopper EXCEPT ![k].pc = "removing"]
    /\ UNCHANGED <<sessions, engines, request, gateVars>>

StopForgets(k) ==
    /\ stopper[k].pc = "removing"
    /\ container' = [container EXCEPT ![stopper[k].engine] = None]
    /\ runtime' = [runtime EXCEPT ![stopper[k].engine] = None]
    /\ stopper' = [stopper EXCEPT ![k].pc = "deleting"]
    /\ UNCHANGED <<sessions, live, request, gateVars>>

\* sessions.delete(id), whatever session the id stands for by now.
StopDeletes(k) ==
    /\ stopper[k].pc = "deleting"
    /\ sessions' = [sessions EXCEPT ![stopper[k].sid] = None]
    /\ stopper' = [stopper EXCEPT ![k] = IdleStopper]
    /\ UNCHANGED <<engines, live, request, gateVars>>

Next == \/ \E r \in Requests :
              \/ \E s \in Sessions, k \in Runtimes : Arrive(r, s, k)
              \/ Register(r)
              \/ Begin(r)
              \/ Created(r)
              \/ Booted(r)
              \/ Write(r)
              \/ Exec(r)
              \/ Throws(r)
              \/ Finish(r)
        \/ \E s \in Sessions : Age(s) \/ TransferFile(s)
        \/ \E k \in Stoppers :
              \/ \E s \in Sessions, prune \in BOOLEAN : Stop(k, s, prune)
              \/ StopRemoves(k)
              \/ StopForgets(k)
              \/ StopDeletes(k)

Spec == Init /\ [][Next]_vars
-----------------------------------------------------------------------------
MaybeRequest == Requests \union {None}

\* The types of the variables.
TypeOK ==
    /\ sessions \in [Sessions -> Session \union {None}]
    /\ container \in [Requests -> MaybeRequest]
    /\ runtime \in [Requests -> Runtimes \union {None}]
    /\ live \in SUBSET Requests
    /\ request \in [Requests ->
          [pc : {"new", "starting", "gated", "creating", "booting", "ready", "written",
                 "executing", "failed", "refused", "done"},
           sid : Sessions \union {None}, runtime : Runtimes \union {None},
           engine : MaybeRequest, runs : MaybeRequest]]
    /\ stopper \in [Stoppers ->
          [pc : {"idle", "stopping", "removing", "deleting"},
           sid : Sessions \union {None}, engine : MaybeRequest, prune : BOOLEAN]]
    /\ Gate!TypeOK

Executing(r) == request[r].pc = "executing"

\* An execution runs in the session its id stands for, and that session is
\* marked active: this is what keeps the prune interval away from it.
ActiveWhileExecuting ==
    \A r \in Requests : Executing(r) =>
        /\ sessions[request[r].sid] # None
        /\ sessions[request[r].sid].engine = request[r].engine
        /\ sessions[request[r].sid].active

\* An execution runs in a container of the runtime it asked for.
RightRuntime ==
    \A r \in Requests : Executing(r) => request[request[r].runs].runtime = request[r].runtime

\* The container of an execution is not removed under it.
ExecutesInLive == \A r \in Requests : Executing(r) => request[r].runs \in live

AtRest == /\ \A r \in Requests : ~InProgress(r)
          /\ \A k \in Stoppers : stopper[k] = IdleStopper

\* With no request under way every container belongs to a session of the map,
\* so that DELETE, the interval or POST /cleanup can still stop it.
NoOrphan ==
    AtRest => live \subseteq {container[sessions[s].engine] :
                                s \in {t \in Sessions : sessions[t] # None}}

\* With no request under way no session is left marked active, which would
\* keep it from being pruned for ever.
NoStuckActive ==
    AtRest => \A s \in Sessions : sessions[s] # None => ~sessions[s].active

\* The interval removes no session from the map while it is marked active.
PruneSkipsActive ==
    [][\A k \in Stoppers :
          stopper[k].pc = "deleting" /\ stopper[k].prune /\ stopper'[k].pc = "idle"
             => sessions[stopper[k].sid] = None \/ ~sessions[stopper[k].sid].active]_vars

=============================================================================
