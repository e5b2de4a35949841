-------------------------- MODULE ServerLifecycle --------------------------
(***************************************************************************)
(* The life of a server process: apps/server/src/standalone.ts and the     *)
(* cleanup of apps/server/src/index.ts, around the sessions and requests   *)
(* of SessionServer.  The process finds a port, serves, cleans up when it  *)
(* is asked to, and on a signal cleans up once more and exits.             *)
(*                                                                         *)
(* runCleanup() stops the sessions and removes every container it then     *)
(* finds in Docker; while one is under way another caller waits for the    *)
(* same result.  The images, which it may remove as well, are in the       *)
(* module ImageResolution.  Docker answers what a cleanup asks.  Ephemeral *)
(* requests have an engine of their own, whose pool, the module            *)
(* ContainerPool, is here the container their code runs in.                *)
(***************************************************************************)
EXTENDS SessionServer

CONSTANTS Alone,     \* the requests that may come without a session
          Foreign,   \* those whose container has an image without isol8: in its tag
          Cleaner,   \* the stopping task of cleanupSessions()
          Callers    \* the callers of runCleanup() by POST /cleanup

Signal == "signal"   \* the caller of runCleanup() that is shutdown()

ASSUME LifecycleAssumption == Cleaner \in Stoppers /\ Alone \subseteq Requests /\ Signal \notin Callers

VARIABLES process,   \* where the process is
          portFree,  \* whether the port it wants is free
          cleanup,   \* cleanupInFlight
          caller     \* for each caller of runCleanup(), where it is

lifeVars == <<process, portFree, cleanup, caller>>
allVars == <<vars, lifeVars>>

Asking == Callers \union {Signal}
NoCleanup == [pc |-> "none", found |-> {}, ended |-> {}]

InitLife == /\ Init
            /\ process = [pc |-> "resolving", listening |-> FALSE, shuttingDown |-> FALSE]
            /\ portFree = TRUE
            /\ cleanup = NoCleanup
            /\ caller = [a \in Asking |-> "idle"]
-----------------------------------------------------------------------------
Running == process.pc # "exited"
Listening == Running /\ process.listening

\* resolveAvailablePort(): the port is free, or another one is found.
ResolvePort == /\ process.pc \in {"resolving", "retrying"}
               /\ process' = [process EXCEPT !.pc = "binding"]
               /\ portFree' = TRUE
               /\ UNCHANGED <<vars, cleanup, caller>>

\* The port is taken and whoever is at the terminal chooses to exit.
CancelStartup == /\ process.pc = "resolving" \/ process.pc = "retrying"
                 /\ process' = [process EXCEPT !.pc = "exited"]
                 /\ UNCHANGED <<vars, portFree, cleanup, caller>>

\* Another process takes the port after it was found free.
PortTaken == /\ process.pc = "binding" /\ portFree
             /\ portFree' = FALSE
             /\ UNCHANGED <<vars, process, cleanup, caller>>

\* Bun.serve(), which throws EADDRINUSE if the port was taken.  It does not
\* look at shuttingDown.
Serve == /\ process.pc = "binding"
         /\ process' = IF portFree
                         THEN [process EXCEPT !.pc = "serving", !.listening = TRUE]
                         ELSE [process EXCEPT !.pc = "retrying"]
         /\ UNCHANGED <<vars, portFree, cleanup, caller>>
-----------------------------------------------------------------------------
Ephemeral(r) == request[r].pc # "new" /\ request[r].sid = None

\* A request without a session gets an engine of its own.
ArriveEphemeral(r, k) ==
    /\ request[r].pc = "new"
    /\ request' = [request EXCEPT ![r] = [@ EXCEPT !.pc = "gated", !.runtime = k,
                                                   !.engine = r]]
    /\ Gate!Acquire(r)
    /\ UNCHANGED <<sessions, engines, live, stopper>>

\* The engine's pool creates a container and the code runs in it.
CreatedEphemeral(r) ==
    /\ Ephemeral(r) /\ request[r].pc = "creating"
    /\ live' = live \union {r}
    /\ request' = [request EXCEPT ![r].pc = "executing", ![r].runs = r]
    /\ UNCHANGED <<sessions, engines, stopper, gateVars>>

\* The execution ended or threw: the permit is released, the engine stopped.
FinishEphemeral(r) ==
    /\ Ephemeral(r) /\ request[r].pc \in {"executing", "failed"}
    /\ Gate!Release(r)
    /\ Goes(r, "stopping")
    /\ UNCHANGED <<sessions, engines, live, stopper>>

\* engine.stop() of an ephemeral request drains its pool, which misses the
\* container if its release is still under way.
EngineStopped(r) ==
    /\ Ephemeral(r) /\ request[r].pc = "stopping"
    /\ live' = live \ {r} \/ live' = live
    /\ Goes(r, "done")
    /\ UNCHANGED <<sessions, engines, stopper, gateVars>>

EphemeralStep(r) == CreatedEphemeral(r) \/ FinishEphemeral(r) \/ EngineStopped(r)

SessionStep(r) == /\ request[r].sid # None
                  /\ \/ Register(r) \/ Created(r) \/ Booted(r)
                     \/ Write(r) \/ Exec(r) \/ Finish(r)

ServeRequest(r) == /\ Running
                   /\ SessionStep(r) \/ EphemeralStep(r) \/ Begin(r) \/ Throws(r)
                   /\ UNCHANGED lifeVars

ArriveAny(r) == /\ Listening
                /\ \/ \E s \in Sessions, k \in Runtimes : Arrive(r, s, k)
                   \/ r \in Alone /\ \E k \in Runtimes : ArriveEphemeral(r, k)
                /\ UNCHANGED lifeVars

\* DELETE /session/:id.  The interval, which shutdown() clears, stops no
\* session that a DELETE could not stop, and is left out with the ages.
StopSession(k, s) == /\ k # Cleaner
                     /\ Listening
                     /\ Stop(k, s, FALSE)
                     /\ UNCHANGED lifeVars

StopStep(k) == /\ Running
               /\ StopRemoves(k) \/ StopForgets(k) \/ StopDeletes(k)
               /\ UNCHANGED lifeVars
-----------------------------------------------------------------------------
Done == {r \in Requests : request[r].pc = "done"}

\* runCleanup(): the cleanup under way is shared.
RunCleanup(a) ==
    /\ caller' = [caller EXCEPT ![a] = "waiting"]
    /\ cleanup' = IF cleanup.pc # "none" THEN cleanup
                  ELSE [NoCleanup EXCEPT !.pc = "sessions", !.ended = Done]

\* POST /cleanup
PostCleanup(a) == /\ Listening
                  /\ caller[a] = "idle"
                  /\ RunCleanup(a)
                  /\ UNCHANGED <<vars, process, portFree>>

\* SIGINT or SIGTERM: gracefulShutdown() stops listening, if it does listen,
\* and calls shutdown().
Terminate ==
    /\ process.pc \in {"serving", "retrying"} /\ ~process.shuttingDown
    /\ process' = [process EXCEPT !.shuttingDown = TRUE, !.listening = FALSE]
    /\ RunCleanup(Signal)
    /\ UNCHANGED <<vars, portFree>>

Cleans(next) == cleanup' = [cleanup EXCEPT !.pc = next]

\* cleanupSessions() takes the next session of the map and stops it.
CleanSession(s) == /\ Running
                   /\ cleanup.pc = "sessions"
                   /\ Stop(Cleaner, s, FALSE)
                   /\ UNCHANGED lifeVars

SessionsCleaned == /\ Running
                   /\ cleanup.pc = "sessions"
                   /\ stopper[Cleaner] = IdleStopper
                   /\ \A s \in Sessions : sessions[s] = None
                   /\ Cleans("listing")
                   /\ UNCHANGED <<vars, process, portFree, caller>>

\* Mutant: only the containers of the sessions that are left are removed.
ListSessions == /\ Running
                /\ cleanup.pc = "listing"
                /\ cleanup' = [cleanup EXCEPT !.pc = "containers", !.found =
                                 live \intersect {container[sessions[s].engine] :
                                   s \in {t \in Sessions : sessions[t] # None}}]
                /\ UNCHANGED <<vars, process, portFree, caller>>

\* DockerIsol8.cleanup(): the containers of images tagged isol8: are listed, not
\* those of custom images with a tag of another name.
ListContainers == /\ Running
                  /\ cleanup.pc = "listing"
                  /\ cleanup' = [cleanup EXCEPT !.pc = "containers", !.found = live \ Foreign]
                  /\ UNCHANGED <<vars, process, portFree, caller>>

\* One of them is removed by force, whatever runs in it.
RemoveContainer(c) ==
    /\ Running
    /\ c \in cleanup.found
    /\ live' = live \ {c}
    /\ cleanup' = [cleanup EXCEPT !.found = @ \ {c}]
    /\ UNCHANGED <<sessions, engines, request, stopper, gateVars>>
    /\ UNCHANGED <<process, portFree, caller>>

\* Mutant: only one of those who wait for the cleanup is answered.
SettleForOne == /\ Running
                /\ cleanup.pc = "containers" /\ cleanup.found = {}
                /\ cleanup' = NoCleanup
                /\ \E a \in Asking : /\ caller[a] = "waiting"
                                     /\ caller' = [caller EXCEPT ![a] = "answered"]
                /\ UNCHANGED <<vars, process, portFree>>

\* The promise settles: every caller is answered.
Settle == /\ Running
          /\ cleanup.pc = "containers" /\ cleanup.found = {}
          /\ cleanup' = NoCleanup
          /\ caller' = [a \in Asking |-> IF caller[a] = "waiting" THEN "answered"
                                                                 ELSE caller[a]]
          /\ UNCHANGED <<vars, process, portFree>>

\* shutdown() returned: the key store is closed and the process exits.
Exit == /\ Running
        /\ caller[Signal] = "answered"
        /\ process' = [process EXCEPT !.pc = "exited"]
        /\ UNCHANGED <<vars, portFree, cleanup, caller>>

CleanupStep == \/ SessionsCleaned \/ ListContainers \/ Settle \/ Exit
               \/ \E s \in Sessions : CleanSession(s)
               \/ \E c \in Requests : RemoveContainer(c)

NextLife == \/ ResolvePort \/ CancelStartup \/ PortTaken \/ Serve
            \/ \E r \in Requests : ArriveAny(r) \/ ServeRequest(r)
            \/ \E k \in Stoppers :
                  \/ \E s \in Sessions : StopSession(k, s)
                  \/ StopStep(k)
            \/ \E a \in Callers : PostCleanup(a)
            \/ Terminate
            \/ CleanupStep

SpecLife == InitLife /\ [][NextLife]_allVars

\* Docker answers, executions are bounded by their timeout and the event loop
\* goes on, until the process exits.  The work there is is finite, so that it
\* is enough to ask that some of it is done as long as there is any.
FairSpecLife == /\ SpecLife
                /\ WF_allVars(\/ \E r \in Requests : ServeRequest(r)
                              \/ \E k \in Stoppers : StopStep(k)
                              \/ CleanupStep)
-----------------------------------------------------------------------------
\* The types of the variables.
LifeTypeOK ==
    /\ process \in [pc : {"resolving", "binding", "retrying", "serving", "exited"},
                    listening : BOOLEAN, shuttingDown : BOOLEAN]
    /\ portFree \in BOOLEAN
    /\ cleanup \in [pc : {"none", "sessions", "listing", "containers"},
                    found : SUBSET Requests, ended : SUBSET Requests]
    /\ caller \in [Asking -> {"idle", "waiting", "answered"}]

\* A cleanup that is over left no container of a request that had ended before
\* it began, not even one that no session and no engine knows of any more; only
\* those it does not look for may be left.
CleanupSweeps ==
    [][cleanup.pc # "none" /\ cleanup'.pc = "none" =>
         live \intersect cleanup.ended \subseteq Foreign]_allVars

\* Whoever calls runCleanup() is answered, a signal too, which then ends the
\* process: also with a cleanup under way and sessions coming and going.
EveryCallerAnswered == \A a \in Asking : caller[a] = "waiting" ~> caller[a] = "answered" \/ ~Running

\* Every request that arrived is answered, unless the process exits first: also
\* one whose container or whose session the cleanup takes away.
EveryRequestIsAnswered ==
    \A r \in Requests : InProgress(r) ~> request[r].pc = "done" \/ ~Running
=============================================================================
