---------------------------- MODULE ServerProofs ----------------------------
(***************************************************************************)
(* The sessions and requests of the HTTP server, for any number of         *)
(* requests, sessions, runtimes and stopping tasks.                        *)
(*                                                                         *)
(* The first part is about clients that wait: a session's requests do not  *)
(* overlap, and none arrives while its session is stopped.  SessInv says   *)
(* for whom every engine and container was made, and how far each request  *)
(* and each stopping task is with them.  Its parts need each other: that   *)
(* an engine is used by one request, and not while it is stopped, is what  *)
(* keeps the facts on its container true while others take steps.         *)
(*                                                                         *)
(* The second part is about clients of any kind, under the steps of        *)
(* SessionServer and under those of ServerLifecycle, with ephemeral        *)
(* requests, cleanups and the end of the process: the server's semaphore   *)
(* goes through the states of the class, whose theorems hold of it, and    *)
(* no session stays marked active when nothing runs.                       *)
(*                                                                         *)
(* The third part is about the cleanup and the end of the process.         *)
(***************************************************************************)
EXTENDS ServerLifecycle, FiniteSetTheorems, TLAPS

\* Where a request can be, and the types of requests and of stopping tasks.
Pcs == {"new", "starting", "gated", "creating", "booting", "ready", "written",
        "executing", "failed", "refused", "done"}

Record == [pc : Pcs, sid : Sessions \union {None}, runtime : Runtimes \union {None},
           engine : MaybeRequest, runs : MaybeRequest]
Task == [pc : {"idle", "stopping", "removing", "deleting"},
         sid : Sessions \union {None}, engine : MaybeRequest, prune : BOOLEAN]

\* The types of the variables, but for the semaphore's.
Types ==
    /\ sessions \in [Sessions -> Session \union {None}]
    /\ container \in [Requests -> MaybeRequest]
    /\ runtime \in [Requests -> Runtimes \union {None}]
    /\ live \in SUBSET Requests
    /\ request \in [Requests -> Record]
    /\ stopper \in [Stoppers -> Task]

\* Engine e was made for session s.
MadeFor(e, s) == /\ e \in Requests /\ s \in Sessions
                 /\ request[e].pc # "new" /\ request[e].sid = s

\* Whoever names an engine and a session names an engine made for that session.
Known == /\ \A r \in Requests : request[r].pc # "new" =>
              /\ request[r].runtime \in Runtimes
              /\ MadeFor(request[r].engine, request[r].sid)
         /\ \A r \in Requests : request[r].pc = "starting" => request[r].engine = r
         /\ \A s \in Sessions : sessions[s] # None => MadeFor(sessions[s].engine, s)
         /\ \A k \in Stoppers : stopper[k].pc # "idle" =>
              MadeFor(stopper[k].engine, stopper[k].sid)

\* The requests of a session do not overlap with each other or with its end.
Serial == /\ \A q, r \in Requests :
               InProgress(q) /\ InProgress(r) /\ request[q].sid = request[r].sid => q = r
          /\ \A r \in Requests, k \in Stoppers :
               InProgress(r) /\ stopper[k].pc # "idle" => request[r].sid # stopper[k].sid

\* A request in progress has the session of its id.
Attached == \A r \in Requests : InProgress(r) =>
              LET s == sessions[request[r].sid]
              IN  IF request[r].pc = "starting" THEN s = None
                  ELSE s # None /\ s.active /\ s.engine = request[r].engine

\* How far a request is with the container of its engine.
Progress == \A r \in Requests :
              LET e == request[r].engine
              IN  /\ request[r].pc = "creating" => container[e] = None
                  /\ request[r].pc = "booting" => container[e] = r /\ runtime[e] = None
                  /\ request[r].pc \in {"ready", "written", "executing"} =>
                        container[e] # None /\ runtime[e] = request[r].runtime
                  /\ request[r].pc = "executing" =>
                        request[r].runs = container[e] /\ container[e] \in live

\* A container was created for its engine, by a request for its runtime.
Engines == \A e \in Requests :
             LET c == container[e]
             IN  /\ c = None => runtime[e] = None
                 /\ c # None =>
                      /\ request[c].pc \notin {"new", "starting", "gated", "creating"}
                      /\ request[c].engine = e
                      /\ runtime[e] # None => request[c].runtime = runtime[e]

\* A container in Docker is its engine's, and the engine is its session's.
LiveKnown == \A c \in live :
               /\ request[c].pc \notin {"new", "starting", "gated", "creating"}
               /\ container[request[c].engine] = c
               /\ sessions[request[c].sid] # None
               /\ sessions[request[c].sid].engine = request[c].engine

\* How far a stopping task is with the container and the session of its engine.
Stopped == \A k \in Stoppers :
             LET s == sessions[stopper[k].sid]
             IN  /\ stopper[k].pc = "removing" => container[stopper[k].engine] \notin live
                 /\ stopper[k].pc = "deleting" => container[stopper[k].engine] = None
                 /\ stopper[k].pc # "idle" /\ s # None =>
                      /\ s.engine = stopper[k].engine
                      /\ stopper[k].prune => ~s.active

\* The inductive invariant for clients that wait.
SessInv == /\ Types /\ Known /\ Serial /\ Attached
           /\ Progress /\ Engines /\ LiveKnown /\ Stopped
-----------------------------------------------------------------------------
\* What changes of a request that goes on.
LEMMA GoesFacts ==
    ASSUME Types, NEW r \in Requests, NEW pc \in Pcs, Goes(r, pc)
    PROVE  /\ request' \in [Requests -> Record]
           /\ \A q \in Requests : /\ request'[q].pc = IF q = r THEN pc ELSE request[q].pc
                                 /\ request'[q].sid = request[q].sid
                                 /\ request'[q].runtime = request[q].runtime
                                 /\ request'[q].engine = request[q].engine
                                 /\ request'[q].runs = request[q].runs
  BY DEF Types, Record, Goes

\* The session a request finds becomes active, and the new request is alone in it.
LEMMA ArriveInv ==
    ASSUME SessInv, OneAtATime, NoLateArrival,
           NEW r \in Requests, NEW s \in Sessions, NEW k \in Runtimes, Arrive(r, s, k)
    PROVE  SessInv'
<1>1. Types
  BY DEF SessInv
<1>2. /\ request[r].pc = "new"
      /\ \A q \in Requests : InProgress(q) => request[q].sid # s
      /\ \A n \in Stoppers : stopper[n].sid # s
      /\ UNCHANGED <<container, runtime, live, stopper>>
  BY DEF Arrive, MayArrive, engines
<1>3. \A q \in Requests \ {r} : request'[q] = request[q]
  BY <1>1 DEF Arrive, Types
<1>4. /\ live \subseteq Requests
      /\ \A e \in Requests : container[e] \in Requests \union {None}
  BY <1>1 DEF Types, MaybeRequest
<1>5. CASE sessions[s] = None
  <2>1. sessions' = sessions
    BY <1>5 DEF Arrive
  <2>2. request' = [request EXCEPT ![r] = [@ EXCEPT !.pc = "starting", !.sid = s,
                                                    !.runtime = k, !.engine = r]]
    BY <1>5 DEF Arrive
  <2>3. /\ request'[r].pc = "starting" /\ request'[r].sid = s
        /\ request'[r].runtime = k /\ request'[r].engine = r
    BY <1>1, <2>2 DEF Types, Record
  <2>4. Types'
    <3>1. [request[r] EXCEPT !.pc = "starting", !.sid = s, !.runtime = k, !.engine = r]
             \in Record
      BY <1>1 DEF Types, Record, Pcs, MaybeRequest
    <3> QED  BY <1>1, <1>2, <2>1, <2>2, <3>1 DEF Types
  <2>5. Known'
    BY <1>2, <1>3, <2>1, <2>3 DEF SessInv, Known, MadeFor
  <2>6. Serial'
    BY <1>2, <1>3, <2>3 DEF SessInv, Serial, InProgress
  <2>7. Attached'
    BY <1>2, <1>3, <1>5, <2>1, <2>3 DEF SessInv, Attached, InProgress
  <2>8. Progress'
    BY <1>2, <1>3, <2>3 DEF SessInv, Progress
  <2>9. Engines'
    BY <1>2, <1>3, <1>4, <2>3, ServerAssumption DEF SessInv, Engines
  <2>10. LiveKnown'
    BY <1>2, <1>3, <1>4, <2>1, <2>3 DEF SessInv, LiveKnown
  <2>11. Stopped'
    BY <1>2, <2>1 DEF SessInv, Stopped
  <2> QED  BY <2>4, <2>5, <2>6, <2>7, <2>8, <2>9, <2>10, <2>11 DEF SessInv
<1>6. CASE sessions[s] # None
  <2>1. sessions' = [sessions EXCEPT ![s].active = TRUE, ![s].old = FALSE]
    BY <1>6 DEF Arrive
  <2>2. /\ sessions[s] \in Session
        /\ MadeFor(sessions[s].engine, s)
    BY <1>1, <1>6 DEF SessInv, Types, Known
  <2>3. /\ sessions'[s].engine = sessions[s].engine /\ sessions'[s].active
        /\ sessions'[s] \in Session /\ sessions'[s] # None
        /\ \A t \in Sessions : t # s => sessions'[t] = sessions[t]
        /\ sessions' \in [Sessions -> Session \union {None}]
    BY <1>1, <2>1, <2>2, ServerAssumption DEF Types, Session
  <2>4. request' = [request EXCEPT ![r] = [@ EXCEPT !.pc = "gated", !.sid = s,
                                !.runtime = k, !.engine = sessions[s].engine]]
    BY <1>6 DEF Arrive
  <2>5. /\ request'[r].pc = "gated" /\ request'[r].sid = s
        /\ request'[r].runtime = k /\ request'[r].engine = sessions[s].engine
    BY <1>1, <2>4 DEF Types, Record
  <2>6. Types'
    <3>1. sessions[s].engine \in Requests
      BY <2>2 DEF MadeFor
    <3>2. \A e \in Requests : [request[r] EXCEPT !.pc = "gated", !.sid = s, !.runtime = k,
                                                 !.engine = e] \in Record
      BY <1>1 DEF Types, Record, Pcs, MaybeRequest
    <3> QED  BY <1>1, <1>2, <2>3, <2>4, <3>1, <3>2 DEF Types
  <2>7. Known'
    BY <1>2, <1>3, <2>2, <2>3, <2>5 DEF SessInv, Known, MadeFor
  <2>8. Serial'
    BY <1>2, <1>3, <2>5 DEF SessInv, Serial, InProgress
  <2>9. Attached'
    BY <1>2, <1>3, <1>6, <2>3, <2>5 DEF SessInv, Known, MadeFor, Attached, InProgress
  <2>10. Progress'
    BY <1>2, <1>3, <2>5 DEF SessInv, Progress
  <2>11. Engines'
    BY <1>2, <1>3, <1>4, <2>5, ServerAssumption DEF SessInv, Engines
  <2>12. LiveKnown'
    BY <1>2, <1>3, <1>4, <2>3, <2>5 DEF SessInv, Known, MadeFor, LiveKnown
  <2>13. Stopped'
    BY <1>2, <2>3 DEF SessInv, Known, MadeFor, Stopped
  <2> QED  BY <2>6, <2>7, <2>8, <2>9, <2>10, <2>11, <2>12, <2>13 DEF SessInv
<1> QED  BY <1>5, <1>6

\* An engine that has its session in the map knows it.
LEMMA RegisterInv ==
    ASSUME SessInv, NEW r \in Requests, Register(r)
    PROVE  SessInv'
<1> DEFINE s == request[r].sid
<1>1. Types
  BY DEF SessInv
<1>2. /\ request[r].pc = "starting"
      /\ UNCHANGED <<container, runtime, live, stopper>>
      /\ Goes(r, "gated")
  BY DEF Register, engines
<1>3. /\ request' \in [Requests -> Record]
      /\ \A q \in Requests : /\ request'[q].pc = IF q = r THEN "gated" ELSE request[q].pc
                            /\ request'[q].sid = request[q].sid
                            /\ request'[q].runtime = request[q].runtime
                            /\ request'[q].engine = request[q].engine
                            /\ request'[q].runs = request[q].runs
  BY <1>1, <1>2, GoesFacts DEF Pcs
<1>4. s \in Sessions /\ sessions[s] = None /\ MadeFor(r, s) /\ request[r].engine = r
  BY <1>2 DEF SessInv, Known, MadeFor, Attached, InProgress
<1>5. sessions' = [sessions EXCEPT ![s] = [engine |-> r, active |-> TRUE, old |-> FALSE]]
  BY DEF Register
<1>6. [engine |-> r, active |-> TRUE, old |-> FALSE] \in Session
  BY DEF Session
<1>7. /\ sessions' \in [Sessions -> Session \union {None}]
      /\ sessions'[s].engine = r /\ sessions'[s].active /\ sessions'[s] # None
      /\ \A t \in Sessions : t # s => sessions'[t] = sessions[t]
  BY <1>1, <1>4, <1>5, <1>6, ServerAssumption DEF Types
<1>8. live \subseteq Requests
  BY <1>1 DEF Types
<1> HIDE DEF s
<1>9. s = request[r].sid
  BY DEF s
<1>10. Types'
  BY <1>1, <1>2, <1>3, <1>7 DEF Types
<1>11. Known'
  BY <1>2, <1>3, <1>4, <1>7 DEF SessInv, Known, MadeFor
<1>12. Serial'
  BY <1>2, <1>3 DEF SessInv, Serial, InProgress
<1>13. Attached'
  BY <1>2, <1>3, <1>4, <1>7, <1>9 DEF SessInv, Known, MadeFor, Serial, Attached, InProgress
<1>14. Progress'
  BY <1>2, <1>3 DEF SessInv, Progress
<1>15. Engines'
  <2>1. \A e \in Requests : container[e] # None => container[e] \in Requests
    BY <1>1 DEF Types, MaybeRequest
  <2> QED  BY <1>2, <1>3, <2>1 DEF SessInv, Engines
<1>16. LiveKnown'
  BY <1>2, <1>3, <1>4, <1>7, <1>8 DEF SessInv, Known, MadeFor, LiveKnown
<1>17. Stopped'
  BY <1>2, <1>4, <1>7, <1>9 DEF SessInv, Known, MadeFor, Serial, InProgress, Stopped
<1> QED  BY <1>10, <1>11, <1>12, <1>13, <1>14, <1>15, <1>16, <1>17 DEF SessInv

\* A request goes on and nothing else changes.
LEMMA MoveInv ==
    ASSUME SessInv, NEW r \in Requests,
           NEW pc \in {"creating", "refused", "ready", "written", "failed"}, Goes(r, pc),
           UNCHANGED <<sessions, engines, live, stopper>>,
           request[r].pc \in {"gated", "creating", "booting", "ready", "written"},
           pc = "creating" => request[r].pc = "gated" /\ container[request[r].engine] = None,
           pc \in {"ready", "written"} => request[r].pc \notin {"creating", "booting"}
              /\ container[request[r].engine] # None
              /\ runtime[request[r].engine] = request[r].runtime
    PROVE  SessInv'
<1>1. Types
  BY DEF SessInv
<1>2. UNCHANGED <<sessions, container, runtime, live, stopper>>
  BY DEF engines
<1>3. /\ request' \in [Requests -> Record]
      /\ \A q \in Requests : /\ request'[q].pc = IF q = r THEN pc ELSE request[q].pc
                            /\ request'[q].sid = request[q].sid
                            /\ request'[q].runtime = request[q].runtime
                            /\ request'[q].engine = request[q].engine
                            /\ request'[q].runs = request[q].runs
  BY <1>1, GoesFacts DEF Pcs
<1>4. /\ live \subseteq Requests
      /\ \A e \in Requests : container[e] # None => container[e] \in Requests
  BY <1>1 DEF Types, MaybeRequest
<1>5. Types'
  BY <1>1, <1>2, <1>3 DEF Types
<1>6. Known'
  BY <1>2, <1>3 DEF SessInv, Known, MadeFor
<1>7. Serial'
  BY <1>2, <1>3 DEF SessInv, Serial, InProgress
<1>8. Attached'
  BY <1>2, <1>3 DEF SessInv, Attached, InProgress
<1>9. Progress'
  BY <1>2, <1>3 DEF SessInv, Progress
<1>10. Engines'
  BY <1>2, <1>3, <1>4 DEF SessInv, Engines
<1>11. LiveKnown'
  BY <1>2, <1>3, <1>4 DEF SessInv, LiveKnown
<1>12. Stopped'
  BY <1>2 DEF SessInv, Stopped
<1> QED  BY <1>5, <1>6, <1>7, <1>8, <1>9, <1>10, <1>11, <1>12 DEF SessInv

\* What the request looks at is what Progress says of where it goes.
LEMMA BeginInv ==
    ASSUME SessInv, NEW r \in Requests, Begin(r)
    PROVE  SessInv'
<1>1. request[r].pc = "gated" /\ UNCHANGED <<sessions, engines, live, stopper>>
  BY DEF Begin
<1>2. CASE Goes(r, "failed")
  BY <1>1, <1>2, MoveInv
<1>3. CASE Goes(r, Looks(r))
  <2>1. Looks(r) \in {"creating", "refused", "ready"}
    BY DEF Looks
  <2>2. Looks(r) = "creating" => container[request[r].engine] = None
    BY DEF Looks
  <2>3. Looks(r) = "ready" => /\ container[request[r].engine] # None
                              /\ runtime[request[r].engine] = request[r].runtime
    BY DEF Looks
  <2> HIDE DEF Looks
  <2>4. PICK pc \in {"creating", "refused", "ready"} : pc = Looks(r)
    BY <2>1
  <2> QED  BY <1>1, <1>3, <2>2, <2>3, <2>4, MoveInv
<1> QED  BY <1>2, <1>3 DEF Begin

LEMMA WriteInv ==
    ASSUME SessInv, NEW r \in Requests, Write(r)
    PROVE  SessInv'
<1>1. /\ request[r].pc = "ready" /\ Goes(r, "written")
      /\ UNCHANGED <<sessions, engines, live, stopper>>
  BY DEF Write
<1>2. /\ container[request[r].engine] # None
      /\ runtime[request[r].engine] = request[r].runtime
  BY <1>1 DEF SessInv, Progress
<1> QED  BY <1>1, <1>2, MoveInv

LEMMA ThrowsInv ==
    ASSUME SessInv, NEW r \in Requests, Throws(r)
    PROVE  SessInv'
<1>1. /\ request[r].pc \in {"creating", "booting", "ready", "written"}
      /\ Goes(r, "failed")
      /\ UNCHANGED <<sessions, engines, live, stopper>>
  BY DEF Throws
<1> QED  BY <1>1, MoveInv

\* An exec begins in the container of the request's engine, which exists.
LEMMA ExecInv ==
    ASSUME SessInv, NEW r \in Requests, Exec(r)
    PROVE  SessInv'
<1>1. Types
  BY DEF SessInv
<1>2. /\ request[r].pc = "written"
      /\ container[request[r].engine] \in live
      /\ UNCHANGED <<sessions, container, runtime, live, stopper>>
      /\ request' = [request EXCEPT ![r].pc = "executing",
                                    ![r].runs = container[request[r].engine]]
  BY DEF Exec, Usable, engines
<1>3. container[request[r].engine] \in MaybeRequest
  BY <1>1, <1>2 DEF Types, MaybeRequest
<1>4. \A c \in MaybeRequest : [request[r] EXCEPT !.pc = "executing", !.runs = c] \in Record
  BY <1>1 DEF Types, Record, Pcs
<1>5. /\ request' \in [Requests -> Record]
      /\ \A q \in Requests : /\ request'[q].pc = IF q = r THEN "executing" ELSE request[q].pc
                            /\ request'[q].sid = request[q].sid
                            /\ request'[q].runtime = request[q].runtime
                            /\ request'[q].engine = request[q].engine
                            /\ q # r => request'[q].runs = request[q].runs
      /\ request'[r].runs = container[request[r].engine]
  BY <1>1, <1>2, <1>3, <1>4 DEF Types, Record
<1>6. /\ live \subseteq Requests
      /\ \A e \in Requests : container[e] # None => container[e] \in Requests
  BY <1>1 DEF Types, MaybeRequest
<1>7. Types'
  BY <1>1, <1>2, <1>5 DEF Types
<1>8. Known'
  BY <1>2, <1>5 DEF SessInv, Known, MadeFor
<1>9. Serial'
  BY <1>2, <1>5 DEF SessInv, Serial, InProgress
<1>10. Attached'
  BY <1>2, <1>5 DEF SessInv, Attached, InProgress
<1>11. Progress'
  BY <1>2, <1>5 DEF SessInv, Progress
<1>12. Engines'
  BY <1>2, <1>5, <1>6 DEF SessInv, Engines
<1>13. LiveKnown'
  BY <1>2, <1>5, <1>6 DEF SessInv, LiveKnown
<1>14. Stopped'
  BY <1>2 DEF SessInv, Stopped
<1> QED  BY <1>7, <1>8, <1>9, <1>10, <1>11, <1>12, <1>13, <1>14 DEF SessInv

\* An engine has one request in progress, and none while it is stopped.
LEMMA OwnEngine ==
    ASSUME SessInv
    PROVE  /\ \A q, r \in Requests :
                 InProgress(q) /\ InProgress(r) /\ request[q].engine = request[r].engine
                    => q = r
           /\ \A r \in Requests, k \in Stoppers :
                 InProgress(r) /\ stopper[k].pc # "idle"
                    => request[r].engine # stopper[k].engine
  BY DEF SessInv, Known, MadeFor, Serial, InProgress

\* The engine had no container, so the new one replaces none that exists.
LEMMA CreatedInv ==
    ASSUME SessInv, NEW r \in Requests, Created(r)
    PROVE  SessInv'
<1> DEFINE e == request[r].engine
<1>1. Types
  BY DEF SessInv
<1>2. /\ request[r].pc = "creating"
      /\ live' = live \union {r}
      /\ container' = [container EXCEPT ![e] = r]
      /\ Goes(r, "booting")
      /\ UNCHANGED <<sessions, runtime, stopper>>
  BY DEF Created
<1>3. /\ request' \in [Requests -> Record]
      /\ \A q \in Requests : /\ request'[q].pc = IF q = r THEN "booting" ELSE request[q].pc
                            /\ request'[q].sid = request[q].sid
                            /\ request'[q].runtime = request[q].runtime
                            /\ request'[q].engine = request[q].engine
                            /\ request'[q].runs = request[q].runs
  BY <1>1, <1>2, GoesFacts DEF Pcs
<1>4. e \in Requests /\ container[e] = None /\ runtime[e] = None /\ InProgress(r)
  BY <1>2 DEF SessInv, Known, MadeFor, Progress, Engines, InProgress
<1> HIDE DEF e
<1>5. request[r].engine = e
  BY DEF e
<1>6. /\ container' \in [Requests -> MaybeRequest]
      /\ container'[e] = r
      /\ \A d \in Requests : d # e => container'[d] = container[d]
  BY <1>1, <1>2, <1>4 DEF Types, MaybeRequest
<1>7. /\ live \subseteq Requests /\ None \notin Requests
      /\ \A d \in Requests : container[d] # None => container[d] \in Requests
  BY <1>1, ServerAssumption DEF Types, MaybeRequest
<1>8. \A q \in Requests : q # r /\ InProgress(q) => request[q].engine # e
  BY <1>4, <1>5, OwnEngine
<1>9. Types'
  BY <1>1, <1>2, <1>3, <1>6 DEF Types
<1>10. Known'
  BY <1>2, <1>3 DEF SessInv, Known, MadeFor
<1>11. Serial'
  BY <1>2, <1>3 DEF SessInv, Serial, InProgress
<1>12. Attached'
  BY <1>2, <1>3 DEF SessInv, Attached, InProgress
<1>13. Progress'
  <2>1. \A q \in Requests : request[q].pc # "new" => request[q].engine \in Requests
    BY DEF SessInv, Known, MadeFor
  <2> QED  BY <1>2, <1>3, <1>4, <1>5, <1>6, <1>7, <1>8, <2>1 DEF SessInv, Progress, InProgress
<1>14. Engines'
  BY <1>2, <1>3, <1>4, <1>5, <1>6, <1>7 DEF SessInv, Engines
<1>15. LiveKnown'
  <2>1. \A c \in live : request[c].engine \in Requests /\ request[c].engine # e /\ c # r
    BY <1>2, <1>4, <1>7 DEF SessInv, Known, MadeFor, LiveKnown
  <2>2. sessions[request[r].sid] # None /\ sessions[request[r].sid].engine = e
    BY <1>2, <1>4, <1>5 DEF SessInv, Attached
  <2> QED  BY <1>2, <1>3, <1>5, <1>6, <1>7, <2>1, <2>2 DEF SessInv, LiveKnown
<1>16. Stopped'
  <2>1. \A k \in Stoppers : stopper[k].pc # "idle" =>
            stopper[k].engine \in Requests /\ stopper[k].engine # e
    BY <1>4, <1>5, OwnEngine DEF SessInv, Known, MadeFor
  <2>2. \A d \in Requests : container[d] # r
    BY <1>2, <1>7 DEF SessInv, Engines
  <2> QED  BY <1>2, <1>6, <2>1, <2>2 DEF SessInv, Stopped
<1> QED  BY <1>9, <1>10, <1>11, <1>12, <1>13, <1>14, <1>15, <1>16 DEF SessInv

\* The engine learns its runtime from the request that created its container.
LEMMA BootedInv ==
    ASSUME SessInv, NEW r \in Requests, Booted(r)
    PROVE  SessInv'
<1> DEFINE e == request[r].engine
<1>1. Types
  BY DEF SessInv
<1>2. /\ request[r].pc = "booting"
      /\ runtime' = [runtime EXCEPT ![e] = request[r].runtime]
      /\ Goes(r, "ready")
      /\ UNCHANGED <<sessions, container, live, stopper>>
  BY DEF Booted
<1>3. /\ request' \in [Requests -> Record]
      /\ \A q \in Requests : /\ request'[q].pc = IF q = r THEN "ready" ELSE request[q].pc
                            /\ request'[q].sid = request[q].sid
                            /\ request'[q].runtime = request[q].runtime
                            /\ request'[q].engine = request[q].engine
                            /\ request'[q].runs = request[q].runs
  BY <1>1, <1>2, GoesFacts DEF Pcs
<1>4. e \in Requests /\ container[e] = r /\ InProgress(r) /\ request[r].runtime \in Runtimes
  BY <1>2 DEF SessInv, Known, MadeFor, Progress, InProgress
<1> HIDE DEF e
<1>5. request[r].engine = e
  BY DEF e
<1>6. /\ runtime' \in [Requests -> Runtimes \union {None}]
      /\ runtime'[e] = request[r].runtime
      /\ \A d \in Requests : d # e => runtime'[d] = runtime[d]
  BY <1>1, <1>2, <1>4 DEF Types
<1>7. /\ live \subseteq Requests /\ None \notin Requests
      /\ \A d \in Requests : container[d] # None => container[d] \in Requests
  BY <1>1, ServerAssumption DEF Types, MaybeRequest
<1>8. \A q \in Requests : q # r /\ InProgress(q) => request[q].engine # e
  BY <1>4, <1>5, OwnEngine
<1>9. Types'
  BY <1>1, <1>2, <1>3, <1>6 DEF Types
<1>10. Known'
  BY <1>2, <1>3 DEF SessInv, Known, MadeFor
<1>11. Serial'
  BY <1>2, <1>3 DEF SessInv, Serial, InProgress
<1>12. Attached'
  BY <1>2, <1>3 DEF SessInv, Attached, InProgress
<1>13. Progress'
  <2>1. \A q \in Requests : request[q].pc # "new" => request[q].engine \in Requests
    BY DEF SessInv, Known, MadeFor
  <2> QED  BY <1>2, <1>3, <1>4, <1>5, <1>6, <1>7, <1>8, <2>1 DEF SessInv, Progress, InProgress
<1>14. Engines'
  BY <1>2, <1>3, <1>4, <1>5, <1>6, <1>7 DEF SessInv, Engines
<1>15. LiveKnown'
  BY <1>2, <1>3, <1>7 DEF SessInv, LiveKnown
<1>16. Stopped'
  BY <1>2 DEF SessInv, Stopped
<1> QED  BY <1>9, <1>10, <1>11, <1>12, <1>13, <1>14, <1>15, <1>16 DEF SessInv

\* The request is the only one in its session, which it leaves inactive.
LEMMA FinishInv ==
    ASSUME SessInv, NEW r \in Requests, Finish(r)
    PROVE  SessInv'
<1> DEFINE s == request[r].sid
<1>1. Types
  BY DEF SessInv
<1>2. /\ request[r].pc \in {"executing", "failed", "refused"}
      /\ Goes(r, "done")
      /\ UNCHANGED <<container, runtime, live, stopper>>
  BY DEF Finish, engines
<1>3. /\ request' \in [Requests -> Record]
      /\ \A q \in Requests : /\ request'[q].pc = IF q = r THEN "done" ELSE request[q].pc
                            /\ request'[q].sid = request[q].sid
                            /\ request'[q].runtime = request[q].runtime
                            /\ request'[q].engine = request[q].engine
                            /\ request'[q].runs = request[q].runs
  BY <1>1, <1>2, GoesFacts DEF Pcs
<1>4. s \in Sessions /\ sessions[s] # None /\ InProgress(r)
  BY <1>2 DEF SessInv, Known, MadeFor, Attached, InProgress
<1>5. sessions' = [sessions EXCEPT ![s].active = FALSE, ![s].old = FALSE]
  BY <1>4 DEF Finish
<1> HIDE DEF s
<1>6. s = request[r].sid
  BY DEF s
<1>7. sessions[s] \in Session
  BY <1>1, <1>4 DEF Types
<1>8. /\ sessions' \in [Sessions -> Session \union {None}]
      /\ sessions'[s].engine = sessions[s].engine /\ ~sessions'[s].active
      /\ sessions'[s] # None
      /\ \A t \in Sessions : t # s => sessions'[t] = sessions[t]
  BY <1>1, <1>4, <1>5, <1>7, ServerAssumption DEF Types, Session
<1>9. /\ live \subseteq Requests
      /\ \A d \in Requests : container[d] # None => container[d] \in Requests
  BY <1>1 DEF Types, MaybeRequest
<1>10. Types'
  BY <1>1, <1>2, <1>3, <1>8 DEF Types
<1>11. Known'
  BY <1>2, <1>3, <1>4, <1>8 DEF SessInv, Known, MadeFor
<1>12. Serial'
  BY <1>2, <1>3 DEF SessInv, Serial, InProgress
<1>13. Attached'
  BY <1>3, <1>4, <1>6, <1>8 DEF SessInv, Known, MadeFor, Serial, Attached, InProgress
<1>14. Progress'
  BY <1>2, <1>3 DEF SessInv, Progress
<1>15. Engines'
  BY <1>2, <1>3, <1>9 DEF SessInv, Engines
<1>16. LiveKnown'
  BY <1>2, <1>3, <1>4, <1>8, <1>9 DEF SessInv, Known, MadeFor, LiveKnown
<1>17. Stopped'
  BY <1>2, <1>4, <1>8 DEF SessInv, Known, MadeFor, Stopped
<1> QED  BY <1>10, <1>11, <1>12, <1>13, <1>14, <1>15, <1>16, <1>17 DEF SessInv

\* Only the age of a session changes.
LEMMA OldInv ==
    ASSUME SessInv, NEW s \in Sessions, NEW old \in BOOLEAN, sessions[s] # None,
           sessions' = [sessions EXCEPT ![s].old = old],
           UNCHANGED <<engines, live, request, stopper>>
    PROVE  SessInv'
<1>1. Types
  BY DEF SessInv
<1>2. UNCHANGED <<container, runtime, live, request, stopper>>
  BY DEF engines
<1>3. sessions[s] \in Session
  BY <1>1 DEF Types
<1>4. /\ sessions' \in [Sessions -> Session \union {None}]
      /\ sessions'[s].engine = sessions[s].engine
      /\ sessions'[s].active = sessions[s].active
      /\ sessions'[s] # None
      /\ \A t \in Sessions : t # s => sessions'[t] = sessions[t]
  BY <1>1, <1>3, ServerAssumption DEF Types, Session
<1>5. live \subseteq Requests
  BY <1>1 DEF Types
<1>6. Types'
  BY <1>1, <1>2, <1>4 DEF Types
<1>7. Known'
  BY <1>2, <1>4 DEF SessInv, Known, MadeFor
<1>8. Serial'
  BY <1>2 DEF SessInv, Serial, InProgress
<1>9. Attached'
  BY <1>2, <1>4 DEF SessInv, Known, MadeFor, Attached, InProgress
<1>10. Progress'
  BY <1>2 DEF SessInv, Progress
<1>11. Engines'
  BY <1>2 DEF SessInv, Engines
<1>12. LiveKnown'
  BY <1>2, <1>4, <1>5 DEF SessInv, Known, MadeFor, LiveKnown
<1>13. Stopped'
  BY <1>2, <1>4 DEF SessInv, Known, MadeFor, Stopped
<1> QED  BY <1>6, <1>7, <1>8, <1>9, <1>10, <1>11, <1>12, <1>13 DEF SessInv

\* A session that is stopped has no request: the interval skips active ones.
LEMMA StopInv ==
    ASSUME SessInv, OneAtATime,
           NEW k \in Stoppers, NEW s \in Sessions, NEW prune \in BOOLEAN, Stop(k, s, prune)
    PROVE  SessInv'
<1> DEFINE e == sessions[s].engine
           pc == IF container[e] = None THEN "deleting" ELSE "stopping"
<1>1. Types
  BY DEF SessInv
<1>2. /\ stopper[k] = IdleStopper /\ sessions[s] # None
      /\ prune => ~sessions[s].active
      /\ stopper' = [stopper EXCEPT ![k] = [pc |-> pc, sid |-> s, engine |-> e, prune |-> prune]]
      /\ UNCHANGED <<sessions, container, runtime, live, request>>
  BY DEF Stop, engines
<1>3. MadeFor(e, s)
  BY <1>2 DEF SessInv, Known
<1>4. \A r \in Requests : InProgress(r) => request[r].sid # s
  BY <1>2, OneAtATime DEF Stop, SessInv, Attached
<1>5. pc \in {"stopping", "deleting"} /\ (pc = "deleting" => container[e] = None)
  OBVIOUS
<1> HIDE DEF e, pc
<1>6. e = sessions[s].engine
  BY DEF e
<1>7. [pc |-> pc, sid |-> s, engine |-> e, prune |-> prune] \in Task
  BY <1>3, <1>5 DEF Task, MadeFor, MaybeRequest
<1>8. /\ stopper' \in [Stoppers -> Task]
      /\ stopper'[k].pc = pc /\ stopper'[k].sid = s
      /\ stopper'[k].engine = e /\ stopper'[k].prune = prune
      /\ \A n \in Stoppers : n # k => stopper'[n] = stopper[n]
  BY <1>1, <1>2, <1>7 DEF Types
<1>9. Types'
  BY <1>1, <1>2, <1>8 DEF Types
<1>10. Known'
  BY <1>2, <1>3, <1>8 DEF SessInv, Known, MadeFor
<1>11. Serial'
  BY <1>2, <1>4, <1>8 DEF SessInv, Serial, InProgress
<1>12. Attached'
  BY <1>2 DEF SessInv, Attached, InProgress
<1>13. Progress'
  BY <1>2 DEF SessInv, Progress
<1>14. Engines'
  BY <1>2 DEF SessInv, Engines
<1>15. LiveKnown'
  BY <1>2 DEF SessInv, LiveKnown
<1>16. Stopped'
  BY <1>2, <1>5, <1>6, <1>8 DEF SessInv, Stopped
<1> QED  BY <1>9, <1>10, <1>11, <1>12, <1>13, <1>14, <1>15, <1>16 DEF SessInv

\* What changes of a stopping task that goes on.
LEMMA TaskFacts ==
    ASSUME Types, NEW k \in Stoppers, NEW pc \in {"removing", "deleting"},
           stopper' = [stopper EXCEPT ![k].pc = pc]
    PROVE  /\ stopper' \in [Stoppers -> Task]
           /\ \A n \in Stoppers : /\ stopper'[n].pc = IF n = k THEN pc ELSE stopper[n].pc
                                 /\ stopper'[n].sid = stopper[n].sid
                                 /\ stopper'[n].engine = stopper[n].engine
                                 /\ stopper'[n].prune = stopper[n].prune
  BY DEF Types, Task

\* The container that is removed is not that of a request in progress.
LEMMA StopRemovesInv ==
    ASSUME SessInv, NEW k \in Stoppers, StopRemoves(k)
    PROVE  SessInv'
<1> DEFINE e == stopper[k].engine
<1>1. Types
  BY DEF SessInv
<1>2. /\ stopper[k].pc = "stopping"
      /\ live' = live \ {container[e]}
      /\ stopper' = [stopper EXCEPT ![k].pc = "removing"]
      /\ UNCHANGED <<sessions, container, runtime, request>>
  BY DEF StopRemoves, engines
<1>3. /\ stopper' \in [Stoppers -> Task]
      /\ \A n \in Stoppers : /\ stopper'[n].pc = IF n = k THEN "removing" ELSE stopper[n].pc
                            /\ stopper'[n].sid = stopper[n].sid
                            /\ stopper'[n].engine = stopper[n].engine
                            /\ stopper'[n].prune = stopper[n].prune
  BY <1>1, <1>2, TaskFacts
<1>4. e \in Requests
  BY <1>2 DEF SessInv, Known, MadeFor
<1>5. \A r \in Requests : InProgress(r) => request[r].engine # e
  BY <1>2, OwnEngine
<1> HIDE DEF e
<1>6. stopper[k].engine = e
  BY DEF e
<1>7. live' \in SUBSET Requests /\ live' \subseteq live
  BY <1>1, <1>2 DEF Types
<1>8. Types'
  BY <1>1, <1>2, <1>3, <1>7 DEF Types
<1>9. Known'
  BY <1>2, <1>3 DEF SessInv, Known, MadeFor
<1>10. Serial'
  BY <1>2, <1>3 DEF SessInv, Serial, InProgress
<1>11. Attached'
  BY <1>2 DEF SessInv, Attached, InProgress
<1>12. Progress'
  <2>1. \A d \in Requests : container[d] # None /\ container[d] = container[e] => d = e
    BY <1>4 DEF SessInv, Engines
  <2>2. \A q \in Requests : request[q].pc # "new" => request[q].engine \in Requests
    BY DEF SessInv, Known, MadeFor
  <2> QED  BY <1>2, <1>5, <2>1, <2>2 DEF SessInv, Progress, InProgress
<1>13. Engines'
  BY <1>2 DEF SessInv, Engines
<1>14. LiveKnown'
  BY <1>2, <1>7 DEF SessInv, LiveKnown
<1>15. Stopped'
  BY <1>2, <1>3, <1>6, <1>7 DEF SessInv, Stopped
<1> QED  BY <1>8, <1>9, <1>10, <1>11, <1>12, <1>13, <1>14, <1>15 DEF SessInv

\* The container that is forgotten is gone.
LEMMA StopForgetsInv ==
    ASSUME SessInv, NEW k \in Stoppers, StopForgets(k)
    PROVE  SessInv'
<1> DEFINE e == stopper[k].engine
<1>1. Types
  BY DEF SessInv
<1>2. /\ stopper[k].pc = "removing"
      /\ container' = [container EXCEPT ![e] = None]
      /\ runtime' = [runtime EXCEPT ![e] = None]
      /\ stopper' = [stopper EXCEPT ![k].pc = "deleting"]
      /\ UNCHANGED <<sessions, live, request>>
  BY DEF StopForgets
<1>3. /\ stopper' \in [Stoppers -> Task]
      /\ \A n \in Stoppers : /\ stopper'[n].pc = IF n = k THEN "deleting" ELSE stopper[n].pc
                            /\ stopper'[n].sid = stopper[n].sid
                            /\ stopper'[n].engine = stopper[n].engine
                            /\ stopper'[n].prune = stopper[n].prune
  BY <1>1, <1>2, TaskFacts
<1>4. e \in Requests /\ container[e] \notin live
  BY <1>2 DEF SessInv, Known, MadeFor, Stopped
<1>5. \A r \in Requests : InProgress(r) => request[r].engine # e
  BY <1>2, OwnEngine
<1> HIDE DEF e
<1>6. stopper[k].engine = e
  BY DEF e
<1>7. /\ container' \in [Requests -> MaybeRequest]
      /\ runtime' \in [Requests -> Runtimes \union {None}]
      /\ container'[e] = None /\ runtime'[e] = None
      /\ \A d \in Requests : d # e => container'[d] = container[d] /\ runtime'[d] = runtime[d]
  BY <1>1, <1>2, <1>4 DEF Types, MaybeRequest
<1>8. /\ live \subseteq Requests /\ None \notin Requests
      /\ \A d \in Requests : container[d] # None => container[d] \in Requests
  BY <1>1, ServerAssumption DEF Types, MaybeRequest
<1>9. Types'
  BY <1>1, <1>2, <1>3, <1>7 DEF Types
<1>10. Known'
  BY <1>2, <1>3 DEF SessInv, Known, MadeFor
<1>11. Serial'
  BY <1>2, <1>3 DEF SessInv, Serial, InProgress
<1>12. Attached'
  BY <1>2 DEF SessInv, Attached, InProgress
<1>13. Progress'
  <2>1. \A q \in Requests : request[q].pc # "new" => request[q].engine \in Requests
    BY DEF SessInv, Known, MadeFor
  <2> QED  BY <1>2, <1>5, <1>7, <2>1 DEF SessInv, Progress, InProgress
<1>14. Engines'
  BY <1>2, <1>7 DEF SessInv, Engines
<1>15. LiveKnown'
  <2>1. \A c \in live : request[c].engine \in Requests /\ request[c].engine # e
    BY <1>4, <1>8 DEF SessInv, Known, MadeFor, LiveKnown
  <2> QED  BY <1>2, <1>7, <2>1 DEF SessInv, LiveKnown
<1>16. Stopped'
  <2>1. \A n \in Stoppers : stopper[n].pc # "idle" => stopper[n].engine \in Requests
    BY DEF SessInv, Known, MadeFor
  <2> QED  BY <1>2, <1>3, <1>6, <1>7, <1>8, <2>1 DEF SessInv, Stopped
<1> QED  BY <1>9, <1>10, <1>11, <1>12, <1>13, <1>14, <1>15, <1>16 DEF SessInv

\* The session that is deleted is the one that was stopped, without a container.
LEMMA StopDeletesInv ==
    ASSUME SessInv, NEW k \in Stoppers, StopDeletes(k)
    PROVE  SessInv'
<1> DEFINE s == stopper[k].sid
<1>1. Types
  BY DEF SessInv
<1>2. /\ stopper[k].pc = "deleting"
      /\ sessions' = [sessions EXCEPT ![s] = None]
      /\ stopper' = [stopper EXCEPT ![k] = IdleStopper]
      /\ UNCHANGED <<container, runtime, live, request>>
  BY DEF StopDeletes, engines
<1>3. /\ s \in Sessions
      /\ container[stopper[k].engine] = None
      /\ sessions[s] # None => sessions[s].engine = stopper[k].engine
  BY <1>2 DEF SessInv, Known, MadeFor, Stopped
<1>4. \A r \in Requests : InProgress(r) => request[r].sid # s
  BY <1>2 DEF SessInv, Serial
<1> HIDE DEF s
<1>5. /\ sessions' \in [Sessions -> Session \union {None}]
      /\ sessions'[s] = None
      /\ \A t \in Sessions : t # s => sessions'[t] = sessions[t]
  BY <1>1, <1>2, <1>3 DEF Types
<1>6. /\ stopper' \in [Stoppers -> Task]
      /\ stopper'[k].pc = "idle"
      /\ \A n \in Stoppers : n # k => stopper'[n] = stopper[n]
  <2>1. IdleStopper \in Task /\ IdleStopper.pc = "idle"
    BY DEF IdleStopper, Task, MaybeRequest
  <2> HIDE DEF IdleStopper
  <2> QED  BY <1>1, <1>2, <2>1 DEF Types
<1>7. live \subseteq Requests /\ None \notin Requests
  BY <1>1, ServerAssumption DEF Types
<1>8. Types'
  BY <1>1, <1>2, <1>5, <1>6 DEF Types
<1>9. Known'
  BY <1>2, <1>5, <1>6 DEF SessInv, Known, MadeFor
<1>10. Serial'
  BY <1>2, <1>6 DEF SessInv, Serial, InProgress
<1>11. Attached'
  BY <1>2, <1>4, <1>5 DEF SessInv, Known, MadeFor, Attached, InProgress
<1>12. Progress'
  BY <1>2 DEF SessInv, Progress
<1>13. Engines'
  BY <1>2 DEF SessInv, Engines
<1>14. LiveKnown'
  <2>1. \A c \in live : request[c].sid \in Sessions /\ request[c].sid # s
    BY <1>3, <1>7 DEF SessInv, Known, MadeFor, LiveKnown
  <2> QED  BY <1>2, <1>5, <2>1 DEF SessInv, LiveKnown
<1>15. Stopped'
  BY <1>2, <1>5, <1>6 DEF SessInv, Known, MadeFor, Stopped
<1> QED  BY <1>8, <1>9, <1>10, <1>11, <1>12, <1>13, <1>14, <1>15 DEF SessInv
-----------------------------------------------------------------------------
\* Nothing has happened yet.
LEMMA InitSess == Init => SessInv
<1> SUFFICES ASSUME Init PROVE SessInv
  OBVIOUS
<1>1. NewRequest \in Record /\ NewRequest.pc = "new"
  BY DEF NewRequest, Record, Pcs, MaybeRequest
<1>2. IdleStopper \in Task /\ IdleStopper.pc = "idle"
  BY DEF IdleStopper, Task, MaybeRequest
<1> HIDE DEF NewRequest, IdleStopper
<1>3. Types
  BY <1>1, <1>2 DEF Init, Types, MaybeRequest
<1>4. /\ \A r \in Requests : request[r].pc = "new"
      /\ \A k \in Stoppers : stopper[k].pc = "idle"
      /\ \A s \in Sessions : sessions[s] = None
      /\ \A e \in Requests : container[e] = None /\ runtime[e] = None
      /\ live = {}
  BY <1>1, <1>2 DEF Init
<1>5. Known /\ Serial /\ Attached /\ Progress /\ Engines /\ LiveKnown /\ Stopped
  BY <1>4 DEF Known, Serial, Attached, Progress, Engines, LiveKnown, Stopped, InProgress
<1> QED  BY <1>3, <1>5 DEF SessInv

\* A step of the server preserves the invariant, with clients that wait.
LEMMA NextSess ==
    ASSUME OneAtATime, NoLateArrival, SessInv, [Next]_vars
    PROVE  SessInv'
<1>1. ASSUME NEW r \in Requests, NEW s \in Sessions, NEW k \in Runtimes, Arrive(r, s, k)
      PROVE  SessInv'
  BY <1>1, OneAtATime, NoLateArrival, ArriveInv
<1>2. ASSUME NEW r \in Requests,
             \/ Register(r) \/ Begin(r) \/ Created(r) \/ Booted(r) \/ Write(r)
             \/ Exec(r) \/ Throws(r) \/ Finish(r)
      PROVE  SessInv'
  BY <1>2, RegisterInv, BeginInv, CreatedInv, BootedInv, WriteInv, ExecInv, ThrowsInv,
     FinishInv
<1>3. ASSUME NEW s \in Sessions, Age(s) \/ TransferFile(s)
      PROVE  SessInv'
  BY <1>3, OldInv DEF Age, TransferFile
<1>4. ASSUME NEW k \in Stoppers, NEW s \in Sessions, NEW prune \in BOOLEAN, Stop(k, s, prune)
      PROVE  SessInv'
  BY <1>4, OneAtATime, StopInv
<1>5. ASSUME NEW k \in Stoppers, StopRemoves(k) \/ StopForgets(k) \/ StopDeletes(k)
      PROVE  SessInv'
  BY <1>5, StopRemovesInv, StopForgetsInv, StopDeletesInv
<1>6. ASSUME UNCHANGED vars
      PROVE  SessInv'
  BY <1>6 DEF vars, engines, SessInv, Types, Known, MadeFor, Serial, Attached, Progress,
     Engines, LiveKnown, Stopped, InProgress
<1> QED  BY <1>1, <1>2, <1>3, <1>4, <1>5, <1>6 DEF Next

\* With such clients the invariant always holds.
LEMMA SessAlways ==
    ASSUME OneAtATime, NoLateArrival
    PROVE  Spec => []SessInv
<1>1. Init => SessInv
  BY InitSess
<1>2. SessInv /\ [Next]_vars => SessInv'
  BY NextSess, OneAtATime, NoLateArrival
<1> QED  BY <1>1, <1>2, PTL DEF Spec
-----------------------------------------------------------------------------
\* The session of an execution is in the map, it is the one whose engine executes,
\* and it is marked active, from the arrival of the request until its answer.
THEOREM ServerActiveWhileExecuting ==
    ASSUME OneAtATime, NoLateArrival
    PROVE  Spec => []ActiveWhileExecuting
<1>1. SessInv => ActiveWhileExecuting
  BY DEF SessInv, Attached, ActiveWhileExecuting, Executing, InProgress
<1> QED  BY <1>1, SessAlways, OneAtATime, NoLateArrival, PTL

\* An execution runs in a container of the runtime its request asked for: the
\* container was created for that runtime, or the request was refused.
THEOREM ServerRightRuntime ==
    ASSUME OneAtATime, NoLateArrival
    PROVE  Spec => []RightRuntime
<1>1. ASSUME SessInv, NEW r \in Requests, Executing(r)
      PROVE  request[request[r].runs].runtime = request[r].runtime
  <2>1. /\ request[r].engine \in Requests
        /\ request[r].runtime \in Runtimes
        /\ request[r].runs = container[request[r].engine]
        /\ container[request[r].engine] # None
        /\ runtime[request[r].engine] = request[r].runtime
    BY <1>1 DEF SessInv, Known, MadeFor, Progress, Executing
  <2> QED  BY <1>1, <2>1, ServerAssumption DEF SessInv, Engines
<1>2. SessInv => RightRuntime
  BY <1>1 DEF RightRuntime
<1> QED  BY <1>2, SessAlways, OneAtATime, NoLateArrival, PTL

\* The container of an execution exists: neither DELETE nor the interval removes
\* it, and no request replaces it.
THEOREM ServerExecutesInLive ==
    ASSUME OneAtATime, NoLateArrival
    PROVE  Spec => []ExecutesInLive
<1>1. SessInv => ExecutesInLive
  BY DEF SessInv, Progress, ExecutesInLive, Executing
<1> QED  BY <1>1, SessAlways, OneAtATime, NoLateArrival, PTL

\* With no request and no stopping task under way every container is that of an
\* engine in the map, however many calls to Docker failed before.
THEOREM ServerNoOrphan ==
    ASSUME OneAtATime, NoLateArrival
    PROVE  Spec => []NoOrphan
<1>1. ASSUME SessInv, NEW c \in live
      PROVE  \E s \in {t \in Sessions : sessions[t] # None} :
                c = container[sessions[s].engine]
  <2>1. c \in Requests
    BY <1>1 DEF SessInv, Types
  <2>2. /\ request[c].sid \in Sessions
        /\ sessions[request[c].sid] # None
        /\ c = container[sessions[request[c].sid].engine]
    BY <1>1, <2>1 DEF SessInv, Known, MadeFor, LiveKnown
  <2> QED  BY <2>2
<1>2. SessInv => NoOrphan
  BY <1>1 DEF NoOrphan
<1> QED  BY <1>2, SessAlways, OneAtATime, NoLateArrival, PTL

\* The interval deletes no session that is marked active: it was inactive when it
\* was looked at, and no request came while stop() was awaited.
THEOREM ServerPruneSkipsActive ==
    ASSUME OneAtATime, NoLateArrival
    PROVE  Spec => PruneSkipsActive
<1>1. SessInv /\ [Next]_vars =>
        [\A k \in Stoppers :
            stopper[k].pc = "deleting" /\ stopper[k].prune /\ stopper'[k].pc = "idle"
               => sessions[stopper[k].sid] = None \/ ~sessions[stopper[k].sid].active]_vars
  BY DEF SessInv, Stopped
<1> QED  BY <1>1, SessAlways, OneAtATime, NoLateArrival, PTL DEF Spec, PruneSkipsActive
-----------------------------------------------------------------------------
\* The steps of either specification of the server, for clients of any kind.
AnyNext == Next \/ NextLife

\* The semaphore's theorems, for the server's own semaphore.
Sem == INSTANCE SemaphoreProofs WITH Callers <- Requests, Max <- MaxConcurrent,
            current <- permits, queue <- waiters, pc <- gate

GateNext == \E r \in Requests : Sem!Acquire(r) \/ Sem!Resume(r) \/ Sem!Release(r)

\* The instance of the theorems has the operations of the server's semaphore.
LEMMA SameGate ==
    /\ \A r : Gate!Acquire(r) = Sem!Acquire(r)
    /\ \A r : Gate!Resume(r) = Sem!Resume(r)
    /\ \A r : Gate!Release(r) = Sem!Release(r)
  BY DEF Gate!Acquire, Sem!Acquire, Gate!Resume, Sem!Resume, Gate!Release, Sem!Release

\* A step of the server is a step of the semaphore's class, or leaves it alone.
LEMMA GateSteps ==
    ASSUME [AnyNext]_vars
    PROVE  [GateNext]_gateVars
<1>1. ASSUME NEW r \in Requests, NEW s \in Sessions, NEW k \in Runtimes, Arrive(r, s, k)
      PROVE  [GateNext]_gateVars
  BY <1>1, SameGate DEF Arrive, GateNext
<1>2. ASSUME NEW r \in Requests, Register(r) \/ Begin(r) \/ Finish(r)
      PROVE  [GateNext]_gateVars
  BY <1>2, SameGate DEF Register, Begin, Finish, GateNext
<1>3. ASSUME NEW r \in Requests,
             Created(r) \/ Booted(r) \/ Write(r) \/ Exec(r) \/ Throws(r)
      PROVE  UNCHANGED gateVars
  BY <1>3 DEF Created, Booted, Write, Exec, Throws
<1>4. ASSUME NEW s \in Sessions, Age(s) \/ TransferFile(s)
      PROVE  UNCHANGED gateVars
  BY <1>4 DEF Age, TransferFile
<1>5. ASSUME NEW k \in Stoppers,
             \/ \E s \in Sessions, prune \in BOOLEAN : Stop(k, s, prune)
             \/ StopRemoves(k) \/ StopForgets(k) \/ StopDeletes(k)
      PROVE  UNCHANGED gateVars
  BY <1>5 DEF Stop, StopRemoves, StopForgets, StopDeletes
<1>6. CASE Next
  BY <1>1, <1>2, <1>3, <1>4, <1>5, <1>6 DEF Next
<1>7. ASSUME NEW r \in Requests, ArriveAny(r)
      PROVE  [GateNext]_gateVars
  BY <1>1, <1>7, SameGate DEF ArriveAny, ArriveEphemeral, GateNext
<1>8. ASSUME NEW r \in Requests, ServeRequest(r)
      PROVE  [GateNext]_gateVars
  <2>1. CASE EphemeralStep(r)
    BY <2>1, SameGate DEF EphemeralStep, CreatedEphemeral, FinishEphemeral, EngineStopped, GateNext
  <2>2. CASE SessionStep(r) \/ Begin(r) \/ Throws(r)
    BY <1>2, <1>3, <2>2 DEF SessionStep
  <2> QED  BY <1>8, <2>1, <2>2 DEF ServeRequest
<1>9. ASSUME NEW k \in Stoppers,
             StopStep(k) \/ \E s \in Sessions : StopSession(k, s)
      PROVE  UNCHANGED gateVars
  BY <1>5, <1>9 DEF StopStep, StopSession
<1>10. ASSUME CleanupStep
       PROVE  UNCHANGED gateVars
  BY <1>10, <1>5, LifecycleAssumption DEF CleanupStep, SessionsCleaned, ListContainers, Settle,
     Exit, CleanSession, RemoveContainer, gateVars, vars
<1>11. CASE NextLife
  BY <1>7, <1>8, <1>9, <1>10, <1>11 DEF NextLife, ResolvePort, CancelStartup, PortTaken, Serve,
     PostCleanup, Terminate, gateVars, vars
<1> QED  BY <1>6, <1>11 DEF AnyNext, vars
-----------------------------------------------------------------------------
\* The types again, with the requests that stop an engine of their own.
LifePcs == Pcs \union {"stopping"}

LifeRecord == [pc : LifePcs, sid : Sessions \union {None},
               runtime : Runtimes \union {None}, engine : MaybeRequest, runs : MaybeRequest]

\* A request that learns where it goes is a request.
LEMMA Addressed ==
    ASSUME NEW rec \in LifeRecord, NEW pc \in LifePcs, NEW s \in Sessions \union {None},
           NEW k \in Runtimes \union {None}, NEW e \in MaybeRequest
    PROVE  [rec EXCEPT !.pc = pc, !.sid = s, !.runtime = k, !.engine = e] \in LifeRecord
  BY DEF LifeRecord

LifeTypes ==
    /\ sessions \in [Sessions -> Session \union {None}]
    /\ container \in [Requests -> MaybeRequest]
    /\ live \in SUBSET Requests
    /\ request \in [Requests -> LifeRecord]

\* A session is marked active for a request that is past its start.
Busy == \A s \in Sessions :
          sessions[s] # None /\ sessions[s].active =>
             \E r \in Requests : /\ InProgress(r) /\ request[r].pc # "starting"
                                 /\ request[r].sid = s

\* Where a request has a permit it is using.
Admits == {"creating", "booting", "ready", "written", "executing", "failed", "refused"}

\* Where a request is says what it has of the semaphore.
Admission == \A r \in Requests :
               /\ request[r].pc \in {"new", "starting", "stopping", "done"} => gate[r] = "idle"
               /\ request[r].pc = "gated" => gate[r] \in {"queued", "granted"}
               /\ request[r].pc \in Admits => gate[r] = "running"

\* The inductive invariant for clients of any kind.
LifeInv == LifeTypes /\ Busy /\ Admission

\* What the operations of the semaphore change for a request and for the others.
LEMMA AcquireFacts ==
    ASSUME Sem!SemInv, NEW r \in Requests, Gate!Acquire(r)
    PROVE  /\ gate'[r] \in {"queued", "granted"}
           /\ \A q \in Requests : q # r => gate'[q] = gate[q]
  BY SameGate DEF Sem!SemInv, Sem!TypeOK, Sem!Acquire

LEMMA ResumeFacts ==
    ASSUME Sem!SemInv, NEW r \in Requests, Gate!Resume(r)
    PROVE  /\ gate'[r] = "running"
           /\ \A q \in Requests : q # r => gate'[q] = gate[q]
  BY SameGate DEF Sem!SemInv, Sem!TypeOK, Sem!Resume

LEMMA ReleaseFacts ==
    ASSUME Sem!SemInv, NEW r \in Requests, Gate!Release(r)
    PROVE  /\ gate'[r] = "idle"
           /\ \A q \in Requests : q # r => \/ gate'[q] = gate[q]
                                           \/ gate[q] = "queued" /\ gate'[q] = "granted"
<1>1. gate[r] = "running" /\ gate \in [Requests -> Sem!States] /\ waiters \in Seq(Requests)
  BY SameGate DEF Sem!SemInv, Sem!TypeOK, Sem!Release
<1>2. CASE waiters = <<>>
  BY <1>1, <1>2, SameGate DEF Sem!Release
<1>3. CASE waiters # <<>>
  <2> DEFINE w == Head(waiters)
  <2>1. w \in Requests /\ w = waiters[1] /\ 1 \in 1..Len(waiters)
    BY <1>1, <1>3
  <2>2. gate[w] = "queued"
    BY <2>1 DEF Sem!SemInv, Sem!Accounting
  <2>3. gate' = [gate EXCEPT ![r] = "idle", ![w] = "granted"]
    BY <1>3, SameGate DEF Sem!Release
  <2> HIDE DEF w
  <2> QED  BY <1>1, <2>1, <2>2, <2>3
<1> QED  BY <1>2, <1>3

\* A step of a request that the map and the semaphore do not notice.
LEMMA QuietStep ==
    ASSUME LifeInv, NEW r \in Requests, NEW rec \in LifeRecord,
           request' = [request EXCEPT ![r] = rec], rec.sid = request[r].sid,
           UNCHANGED <<sessions, gateVars>>,
           live' \in SUBSET Requests, container' \in [Requests -> MaybeRequest],
           \/ request[r].pc \in Admits /\ rec.pc \in Admits
           \/ request[r].sid = None /\ request[r].pc = "stopping" /\ rec.pc = "done"
    PROVE  LifeInv'
<1>1. UNCHANGED gate
  BY DEF gateVars
<1>2. request'[r] = rec /\ \A q \in Requests : q # r => request'[q] = request[q]
  BY DEF LifeInv, LifeTypes
<1>3. LifeTypes'
  BY DEF LifeInv, LifeTypes
<1>4. Busy'
  BY <1>2, ServerAssumption DEF LifeInv, Busy, InProgress, Admits
<1>5. Admission'
  BY <1>1, <1>2 DEF LifeInv, Admission, Admits
<1> QED  BY <1>3, <1>4, <1>5 DEF LifeInv

\* A step that no request takes, and that marks no session active.
LEMMA BackgroundStep ==
    ASSUME LifeInv, UNCHANGED <<request, gateVars>>,
           live' \in SUBSET Requests, container' \in [Requests -> MaybeRequest],
           sessions' \in [Sessions -> Session \union {None}],
           \A s \in Sessions : sessions'[s] # None =>
               sessions[s] # None /\ sessions'[s].active = sessions[s].active
    PROVE  LifeInv'
<1>1. UNCHANGED gate
  BY DEF gateVars
<1>2. LifeTypes'
  BY DEF LifeInv, LifeTypes
<1>3. Busy'
  BY DEF LifeInv, Busy, InProgress
<1>4. Admission'
  BY <1>1 DEF LifeInv, Admission
<1> QED  BY <1>2, <1>3, <1>4 DEF LifeInv

\* A session is marked active for the request that goes to the gate.
LEMMA ArriveLife ==
    ASSUME LifeInv, Sem!SemInv,
           NEW r \in Requests, NEW s \in Sessions, NEW k \in Runtimes, Arrive(r, s, k)
    PROVE  LifeInv'
<1>1. /\ request[r].pc = "new"
      /\ UNCHANGED <<container, live>>
  BY DEF Arrive, engines
<1>2. LifeTypes /\ gate[r] = "idle"
  BY <1>1 DEF LifeInv, Admission
<1>3. CASE sessions[s] = None
  <2>1. /\ request' = [request EXCEPT ![r] = [@ EXCEPT !.pc = "starting", !.sid = s,
                                                      !.runtime = k, !.engine = r]]
        /\ UNCHANGED <<sessions, gate>>
    BY <1>3 DEF Arrive, gateVars
  <2>2. [request[r] EXCEPT !.pc = "starting", !.sid = s, !.runtime = k, !.engine = r]
           \in LifeRecord
    BY <1>2, Addressed DEF LifeTypes, LifePcs, Pcs, MaybeRequest
  <2>3. /\ request'[r].pc = "starting"
        /\ \A q \in Requests : q # r => request'[q] = request[q]
    BY <1>2, <2>1 DEF LifeTypes, LifeRecord
  <2>4. LifeTypes'
    BY <1>1, <1>2, <2>1, <2>2 DEF LifeTypes
  <2>5. Busy'
    BY <1>1, <2>1, <2>3 DEF LifeInv, Busy, InProgress
  <2>6. Admission'
    BY <1>2, <2>1, <2>3 DEF LifeInv, Admission, Admits
  <2> QED  BY <2>4, <2>5, <2>6 DEF LifeInv
<1>4. CASE sessions[s] # None
  <2>1. /\ sessions' = [sessions EXCEPT ![s].active = TRUE, ![s].old = FALSE]
        /\ request' = [request EXCEPT ![r] = [@ EXCEPT !.pc = "gated", !.sid = s,
                                  !.runtime = k, !.engine = sessions[s].engine]]
        /\ Gate!Acquire(r)
    BY <1>4 DEF Arrive
  <2>2. sessions[s] \in Session /\ sessions[s].engine \in Requests
    BY <1>2, <1>4 DEF LifeTypes, Session
  <2>3. /\ sessions' \in [Sessions -> Session \union {None}]
        /\ \A t \in Sessions : t # s => sessions'[t] = sessions[t]
    BY <1>2, <2>1, <2>2 DEF LifeTypes, Session
  <2>4. \A e \in Requests : [request[r] EXCEPT !.pc = "gated", !.sid = s, !.runtime = k,
                                               !.engine = e] \in LifeRecord
    BY <1>2, Addressed DEF LifeTypes, LifePcs, Pcs, MaybeRequest
  <2>5. /\ request'[r].pc = "gated" /\ request'[r].sid = s
        /\ \A q \in Requests : q # r => request'[q] = request[q]
    BY <1>2, <2>1 DEF LifeTypes, LifeRecord
  <2>6. LifeTypes'
    BY <1>1, <1>2, <2>1, <2>2, <2>3, <2>4 DEF LifeTypes
  <2>7. Busy'
    BY <1>1, <2>3, <2>5 DEF LifeInv, Busy, InProgress
  <2>8. Admission'
    BY <2>1, <2>5, AcquireFacts DEF LifeInv, Admission, Admits
  <2> QED  BY <2>6, <2>7, <2>8 DEF LifeInv
<1> QED  BY <1>3, <1>4

LEMMA ArriveEphemeralLife ==
    ASSUME LifeInv, Sem!SemInv, NEW r \in Requests, NEW k \in Runtimes, ArriveEphemeral(r, k)
    PROVE  LifeInv'
<1>1. /\ request[r].pc = "new"
      /\ request' = [request EXCEPT ![r] = [@ EXCEPT !.pc = "gated", !.runtime = k,
                                                     !.engine = r]]
      /\ Gate!Acquire(r)
      /\ UNCHANGED <<sessions, container, live>>
  BY DEF ArriveEphemeral, engines
<1>2. LifeTypes
  BY DEF LifeInv
<1>3. [request[r] EXCEPT !.pc = "gated", !.runtime = k, !.engine = r] \in LifeRecord
  BY <1>2 DEF LifeTypes, LifeRecord, LifePcs, Pcs, MaybeRequest
<1>4. /\ request'[r].pc = "gated"
      /\ \A q \in Requests : q # r => request'[q] = request[q]
  BY <1>1, <1>2 DEF LifeTypes, LifeRecord
<1>5. LifeTypes'
  BY <1>1, <1>2, <1>3 DEF LifeTypes
<1>6. Busy'
  BY <1>1, <1>4 DEF LifeInv, Busy, InProgress
<1>7. Admission'
  BY <1>1, <1>4, AcquireFacts DEF LifeInv, Admission, Admits
<1> QED  BY <1>5, <1>6, <1>7 DEF LifeInv

LEMMA RegisterLife ==
    ASSUME LifeInv, Sem!SemInv, NEW r \in Requests, Register(r)
    PROVE  LifeInv'
<1> DEFINE s == request[r].sid
<1>1. /\ request[r].pc = "starting"
      /\ request' = [request EXCEPT ![r].pc = "gated"]
      /\ sessions' = [sessions EXCEPT ![s] = [engine |-> r, active |-> TRUE, old |-> FALSE]]
      /\ Gate!Acquire(r)
      /\ UNCHANGED <<container, live>>
  BY DEF Register, Goes, engines
<1>2. LifeTypes
  BY DEF LifeInv
<1>3. [request[r] EXCEPT !.pc = "gated"] \in LifeRecord
  BY <1>2 DEF LifeTypes, LifeRecord, LifePcs, Pcs
<1>4. /\ request'[r].pc = "gated" /\ request'[r].sid = s
      /\ \A q \in Requests : q # r => request'[q] = request[q]
  BY <1>1, <1>2 DEF LifeTypes, LifeRecord
<1>5. [engine |-> r, active |-> TRUE, old |-> FALSE] \in Session
  BY DEF Session
<1> HIDE DEF s
<1>6. /\ sessions' \in [Sessions -> Session \union {None}]
      /\ \A t \in Sessions : t # s => sessions'[t] = sessions[t]
  BY <1>1, <1>2, <1>5 DEF LifeTypes
<1>7. LifeTypes'
  BY <1>1, <1>2, <1>3, <1>6 DEF LifeTypes
<1>8. Busy'
  BY <1>1, <1>4, <1>6 DEF LifeInv, Busy, InProgress
<1>9. Admission'
  BY <1>1, <1>4, AcquireFacts DEF LifeInv, Admission, Admits
<1> QED  BY <1>7, <1>8, <1>9 DEF LifeInv

\* A request begins when its permit is there.
LEMMA BeginLife ==
    ASSUME LifeInv, Sem!SemInv, NEW r \in Requests, Begin(r)
    PROVE  LifeInv'
<1>1. /\ request[r].pc = "gated"
      /\ Gate!Resume(r)
      /\ UNCHANGED <<sessions, container, live>>
  BY DEF Begin, engines
<1>2. LifeTypes
  BY DEF LifeInv
<1>3. PICK pc \in {"creating", "refused", "ready", "failed"} :
         request' = [request EXCEPT ![r].pc = pc]
  <2>1. Looks(r) \in {"creating", "refused", "ready"}
    BY DEF Looks
  <2> QED  BY <2>1 DEF Begin, Goes
<1>4. [request[r] EXCEPT !.pc = pc] \in LifeRecord
  BY <1>2 DEF LifeTypes, LifeRecord, LifePcs, Pcs
<1>5. /\ request'[r].pc = pc /\ request'[r].sid = request[r].sid
      /\ \A q \in Requests : q # r => request'[q] = request[q]
  BY <1>2, <1>3 DEF LifeTypes, LifeRecord
<1>6. LifeTypes'
  BY <1>1, <1>2, <1>3, <1>4 DEF LifeTypes
<1>7. Busy'
  BY <1>1, <1>5 DEF LifeInv, Busy, InProgress
<1>8. Admission'
  BY <1>1, <1>5, ResumeFacts DEF LifeInv, Admission, Admits
<1> QED  BY <1>6, <1>7, <1>8 DEF LifeInv

\* The steps between a permit and its return, and the end of an ephemeral engine.
LEMMA AdmittedLife ==
    ASSUME LifeInv, NEW r \in Requests,
           \/ Created(r) \/ Booted(r) \/ Write(r) \/ Exec(r) \/ Throws(r)
           \/ CreatedEphemeral(r) \/ EngineStopped(r)
    PROVE  LifeInv'
<1>1. LifeTypes
  BY DEF LifeInv
<1>2. ASSUME NEW pc \in Admits \union {"done"}
      PROVE  /\ [request[r] EXCEPT !.pc = pc] \in LifeRecord
             /\ [request[r] EXCEPT !.pc = pc].pc = pc
             /\ [request[r] EXCEPT !.pc = pc].sid = request[r].sid
  BY <1>1 DEF LifeTypes, LifeRecord, LifePcs, Pcs, Admits
<1>3. ASSUME NEW c \in MaybeRequest
      PROVE  /\ [request[r] EXCEPT !.pc = "executing", !.runs = c] \in LifeRecord
             /\ [request[r] EXCEPT !.pc = "executing", !.runs = c].pc = "executing"
             /\ [request[r] EXCEPT !.pc = "executing", !.runs = c].sid = request[r].sid
  BY <1>1 DEF LifeTypes, LifeRecord, LifePcs, Pcs
<1>4. CASE Created(r)
  <2>1. /\ request[r].pc \in Admits
        /\ request' = [request EXCEPT ![r] = [request[r] EXCEPT !.pc = "booting"]]
        /\ UNCHANGED <<sessions, gateVars>>
    BY <1>4 DEF Created, Goes, Admits
  <2>2. container' \in [Requests -> MaybeRequest] /\ live' \in SUBSET Requests
    BY <1>1, <1>4 DEF Created, LifeTypes, MaybeRequest
  <2>3. "booting" \in Admits
    BY DEF Admits
  <2> QED  BY <1>2, <2>1, <2>2, <2>3, QuietStep
<1>5. ASSUME NEW pc \in Admits, request[r].pc \in Admits, Goes(r, pc),
             UNCHANGED <<sessions, gateVars, live, container>>
      PROVE  LifeInv'
  <2>1. request' = [request EXCEPT ![r] = [request[r] EXCEPT !.pc = pc]]
    BY <1>5 DEF Goes
  <2> QED  BY <1>1, <1>2, <1>5, <2>1, QuietStep DEF LifeTypes
<1>6. CASE Booted(r) \/ Write(r) \/ Throws(r)
  <2>1. /\ request[r].pc \in Admits
        /\ UNCHANGED <<sessions, gateVars, live, container>>
        /\ Goes(r, "ready") \/ Goes(r, "written") \/ Goes(r, "failed")
    BY <1>6 DEF Booted, Write, Throws, Admits, engines
  <2>2. "ready" \in Admits /\ "written" \in Admits /\ "failed" \in Admits
    BY DEF Admits
  <2> QED  BY <1>5, <2>1, <2>2
<1>7. CASE Exec(r)
  <2> DEFINE c == container[request[r].engine]
  <2>1. /\ request[r].pc \in Admits
        /\ request' = [request EXCEPT ![r] = [request[r] EXCEPT !.pc = "executing", !.runs = c]]
        /\ UNCHANGED <<sessions, gateVars, live, container>>
        /\ c \in live
    BY <1>7 DEF Exec, Usable, Admits, engines
  <2>2. c \in MaybeRequest
    BY <1>1, <2>1 DEF LifeTypes, MaybeRequest
  <2>3. "executing" \in Admits
    BY DEF Admits
  <2> HIDE DEF c
  <2> QED  BY <1>1, <1>3, <2>1, <2>2, <2>3, QuietStep DEF LifeTypes
<1>8. CASE CreatedEphemeral(r)
  <2>1. /\ request[r].pc \in Admits
        /\ request' = [request EXCEPT ![r] = [request[r] EXCEPT !.pc = "executing", !.runs = r]]
        /\ UNCHANGED <<sessions, gateVars, container>>
        /\ live' = live \union {r}
    BY <1>8 DEF CreatedEphemeral, Admits, engines
  <2>2. live' \in SUBSET Requests /\ container' \in [Requests -> MaybeRequest]
    BY <1>1, <2>1 DEF LifeTypes
  <2>3. "executing" \in Admits /\ r \in MaybeRequest
    BY DEF Admits, MaybeRequest
  <2> QED  BY <1>3, <2>1, <2>2, <2>3, QuietStep
<1>9. CASE EngineStopped(r)
  <2>1. /\ request[r].pc = "stopping" /\ request[r].sid = None
        /\ request' = [request EXCEPT ![r] = [request[r] EXCEPT !.pc = "done"]]
        /\ UNCHANGED <<sessions, gateVars, container>>
        /\ live' \subseteq live
    BY <1>9 DEF EngineStopped, Ephemeral, Goes, engines
  <2>2. live' \in SUBSET Requests /\ container' \in [Requests -> MaybeRequest]
    BY <1>1, <2>1 DEF LifeTypes
  <2> QED  BY <1>2, <2>1, <2>2, QuietStep
<1> QED  BY <1>4, <1>6, <1>7, <1>8, <1>9

\* The session a request was busy in is no longer active when it is done.
LEMMA FinishLife ==
    ASSUME LifeInv, Sem!SemInv, NEW r \in Requests, Finish(r) \/ FinishEphemeral(r)
    PROVE  LifeInv'
<1>1. /\ Gate!Release(r)
      /\ UNCHANGED <<container, live>>
  BY DEF Finish, FinishEphemeral, engines
<1>2. LifeTypes
  BY DEF LifeInv
<1>3. PICK pc \in {"done", "stopping"} :
         /\ request' = [request EXCEPT ![r].pc = pc]
         /\ pc = "done" => Finish(r)
         /\ pc = "stopping" => request[r].sid = None /\ sessions' = sessions
  BY DEF Finish, FinishEphemeral, Ephemeral, Goes
<1>4. [request[r] EXCEPT !.pc = pc] \in LifeRecord
  BY <1>2 DEF LifeTypes, LifeRecord, LifePcs, Pcs
<1>5. /\ request'[r].pc = pc /\ request'[r].sid = request[r].sid
      /\ \A q \in Requests : q # r => request'[q] = request[q]
  BY <1>2, <1>3 DEF LifeTypes, LifeRecord
<1>6. /\ sessions' \in [Sessions -> Session \union {None}]
      /\ \A s \in Sessions :
            sessions'[s] # None /\ sessions'[s].active =>
               sessions[s] # None /\ sessions[s].active /\ s # request[r].sid
  <2> DEFINE i == request[r].sid
  <2>1. CASE pc = "stopping"
    BY <1>2, <1>3, <2>1, ServerAssumption DEF LifeTypes
  <2>2. CASE pc = "done" /\ sessions[i] = None
    <3>1. sessions' = sessions
      BY <1>3, <2>2 DEF Finish
    <3> QED  BY <1>2, <2>2, <3>1 DEF LifeTypes
  <2>3. CASE pc = "done" /\ sessions[i] # None
    <3>1. sessions' = [sessions EXCEPT ![i].active = FALSE, ![i].old = FALSE]
      BY <1>3, <2>3 DEF Finish
    <3> HIDE DEF i
    <3>2. i \in Sessions => sessions[i] \in Session
      BY <1>2, <2>3 DEF LifeTypes
    <3>3. /\ sessions' \in [Sessions -> Session \union {None}]
          /\ i \in Sessions => ~sessions'[i].active
          /\ \A s \in Sessions : s # i => sessions'[s] = sessions[s]
      BY <1>2, <3>1, <3>2 DEF LifeTypes, Session
    <3> QED  BY <3>3 DEF i
  <2> QED  BY <2>1, <2>2, <2>3
<1>7. LifeTypes'
  BY <1>1, <1>2, <1>3, <1>4, <1>6 DEF LifeTypes
<1>8. Busy'
  BY <1>5, <1>6 DEF LifeInv, Busy, InProgress
<1>9. Admission'
  BY <1>1, <1>5, ReleaseFacts DEF LifeInv, Admission, Admits
<1> QED  BY <1>7, <1>8, <1>9 DEF LifeInv

\* Time, uploads, the stopping tasks and the cleanup mark no session active.
LEMMA BackgroundLife ==
    ASSUME LifeInv,
           \/ \E s \in Sessions : Age(s) \/ TransferFile(s)
           \/ \E k \in Stoppers :
                 \/ \E s \in Sessions, prune \in BOOLEAN : Stop(k, s, prune)
                 \/ StopRemoves(k) \/ StopForgets(k) \/ StopDeletes(k)
           \/ \E c \in Requests : RemoveContainer(c)
           \/ UNCHANGED vars
    PROVE  LifeInv'
<1>1. LifeTypes
  BY DEF LifeInv
<1>2. ASSUME NEW s \in Sessions, Age(s) \/ TransferFile(s)
      PROVE  LifeInv'
  <2>1. PICK old \in BOOLEAN :
           /\ sessions' = [sessions EXCEPT ![s].old = old] /\ sessions[s] # None
           /\ UNCHANGED <<request, gateVars, live, container>>
    BY <1>2 DEF Age, TransferFile, engines
  <2>2. sessions[s] \in Session
    BY <1>1, <2>1 DEF LifeTypes
  <2>3. /\ sessions' \in [Sessions -> Session \union {None}]
        /\ sessions'[s].active = sessions[s].active
        /\ \A t \in Sessions : t # s => sessions'[t] = sessions[t]
    BY <1>1, <2>1, <2>2 DEF LifeTypes, Session
  <2> QED  BY <1>1, <2>1, <2>3, BackgroundStep DEF LifeTypes
<1>3. ASSUME NEW k \in Stoppers,
             \/ \E s \in Sessions, prune \in BOOLEAN : Stop(k, s, prune)
             \/ StopRemoves(k) \/ StopForgets(k)
      PROVE  LifeInv'
  <2>1. /\ UNCHANGED <<sessions, request, gateVars>>
        /\ live' \subseteq live
        /\ \/ container' = container
           \/ container' = [container EXCEPT ![stopper[k].engine] = None]
    BY <1>3 DEF Stop, StopRemoves, StopForgets, engines
  <2>2. live' \in SUBSET Requests /\ container' \in [Requests -> MaybeRequest]
    BY <1>1, <2>1 DEF LifeTypes, MaybeRequest
  <2> QED  BY <1>1, <2>1, <2>2, BackgroundStep DEF LifeTypes
<1>4. ASSUME NEW k \in Stoppers, StopDeletes(k)
      PROVE  LifeInv'
  <2>1. /\ UNCHANGED <<request, gateVars, live, container>>
        /\ sessions' = [sessions EXCEPT ![stopper[k].sid] = None]
    BY <1>4 DEF StopDeletes, engines
  <2>2. /\ sessions' \in [Sessions -> Session \union {None}]
        /\ \A s \in Sessions : sessions'[s] = None \/ sessions'[s] = sessions[s]
    BY <1>1, <2>1 DEF LifeTypes
  <2> QED  BY <1>1, <2>1, <2>2, BackgroundStep DEF LifeTypes
<1>5. ASSUME NEW c \in Requests, RemoveContainer(c)
      PROVE  LifeInv'
  <2>1. UNCHANGED <<sessions, request, gateVars, container>> /\ live' \subseteq live
    BY <1>5 DEF RemoveContainer, engines, gateVars
  <2>2. live' \in SUBSET Requests
    BY <1>1, <2>1 DEF LifeTypes
  <2> QED  BY <1>1, <2>1, <2>2, BackgroundStep DEF LifeTypes
<1>6. CASE UNCHANGED vars
  BY <1>1, <1>6, BackgroundStep DEF vars, engines, LifeTypes
<1> QED  BY <1>2, <1>3, <1>4, <1>5, <1>6

\* Every step of either specification preserves the invariant.
LEMMA StepLife ==
    ASSUME LifeInv, Sem!SemInv, [AnyNext]_vars
    PROVE  LifeInv'
<1>1. CASE Next
  BY <1>1, ArriveLife, RegisterLife, BeginLife, AdmittedLife, FinishLife, BackgroundLife DEF Next
<1>2. ASSUME NEW r \in Requests, ArriveAny(r)
      PROVE  LifeInv'
  BY <1>2, ArriveLife, ArriveEphemeralLife DEF ArriveAny
<1>3. ASSUME NEW r \in Requests, ServeRequest(r)
      PROVE  LifeInv'
  BY <1>3, RegisterLife, BeginLife, AdmittedLife, FinishLife
  DEF ServeRequest, SessionStep, EphemeralStep
<1>4. ASSUME NEW k \in Stoppers,
             StopStep(k) \/ \E s \in Sessions : StopSession(k, s)
      PROVE  LifeInv'
  BY <1>4, BackgroundLife DEF StopStep, StopSession
<1>5. ASSUME CleanupStep
      PROVE  LifeInv'
  <2>1. ASSUME NEW s \in Sessions, CleanSession(s)
        PROVE  LifeInv'
    BY <2>1, BackgroundLife, LifecycleAssumption DEF CleanSession
  <2>2. CASE SessionsCleaned \/ ListContainers \/ Settle \/ Exit
    <3>1. UNCHANGED vars
      BY <2>2 DEF SessionsCleaned, ListContainers, Settle, Exit
    <3> QED  BY <3>1, BackgroundLife
  <2> QED  BY <1>5, <2>1, <2>2, BackgroundLife DEF CleanupStep
<1>6. CASE ResolvePort \/ CancelStartup \/ PortTaken \/ Serve \/ Terminate
             \/ \E a \in Callers : PostCleanup(a)
  <2>1. UNCHANGED vars
    BY <1>6 DEF ResolvePort, CancelStartup, PortTaken, Serve, Terminate, PostCleanup
  <2> QED  BY <2>1, BackgroundLife
<1>7. CASE NextLife
  BY <1>2, <1>3, <1>4, <1>5, <1>6, <1>7 DEF NextLife
<1>8. CASE UNCHANGED vars
  BY <1>8, BackgroundLife
<1> QED  BY <1>1, <1>7, <1>8 DEF AnyNext

LEMMA StartLife == Init => LifeInv /\ Sem!Init
<1> SUFFICES ASSUME Init PROVE LifeInv /\ Sem!Init
  OBVIOUS
<1>1. NewRequest \in LifeRecord /\ NewRequest.pc = "new"
  BY DEF NewRequest, LifeRecord, LifePcs, Pcs, MaybeRequest
<1> HIDE DEF NewRequest
<1>2. LifeTypes
  BY <1>1 DEF Init, LifeTypes, MaybeRequest
<1>3. Sem!Init /\ \A r \in Requests : gate[r] = "idle"
  BY DEF Init, Gate!Init, Sem!Init
<1>4. Busy /\ Admission
  BY <1>1, <1>3 DEF Init, Busy, Admission, Admits
<1> QED  BY <1>2, <1>3, <1>4 DEF LifeInv

\* Whatever the clients do, from the start on.
AnySpec == Init /\ [][AnyNext]_vars

LEMMA EitherSpec == (Spec => AnySpec) /\ (SpecLife => AnySpec)
<1>1. [Next]_vars => [AnyNext]_vars
  BY DEF AnyNext
<1>2. [NextLife]_allVars => [AnyNext]_vars
  BY DEF AnyNext, allVars
<1>3. InitLife => Init
  BY DEF InitLife
<1> QED  BY <1>1, <1>2, <1>3, PTL DEF Spec, SpecLife, AnySpec

\* What the semaphore's theorems assume.
LEMMA SemFinite == Sem!IsFiniteSet(Requests)
  BY GateAssumption DEF Sem!IsFiniteSet, IsFiniteSet

\* The server uses its semaphore as the class is meant to be used.
LEMMA AnySemaphore == AnySpec => Sem!Spec
<1>1. Init => Sem!Init
  BY StartLife
<1>2. [AnyNext]_vars => [Sem!Next]_(Sem!vars)
  BY GateSteps DEF GateNext, Sem!Next, gateVars, Sem!vars
<1> QED  BY <1>1, <1>2, PTL DEF AnySpec, Sem!Spec

\* Both invariants always hold.
LEMMA AnyAlways == AnySpec => [](LifeInv /\ Sem!SemInv)
<1>1. AnySpec => []Sem!SemInv
  BY AnySemaphore, Sem!SemaphoreInvariant, GateAssumption, SemFinite, PTL
<1>2. Init => LifeInv
  BY StartLife
<1>3. LifeInv /\ Sem!SemInv /\ [AnyNext]_vars => LifeInv'
  BY StepLife
<1> QED  BY <1>1, <1>2, <1>3, PTL DEF AnySpec

\* What TypeOK says more than LifeTypes.
MoreTypes == /\ runtime \in [Requests -> Runtimes \union {None}]
             /\ stopper \in [Stoppers -> Task]
             /\ \A r \in Requests : request[r].pc # "stopping"

LEMMA MoreTypesStep ==
    ASSUME LifeTypes, MoreTypes, [Next]_vars
    PROVE  MoreTypes'
<1>1. ASSUME NEW r \in Requests, NEW pc \in Pcs, Goes(r, pc)
      PROVE  \A q \in Requests : request'[q].pc # "stopping"
  <2>1. \A q \in Requests : request'[q].pc = IF q = r THEN pc ELSE request[q].pc
    BY <1>1 DEF Goes, LifeTypes, LifeRecord
  <2> QED  BY <2>1 DEF MoreTypes, Pcs
<1>2. ASSUME NEW r \in Requests, NEW s \in Sessions, NEW k \in Runtimes, Arrive(r, s, k)
      PROVE  MoreTypes'
  <2>1. \A q \in Requests : request'[q].pc \in {"gated", "starting", request[q].pc}
    <3>1. PICK pc \in {"gated", "starting"} : \E e : request' =
             [request EXCEPT ![r] = [@ EXCEPT !.pc = pc, !.sid = s, !.runtime = k, !.engine = e]]
      BY <1>2 DEF Arrive
    <3> QED  BY <3>1 DEF LifeTypes, LifeRecord
  <2> QED  BY <1>2, <2>1 DEF Arrive, engines, MoreTypes
<1>3. ASSUME NEW r \in Requests,
             Register(r) \/ Begin(r) \/ Created(r) \/ Write(r) \/ Throws(r) \/ Finish(r)
      PROVE  MoreTypes'
  <2>1. UNCHANGED <<runtime, stopper>>
    BY <1>3 DEF Register, Begin, Created, Write, Throws, Finish, engines
  <2>2. \E pc \in Pcs : Goes(r, pc)
    <3>1. Looks(r) \in {"creating", "refused", "ready"}
      BY DEF Looks
    <3> QED  BY <1>3, <3>1 DEF Register, Begin, Created, Write, Throws, Finish, Pcs
  <2> QED  BY <1>1, <2>1, <2>2 DEF MoreTypes
<1>4. ASSUME NEW r \in Requests, Booted(r)
      PROVE  MoreTypes'
  <2>1. runtime' \in [Requests -> Runtimes \union {None}] /\ stopper' = stopper
    <3>1. request[r].runtime \in Runtimes \union {None}
      BY DEF LifeTypes, LifeRecord
    <3> QED  BY <1>4, <3>1 DEF Booted, MoreTypes
  <2>2. Goes(r, "ready") /\ "ready" \in Pcs
    BY <1>4 DEF Booted, Pcs
  <2> QED  BY <1>1, <2>1, <2>2 DEF MoreTypes
<1>5. ASSUME NEW r \in Requests, Exec(r)
      PROVE  MoreTypes'
  <2>1. \A q \in Requests : request'[q].pc \in {"executing", request[q].pc}
    BY <1>5 DEF Exec, LifeTypes, LifeRecord
  <2> QED  BY <1>5, <2>1 DEF Exec, engines, MoreTypes
<1>6. ASSUME NEW k \in Stoppers, NEW s \in Sessions, NEW prune \in BOOLEAN, Stop(k, s, prune)
      PROVE  MoreTypes'
  <2> DEFINE pc == IF container[sessions[s].engine] = None THEN "deleting" ELSE "stopping"
  <2>1. sessions[s].engine \in Requests
    BY <1>6 DEF Stop, LifeTypes, Session
  <2>2. /\ stopper' = [stopper EXCEPT ![k] = [pc |-> pc, sid |-> s,
                          engine |-> sessions[s].engine, prune |-> prune]]
        /\ UNCHANGED <<runtime, request>>
    BY <1>6 DEF Stop, engines
  <2>3. pc \in {"deleting", "stopping"}
    OBVIOUS
  <2> HIDE DEF pc
  <2>4. [pc |-> pc, sid |-> s, engine |-> sessions[s].engine, prune |-> prune] \in Task
    BY <2>1, <2>3 DEF Task, MaybeRequest
  <2> QED  BY <2>2, <2>4 DEF MoreTypes
<1>7. ASSUME NEW k \in Stoppers, StopRemoves(k) \/ StopForgets(k) \/ StopDeletes(k)
      PROVE  MoreTypes'
  <2>1. IdleStopper \in Task
    BY DEF IdleStopper, Task, MaybeRequest
  <2>2. \A pc \in {"removing", "deleting"} : [stopper[k] EXCEPT !.pc = pc] \in Task
    BY DEF MoreTypes, Task
  <2>3. stopper' \in [Stoppers -> Task]
    <3> HIDE DEF IdleStopper
    <3> QED  BY <1>7, <2>1, <2>2 DEF StopRemoves, StopForgets, StopDeletes, MoreTypes
  <2> QED  BY <1>7, <2>3 DEF StopRemoves, StopForgets, StopDeletes, engines, MoreTypes
<1>8. CASE UNCHANGED <<runtime, stopper, request>>
  BY <1>8 DEF MoreTypes
<1> QED
  BY <1>2, <1>3, <1>4, <1>5, <1>6, <1>7, <1>8 DEF Next, Age, TransferFile, vars, engines

\* The variables of the session server keep their types, whatever its clients
\* do and whichever call fails.
THEOREM SessionsType == Spec => []TypeOK
<1>1. Init => MoreTypes
  <2>1. IdleStopper \in Task /\ NewRequest.pc = "new"
    BY DEF IdleStopper, Task, MaybeRequest, NewRequest
  <2> QED  BY <2>1 DEF Init, MoreTypes
<1>2. LifeInv /\ MoreTypes /\ [Next]_vars => MoreTypes'
  BY MoreTypesStep DEF LifeInv
<1>3. Spec => []MoreTypes
  BY <1>1, <1>2, EitherSpec, AnyAlways, PTL DEF Spec
<1>4. LifeInv /\ Sem!SemInv /\ MoreTypes => TypeOK
  <2> SUFFICES ASSUME LifeInv, Sem!SemInv, MoreTypes PROVE TypeOK
    OBVIOUS
  <2>1. request \in [Requests -> Record]
    BY DEF LifeInv, LifeTypes, LifeRecord, LifePcs, MoreTypes, Record
  <2>2. Gate!TypeOK
    BY DEF Sem!SemInv, Sem!TypeOK, Gate!TypeOK, Sem!States, Gate!States
  <2> QED  BY <2>1, <2>2 DEF LifeInv, LifeTypes, MoreTypes, TypeOK, Record, Pcs, Task
<1> QED  BY <1>3, <1>4, EitherSpec, AnyAlways, PTL

\* With nobody in progress nobody can be what a session is active for.
LEMMA NobodyStuck == LifeInv => NoStuckActive
  BY DEF LifeInv, Busy, NoStuckActive, AtRest

\* With nothing under way no session is marked active, which would keep it from
\* ever being pruned: also when requests of a session overlap or find it stopped.
THEOREM SessionsNoStuckActive == Spec => []NoStuckActive
  BY EitherSpec, AnyAlways, NobodyStuck, PTL

\* The same with ephemeral requests, cleanups and the end of the process.
THEOREM ServerNoStuckActive == SpecLife => []NoStuckActive
  BY EitherSpec, AnyAlways, NobodyStuck, PTL

\* The requests that got a permit and did not return it yet.
Admitted == {r \in Requests : request[r].pc \in Admits}

\* At most maxConcurrent requests are between the semaphore and their answer, with
\* and without a session, whatever fails and whenever a cleanup comes.
THEOREM ServerBoundsExecutions == SpecLife => [](Cardinality(Admitted) <= MaxConcurrent)
<1>1. LifeInv /\ Sem!SemInv => Cardinality(Admitted) <= MaxConcurrent
  <2> SUFFICES ASSUME LifeInv, Sem!SemInv PROVE Cardinality(Admitted) <= MaxConcurrent
    OBVIOUS
  <2>1. Admitted \subseteq Sem!Owners
    BY DEF LifeInv, Admission, Admitted, Sem!Owners
  <2>2. Sem!Cardinality(Sem!Owners) <= MaxConcurrent
    BY DEF Sem!SemInv, Sem!Accounting
  <2>3. Sem!Cardinality(Sem!Owners) = Cardinality(Sem!Owners)
    BY DEF Sem!Cardinality, Cardinality
  <2>4. IsFiniteSet(Sem!Owners) /\ Sem!Owners \subseteq Requests
    BY GateAssumption, FS_Subset DEF Sem!Owners
  <2>5. Cardinality(Admitted) <= Cardinality(Sem!Owners)
    BY <2>1, <2>4, FS_Subset
  <2>6. Cardinality(Admitted) \in Nat /\ Cardinality(Sem!Owners) \in Nat
    BY <2>1, <2>4, FS_Subset, FS_CardinalityType
  <2> QED  BY <2>2, <2>3, <2>5, <2>6, GateAssumption
<1> QED  BY <1>1, EitherSpec, AnyAlways, PTL
-----------------------------------------------------------------------------
\* The variables of the process that ServerLifecycle adds.
Settles == {"idle", "waiting", "answered"}

\* A step that RunCleanup, and nobody else, begins a cleanup with.
LEMMA Begins ==
    ASSUME LifeTypeOK, NEW a \in Asking, RunCleanup(a)
    PROVE  /\ caller' \in [Asking -> Settles]
           /\ \/ cleanup' = cleanup
              \/ /\ cleanup.pc = "none"
                 /\ cleanup' = [pc |-> "sessions", found |-> {}, ended |-> Done]
  BY DEF LifeTypeOK, RunCleanup, NoCleanup, Settles

\* The process, the cleanup and its callers keep their types, whatever the clients,
\* the port and the signals do.
LEMMA LifeTypesStep ==
    ASSUME LifeTypes, LifeTypeOK, [NextLife]_allVars
    PROVE  LifeTypeOK'
<1> DEFINE Process == [pc : {"resolving", "binding", "retrying", "serving", "exited"},
                       listening : BOOLEAN, shuttingDown : BOOLEAN]
           Cleanup == [pc : {"none", "sessions", "listing", "containers"},
                       found : SUBSET Requests, ended : SUBSET Requests]
<1>1. process \in Process /\ portFree \in BOOLEAN /\ cleanup \in Cleanup
      /\ caller \in [Asking -> Settles]
  BY DEF LifeTypeOK, Settles
<1>2. Done \subseteq Requests /\ live \subseteq Requests
  BY DEF Done, LifeTypes
<1>3. SUFFICES process' \in Process /\ portFree' \in BOOLEAN /\ cleanup' \in Cleanup
               /\ caller' \in [Asking -> Settles]
  BY DEF LifeTypeOK, Settles
<1>4. CASE UNCHANGED lifeVars
  BY <1>1, <1>4 DEF lifeVars
<1>5. CASE ResolvePort \/ CancelStartup \/ PortTaken \/ Serve \/ Exit
  BY <1>1, <1>5 DEF ResolvePort, CancelStartup, PortTaken, Serve, Exit
<1>6. ASSUME NEW a \in Asking, RunCleanup(a)
      PROVE  cleanup' \in Cleanup /\ caller' \in [Asking -> Settles]
  BY <1>1, <1>2, <1>6, Begins
<1>7. ASSUME NEW a \in Callers, PostCleanup(a)
      PROVE  <1>3!1
  BY <1>1, <1>6, <1>7 DEF PostCleanup, Asking
<1>8. CASE Terminate
  BY <1>1, <1>6, <1>8 DEF Terminate, Asking
<1>9. CASE SessionsCleaned \/ ListContainers
  BY <1>1, <1>2, <1>9 DEF SessionsCleaned, ListContainers, Cleans
<1>10. CASE Settle
  BY <1>1, <1>10 DEF Settle, NoCleanup, Settles
<1>11. ASSUME NEW c \in Requests, RemoveContainer(c)
       PROVE  <1>3!1
  BY <1>1, <1>11 DEF RemoveContainer
<1> QED
  BY <1>4, <1>5, <1>7, <1>8, <1>9, <1>10, <1>11
  DEF NextLife, CleanupStep, CleanSession, ArriveAny, ServeRequest, StopSession, StopStep,
      allVars

\* How a step may change which containers exist and which requests are over.
Keeps == /\ Done \subseteq Done'
         /\ live' \subseteq live \union (Requests \ Done)

\* A request that is over stays so, and a container is made only for one that is not.
LEMMA KeepsStep ==
    ASSUME LifeTypes, [NextLife]_allVars
    PROVE  Keeps
<1>1. ASSUME NEW r \in Requests, request[r].pc # "done",
             \A q \in Requests : q # r => request'[q] = request[q]
      PROVE  Done \subseteq Done'
  BY <1>1 DEF Done
<1>2. ASSUME NEW r \in Requests, NEW pc, Goes(r, pc), request[r].pc # "done"
      PROVE  Done \subseteq Done'
  BY <1>1, <1>2 DEF Goes, LifeTypes
<1>3. CASE UNCHANGED <<request, live>>
  BY <1>3 DEF Keeps, Done
<1>4. ASSUME NEW r \in Requests, ArriveAny(r)
      PROVE  Keeps
  <2>1. ASSUME NEW s \in Sessions, NEW k \in Runtimes, Arrive(r, s, k)
        PROVE  Keeps
    <3>1. live' = live /\ request[r].pc = "new"
      BY <2>1 DEF Arrive
    <3>2. \A q \in Requests : q # r => request'[q] = request[q]
      BY <2>1 DEF Arrive, LifeTypes
    <3> QED  BY <1>1, <3>1, <3>2 DEF Keeps
  <2>2. ASSUME NEW k \in Runtimes, ArriveEphemeral(r, k)
        PROVE  Keeps
    <3>1. live' = live /\ request[r].pc = "new"
      BY <2>2 DEF ArriveEphemeral
    <3>2. \A q \in Requests : q # r => request'[q] = request[q]
      BY <2>2 DEF ArriveEphemeral, LifeTypes
    <3> QED  BY <1>1, <3>1, <3>2 DEF Keeps
  <2> QED  BY <1>4, <2>1, <2>2 DEF ArriveAny
<1>5. ASSUME NEW r \in Requests, ServeRequest(r)
      PROVE  Keeps
  <2>1. request[r].pc # "done" /\ live' \subseteq live \union {r}
    <3>1. CASE Register(r) \/ Booted(r) \/ Write(r) \/ Exec(r)
      BY <3>1 DEF Register, Booted, Write, Exec
    <3>2. CASE Created(r) \/ Finish(r) \/ Begin(r) \/ Throws(r)
      BY <3>2 DEF Created, Finish, Begin, Throws
    <3>3. CASE EphemeralStep(r)
      BY <3>3 DEF EphemeralStep, CreatedEphemeral, FinishEphemeral, EngineStopped
    <3> QED
      BY <1>5, <3>1, <3>2, <3>3 DEF ServeRequest, SessionStep
  <2>2. \A q \in Requests : q # r => request'[q] = request[q]
    <3>1. CASE Exec(r) \/ CreatedEphemeral(r)
      BY <3>1 DEF Exec, CreatedEphemeral, LifeTypes
    <3>2. CASE \E pc : Goes(r, pc)
      BY <3>2 DEF Goes, LifeTypes
    <3> QED
      BY <1>5, <3>1, <3>2 DEF ServeRequest, SessionStep, Register, Created, Booted, Write,
         Finish, EphemeralStep, FinishEphemeral, EngineStopped, Begin, Throws
  <2> QED  BY <1>1, <2>1, <2>2 DEF Keeps, Done
<1>6. ASSUME NEW k \in Stoppers,
             \/ \E s \in Sessions : Stop(k, s, FALSE)
             \/ StopRemoves(k) \/ StopForgets(k) \/ StopDeletes(k)
      PROVE  Keeps
  <2>1. request' = request /\ live' \subseteq live
    BY <1>6 DEF Stop, StopRemoves, StopForgets, StopDeletes
  <2> QED  BY <2>1 DEF Keeps, Done
<1>7. ASSUME NEW c \in Requests, RemoveContainer(c)
      PROVE  Keeps
  <2>1. request' = request /\ live' \subseteq live
    BY <1>7 DEF RemoveContainer
  <2> QED  BY <2>1 DEF Keeps, Done
<1> QED
  BY <1>3, <1>4, <1>5, <1>6, <1>7, LifecycleAssumption
  DEF NextLife, CleanupStep, CleanSession, StopSession, StopStep, ResolvePort, CancelStartup,
      PortTaken, Serve, PostCleanup, Terminate, SessionsCleaned, ListContainers, Settle, Exit,
      allVars, vars

\* While a cleanup removes what it listed, a container of a request that was over
\* when it began is still to be removed, or is one that it does not look for.
Sweeps == /\ cleanup.ended \subseteq Done
          /\ cleanup.pc = "containers" => live \intersect cleanup.ended
                                            \subseteq cleanup.found \union Foreign

LEMMA SweepsStep ==
    ASSUME LifeTypes, LifeTypeOK, Sweeps, [NextLife]_allVars
    PROVE  Sweeps'
<1>1. Keeps
  BY KeepsStep
<1>2. cleanup.ended \subseteq Requests
  BY DEF LifeTypeOK
<1>3. CASE cleanup' = cleanup
  BY <1>1, <1>2, <1>3 DEF Keeps, Sweeps
<1>4. ASSUME NEW a \in Asking, RunCleanup(a)
      PROVE  Sweeps'
  <2>1. CASE cleanup' = [pc |-> "sessions", found |-> {}, ended |-> Done]
    BY <1>1, <2>1 DEF Sweeps, Keeps
  <2> QED  BY <1>3, <1>4, <2>1, Begins
<1>5. CASE SessionsCleaned
  BY <1>1, <1>5 DEF SessionsCleaned, Cleans, Sweeps, Keeps, LifeTypeOK
<1>6. CASE ListContainers
  <2>1. cleanup'.ended = cleanup.ended /\ cleanup'.found = live \ Foreign /\ live' = live
    BY <1>6 DEF ListContainers, LifeTypeOK, vars
  <2> QED  BY <1>1, <2>1 DEF Sweeps, Keeps
<1>7. CASE Settle
  BY <1>7 DEF Settle, NoCleanup, Sweeps
<1>8. ASSUME NEW c \in Requests, RemoveContainer(c)
      PROVE  Sweeps'
  <2>1. /\ cleanup'.pc = cleanup.pc /\ cleanup'.ended = cleanup.ended
        /\ cleanup'.found = cleanup.found \ {c} /\ live' = live \ {c}
    BY <1>8 DEF RemoveContainer, LifeTypeOK
  <2> QED  BY <1>1, <2>1 DEF Sweeps, Keeps
<1> QED
  BY <1>3, <1>4, <1>5, <1>6, <1>7, <1>8
  DEF NextLife, CleanupStep, CleanSession, StopSession, StopStep, ArriveAny, ServeRequest,
      ResolvePort, CancelStartup, PortTaken, Serve, PostCleanup, Terminate, Exit, Asking,
      allVars, lifeVars

\* The three together.
LEMMA LifecycleAlways == SpecLife => [](LifeTypes /\ LifeTypeOK /\ Sweeps)
<1>1. SpecLife => []LifeTypes
  BY EitherSpec, AnyAlways, PTL DEF LifeInv
<1>2. InitLife => LifeTypeOK /\ Sweeps
  BY DEF InitLife, NoCleanup, LifeTypeOK, Sweeps
<1>3. LifeTypes /\ LifeTypeOK /\ Sweeps /\ [NextLife]_allVars => (LifeTypeOK /\ Sweeps)'
  BY LifeTypesStep, SweepsStep
<1> QED  BY <1>1, <1>2, <1>3, PTL DEF SpecLife

\* The variables of the process keep their types.
THEOREM LifecycleType == SpecLife => []LifeTypeOK
  BY LifecycleAlways, PTL

\* A cleanup that settles has removed every container of a request that was over
\* when it began, also one that its engine and its session had lost, but for those
\* of images it does not look for; whatever comes and goes while it lasts.
THEOREM LifecycleCleanupSweeps == SpecLife => CleanupSweeps
<1>1. ASSUME LifeTypeOK, Sweeps, [NextLife]_allVars,
             cleanup.pc # "none", cleanup'.pc = "none"
      PROVE  live \intersect cleanup.ended \subseteq Foreign
  <2>1. CASE Settle
    BY <1>1, <2>1 DEF Settle, Sweeps
  <2>2. CASE cleanup' = cleanup
    BY <1>1, <2>2
  <2>3. ASSUME NEW a \in Asking, RunCleanup(a)
        PROVE  FALSE
    BY <1>1, <2>3, Begins
  <2>4. CASE SessionsCleaned \/ ListContainers \/ \E c \in Requests : RemoveContainer(c)
    BY <1>1, <2>4 DEF SessionsCleaned, ListContainers, RemoveContainer, Cleans, LifeTypeOK
  <2> QED
    BY <1>1, <2>1, <2>2, <2>3, <2>4
    DEF NextLife, CleanupStep, CleanSession, StopSession, StopStep, ArriveAny, ServeRequest,
        ResolvePort, CancelStartup, PortTaken, Serve, PostCleanup, Terminate, Exit, Asking,
        allVars, lifeVars
<1> QED  BY <1>1, LifecycleAlways, PTL DEF SpecLife, CleanupSweeps
=============================================================================
