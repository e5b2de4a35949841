---------------------------- MODULE RemoteClient ----------------------------
(***************************************************************************)
(* One RemoteIsol8 of packages/core/src/client/remote.ts and the server's  *)
(* side of its calls: executeStream() over a WebSocket or, when there is   *)
(* none, over SSE, and execute().  Every request is admitted by the module *)
(* ApiKeys first.  A reader stands for the loop of `isol8 run` in          *)
(* apps/cli/src/cli.ts.                                                    *)
(*                                                                         *)
(* The wait for the server's semaphore and the engine are one delay here:  *)
(* an execution puts out events and ends.  Callbacks of a socket find the  *)
(* generator at its await ("waiting") or with an event at its reader       *)
(* ("yielded"); what they wake runs before the next callback.  The network *)
(* may cut a connection at any time; what it already carried may be lost.  *)
(***************************************************************************)
EXTENDS Naturals, Sequences, SequencesExt, FiniteSets

CONSTANTS Calls,      \* the calls of executeStream() and execute()
          Light,      \* bound: the calls whose execution just exits
          MaxEvents,  \* bound: output events of one execution
          Keys, Master, Wrong, MaxTime, NoRow

ASSUME RemoteAssumption == Light \subseteq Calls /\ MaxEvents \in Nat

ASSUME KeysAssumption == /\ Master \notin Keys /\ Wrong \notin Keys /\ Master # Wrong
                         /\ NoRow \notin Keys \union {Master, Wrong}
                         /\ NoRow \notin [expiresAt : 0 .. MaxTime, revoked : BOOLEAN]
                         /\ MaxTime \in Nat

VARIABLES wsAvailable,  \* "unknown", "yes" or "no", for all calls
          upgrades,     \* whether WebSockets get through to the server
          creds,        \* ~/.isol8/credentials.json
          apiKey,       \* the key of the client, or NoRow before there is one
          call,         \* for each call, its generator
          conn,         \* for each request of a call, its connection
          server,       \* for each request of a call, its execution
          now, backend, rows, issued, asked

keyVars == <<now, backend, rows, issued, asked>>
vars == <<wsAvailable, upgrades, creds, apiKey, call, conn, server, keyVars>>

Requests == Calls \X {"ws", "sse", "post"}
Auth == INSTANCE ApiKeys

Idle == [pc |-> "new", via |-> "none", queue |-> <<>>, rest |-> <<>>, done |-> FALSE,
         wsError |-> FALSE, got |-> <<>>]

\* A generator that is gone, and its variables with it.
Ended(pc) == [Idle EXCEPT !.pc = pc]

Init == /\ wsAvailable = "unknown"
        /\ upgrades \in BOOLEAN
        /\ creds = NoRow
        /\ apiKey = NoRow
        /\ call = [c \in Calls |-> Idle]
        /\ conn = [r \in Requests |-> [state |-> "none", frames |-> <<>>, cut |-> FALSE]]
        /\ server = [r \in Requests |-> [pc |-> "idle", sent |-> <<>>]]
        /\ Auth!KeysInit
-----------------------------------------------------------------------------
Issued == {k \in Keys : issued[k] # NoRow}

\* `isol8 login --key key`: the token that it gets is stored with its expiry.
Login(k, ttl) == /\ apiKey = NoRow
                 /\ \E key \in Auth!Tokens : Auth!IssueKey(key, k, ttl)
                 /\ creds' = [token |-> k, expiresAt |-> now + ttl]
                 /\ UNCHANGED <<wsAvailable, upgrades, apiKey, call, conn, server>>

Logout == /\ apiKey = NoRow /\ creds # NoRow
          /\ creds' = NoRow
          /\ UNCHANGED <<wsAvailable, upgrades, apiKey, call, conn, server, keyVars>>

\* resolveApiKey(): a flag or ISOL8_API_KEY, or else the stored token unless
\* it expired.
Stored == IF creds # NoRow /\ creds.expiresAt > now THEN {creds.token} ELSE {}

\* new RemoteIsol8()
Connect == /\ apiKey = NoRow
           /\ apiKey' \in Stored \union IF Issued = {} THEN {Master, Wrong} ELSE Issued
           /\ UNCHANGED <<wsAvailable, upgrades, creds, call, conn, server, keyVars>>

\* The clock, DELETE /auth/keys/:id and the store's cleanup.  They matter to
\* the client while a request is being validated; at other times they commute
\* with every step, and they are left out then.
Administer == /\ apiKey = NoRow \/ \E r \in Requests :
                    asked[r].pc \in {"asking", "selected", "touching"}
              /\ Issued # {}
              /\ Auth!Administers
              /\ UNCHANGED <<wsAvailable, upgrades, creds, apiKey, call, conn, server>>
-----------------------------------------------------------------------------
Ws(c) == <<c, "ws">>
Sse(c) == <<c, "sse">>
Post(c) == <<c, "post">>

\* What a callback woke runs before the next callback.
Quiet == \A c \in Calls : call[c].pc # "woken"

\* The events of a generator that can be called back.
Listening(c) == call[c].via = "ws" /\ call[c].pc \in {"waiting", "yielded"}

\* An HTTP request is sent: the server asks for its key.
Fetch(c, r) == /\ Auth!Ask(r, apiKey)
               /\ conn' = [conn EXCEPT ![r].state = "connecting"]
               /\ UNCHANGED <<upgrades, creds, apiKey, server>>

\* What calls have in common is wsAvailable and the key of the client.  Bound:
\* only light calls overlap, and only the first of them meets another key than
\* the master key or another store than SQLite.
MayStart(c) ==
    /\ call[c].pc = "new" /\ apiKey # NoRow /\ Quiet
    /\ \/ apiKey = Master /\ Issued = {} /\ backend = "sqlite"
       \/ c = CHOOSE d \in Light : TRUE
    /\ \A d \in Calls \ {c} : c \notin Light \/ d \notin Light => call[d].pc = "new"

\* executeStream(): WebSocket unless it is known not to be available.
StreamWs(c) ==
    /\ MayStart(c)
    /\ wsAvailable # "no"
    /\ call' = [call EXCEPT ![c].pc = "waiting", ![c].via = "ws"]
    /\ Fetch(c, Ws(c))
    /\ UNCHANGED wsAvailable

StreamSse(c) ==
    /\ MayStart(c)
    /\ wsAvailable = "no"
    /\ call' = [call EXCEPT ![c].pc = "fetching", ![c].via = "sse"]
    /\ Fetch(c, Sse(c))
    /\ UNCHANGED wsAvailable

\* execute()
ExecutePost(c) ==
    /\ MayStart(c) /\ c \notin Light
    /\ call' = [call EXCEPT ![c].pc = "fetching", ![c].via = "post"]
    /\ Fetch(c, Post(c))
    /\ UNCHANGED wsAvailable
-----------------------------------------------------------------------------
\* The upgrade succeeded: onopen sets the flag and sends the request.
OnOpen(c) ==
    /\ upgrades /\ asked[Ws(c)].pc = "admitted"
    /\ conn[Ws(c)].state = "connecting"
    /\ Listening(c) /\ Quiet
    /\ wsAvailable' = "yes"
    /\ conn' = [conn EXCEPT ![Ws(c)].state = "open"]
    /\ server' = [server EXCEPT ![Ws(c)].pc = "requested"]
    /\ UNCHANGED <<upgrades, creds, apiKey, call, keyVars>>

\* The key is refused, a proxy blocks the upgrade, or the network fails.
ConnectFails(c) ==
    /\ conn[Ws(c)].state = "connecting"
    /\ ~upgrades \/ asked[Ws(c)].pc = "refused"
    /\ conn' = [conn EXCEPT ![Ws(c)].state = "closed",
                            ![Ws(c)].frames = <<"broken", "close">>]
    /\ UNCHANGED <<wsAvailable, upgrades, creds, apiKey, call, server, keyVars>>

Wakes(c) == IF call[c].pc = "waiting" THEN "woken" ELSE call[c].pc

Received(c, next) ==
    /\ Listening(c) /\ Quiet
    /\ conn[Ws(c)].frames # <<>>
    /\ conn' = [conn EXCEPT ![Ws(c)].frames = Tail(@)]
    /\ call' = [call EXCEPT ![c] = next]
    /\ UNCHANGED <<wsAvailable, upgrades, creds, apiKey, server, keyVars>>

OnMessage(c) ==
    /\ Received(c, [call[c] EXCEPT !.queue = Append(@, Head(conn[Ws(c)].frames)),
                                   !.pc = Wakes(c)])
    /\ Head(conn[Ws(c)].frames) \notin {"broken", "close"}

OnError(c) ==
    /\ Received(c, IF call[c].done THEN call[c]
                   ELSE [call[c] EXCEPT !.wsError = TRUE, !.done = TRUE, !.pc = Wakes(c)])
    /\ Head(conn[Ws(c)].frames) = "broken"

\* Mutant: onclose does not wake the generator.
OnCloseQuietly(c) ==
    /\ Received(c, [call[c] EXCEPT !.done = TRUE])
    /\ Head(conn[Ws(c)].frames) = "close"

OnClose(c) ==
    /\ Received(c, [call[c] EXCEPT !.done = TRUE, !.pc = Wakes(c)])
    /\ Head(conn[Ws(c)].frames) = "close"
-----------------------------------------------------------------------------
Yields(c) == [call[c] EXCEPT !.got = Append(@, Head(call[c].queue)),
                             !.queue = Tail(@), !.pc = "yielded"]

\* Mutant: the end is looked at before the queue.
GoesOnHasty(c) ==
    /\ call' = [call EXCEPT ![c] = IF call[c].done THEN [call[c] EXCEPT !.pc = "returned"]
                                   ELSE IF call[c].queue # <<>> THEN Yields(c)
                                   ELSE [call[c] EXCEPT !.pc = "waiting"]]
    /\ UNCHANGED <<wsAvailable, upgrades, creds, apiKey, conn, server, keyVars>>

\* The generator of the WebSocket, to its next yield or await.
GoesOn(c) ==
    /\ call' = [call EXCEPT ![c] = IF call[c].queue # <<>> THEN Yields(c)
                                   ELSE IF call[c].done THEN [call[c] EXCEPT !.pc = "returned"]
                                   ELSE [call[c] EXCEPT !.pc = "waiting"]]
    /\ UNCHANGED <<wsAvailable, upgrades, creds, apiKey, conn, server, keyVars>>

\* waitForEvent() returned and nothing went wrong.
Wake(c) == /\ call[c].pc = "woken" /\ ~call[c].wsError
           /\ GoesOn(c)

\* Mutant: every failure falls back to SSE.
FallsBackAlways(c) ==
    /\ call[c].pc = "woken" /\ call[c].wsError
    /\ wsAvailable' = "no"
    /\ call' = [call EXCEPT ![c] = [Idle EXCEPT !.pc = "fetching", !.via = "sse",
                                                !.got = call[c].got]]
    /\ Fetch(c, Sse(c))

\* The catch block, while nobody has ever been connected: SSE from now on.
FallsBack(c) ==
    /\ call[c].pc = "woken" /\ call[c].wsError
    /\ wsAvailable = "unknown"
    /\ wsAvailable' = "no"
    /\ call' = [call EXCEPT ![c] = [Idle EXCEPT !.pc = "fetching", !.via = "sse",
                                                !.got = call[c].got]]
    /\ Fetch(c, Sse(c))

\* Otherwise the error is thrown, although another call set the flag.
Rethrows(c) ==
    /\ call[c].pc = "woken" /\ call[c].wsError
    /\ wsAvailable # "unknown"
    /\ call' = [call EXCEPT ![c] = Ended("threw")]
    /\ conn' = [conn EXCEPT ![Ws(c)].frames = <<>>]
    /\ UNCHANGED <<wsAvailable, upgrades, creds, apiKey, server, keyVars>>

\* The reader asks for the next event.
Resume(c) == /\ call[c].pc = "yielded" /\ call[c].via = "ws" /\ Quiet
             /\ GoesOn(c)

\* The reader leaves.  The finally block closes the socket, or releases the
\* lock of a body that is neither read nor cancelled.
Leave(c) ==
    /\ call[c].pc = "yielded" /\ Quiet
    /\ call' = [call EXCEPT ![c] = Ended("left")]
    /\ conn' = IF call[c].via # "ws" THEN conn
               ELSE [conn EXCEPT ![Ws(c)] = [@ EXCEPT !.state = "closed", !.frames = <<>>]]
    /\ UNCHANGED <<wsAvailable, upgrades, creds, apiKey, server, keyVars>>
-----------------------------------------------------------------------------
\* fetch() returned a response: of executeStreamSse() with a body to read.
Responds(c) ==
    /\ call[c].pc = "fetching" /\ call[c].via = "sse" /\ Quiet
    /\ server[Sse(c)].pc # "idle" \/ asked[Sse(c)].pc = "refused"
    /\ call' = [call EXCEPT ![c] = IF asked[Sse(c)].pc = "refused" THEN Ended("threw")
                                   ELSE [@ EXCEPT !.pc = "reading"]]
    /\ UNCHANGED <<wsAvailable, upgrades, creds, apiKey, conn, server, keyVars>>

\* An event of SSE is a line in two parts, of which the second ends the line.
Part(e, last) == [event |-> e, last |-> last]

\* The events of the complete lines of a buffer, which always begins with a line.
Lines(parts) == [i \in 1 .. Len(parts) \div 2 |-> parts[2 * i].event]

\* lines.pop(): the line that is not complete yet.
PopLines(parts) == IF parts # <<>> /\ ~Last(parts).last THEN <<Last(parts)>> ELSE <<>>

\* What is there of a body, without the mark of its end.
Body(frames) == IF frames # <<>> /\ Last(frames).event \in {"end", "broken"}
                  THEN Front(frames) ELSE frames
Bytes(c) == Body(conn[Sse(c)].frames)
Events(c, n) == Lines(call[c].rest \o SubSeq(Bytes(c), 1, n))

\* reader.read() gives the next n parts; their complete lines are yielded.
Reads(c, n) ==
    /\ call[c].pc = "reading" /\ call[c].queue = <<>> /\ Quiet
    /\ n \in 1 .. Len(Bytes(c))
    /\ conn' = [conn EXCEPT ![Sse(c)].frames = SubSeq(@, n + 1, Len(@))]
    /\ call' = [call EXCEPT ![c].rest = PopLines(@ \o SubSeq(Bytes(c), 1, n)),
                            ![c].queue = Events(c, n)]
    /\ UNCHANGED <<wsAvailable, upgrades, creds, apiKey, server, keyVars>>

YieldLine(c) ==
    /\ call[c].pc = "reading" /\ call[c].queue # <<>> /\ Quiet
    /\ call' = [call EXCEPT ![c] = Yields(c)]
    /\ UNCHANGED <<wsAvailable, upgrades, creds, apiKey, conn, server, keyVars>>

ReadOn(c) == /\ call[c].pc = "yielded" /\ call[c].via = "sse" /\ Quiet
             /\ call' = [call EXCEPT ![c].pc = "reading"]
             /\ UNCHANGED <<wsAvailable, upgrades, creds, apiKey, conn, server, keyVars>>

\* The body ends, or read() rejects.
BodyEnds(c) ==
    /\ call[c].pc = "reading" /\ call[c].queue = <<>> /\ Quiet
    /\ conn[Sse(c)].frames # <<>> /\ Bytes(c) = <<>>
    /\ call' = [call EXCEPT ![c] =
                  IF Head(conn[Sse(c)].frames).event = "end" /\ call[c].rest = <<>>
                    THEN [@ EXCEPT !.pc = "returned"] ELSE Ended("threw")]
    /\ UNCHANGED <<wsAvailable, upgrades, creds, apiKey, conn, server, keyVars>>

\* execute() returns the result, or throws what the response says.
Answered(c) ==
    /\ call[c].pc = "fetching" /\ call[c].via = "post" /\ Quiet
    /\ \/ asked[Post(c)].pc = "refused"
       \/ conn[Post(c)].frames # <<>>
    /\ LET f == conn[Post(c)].frames
       IN  call' = [call EXCEPT ![c] =
                      IF f # <<>> /\ Head(f) # "error"
                        THEN [@ EXCEPT !.pc = "returned", !.got = <<Head(f)>>]
                        ELSE Ended("threw")]
    /\ UNCHANGED <<wsAvailable, upgrades, creds, apiKey, conn, server, keyVars>>

\* fetch() rejects: the network failed before the response.
FetchThrows(c) ==
    /\ call[c].pc = "fetching" /\ Quiet
    /\ conn[<<c, call[c].via>>].cut
    /\ call[c].via = "post" => conn[Post(c)].frames = <<>>
    /\ call' = [call EXCEPT ![c] = Ended("threw")]
    /\ UNCHANGED <<wsAvailable, upgrades, creds, apiKey, conn, server, keyVars>>
-----------------------------------------------------------------------------
\* Mutant: an error event is printed and forgotten.
FailsOnExit(e) == e = "exit 1"

\* The events that set the exit code of `isol8 run` to 1; none sets it back to 0.
FailsOn(e) == e \in {"exit 1", "error"}

ExitCode(c) == LET got == call[c].got
               IN  IF call[c].pc = "threw" \/ \E n \in DOMAIN got : FailsOn(got[n]) THEN 1 ELSE 0
-----------------------------------------------------------------------------
clientVars == <<wsAvailable, upgrades, creds, apiKey, call>>

\* The request of a fetch() is admitted and its handler is called.
Accept(c, t) ==
    /\ t # "ws" /\ asked[<<c, t>>].pc = "admitted"
    /\ conn[<<c, t>>].state = "connecting"
    /\ conn' = [conn EXCEPT ![<<c, t>>].state = "open"]
    /\ server' = [server EXCEPT ![<<c, t>>].pc = "requested"]
    /\ UNCHANGED <<clientVars, keyVars>>

Validate(r) == /\ Auth!Validates(r)
               /\ UNCHANGED <<clientVars, conn, server>>

\* The handler has an engine and a permit: engine.executeStream().
Begin(r) ==
    /\ server[r].pc = "requested"
    /\ server' = [server EXCEPT ![r].pc = "executing"]
    /\ UNCHANGED <<clientVars, conn, keyVars>>

\* What a handler writes for an event; the result of execute() is one answer.
Written(r, e) == CASE r[2] = "ws" -> <<e>>
                   [] r[2] = "sse" -> <<Part(e, FALSE), Part(e, TRUE)>>
                   [] r[2] = "post" -> IF e = "out" THEN <<>> ELSE <<e>>

Sends(r, e) == conn' = IF conn[r].state = "open"
                         THEN [conn EXCEPT ![r].frames = @ \o Written(r, e)] ELSE conn

\* The engine yields an event.  The last one is its exit, or the error that
\* the catch block reports.
Emit(r, e) ==
    /\ server[r].pc = "executing"
    /\ r[1] \in Light => e = "exit 0"
    /\ e = "out" => Len(server[r].sent) < MaxEvents
    /\ server' = [server EXCEPT ![r] = [pc |-> IF e = "out" THEN "executing" ELSE "stopping",
                                        sent |-> Append(server[r].sent, e)]]
    /\ Sends(r, e)
    /\ UNCHANGED <<clientVars, keyVars>>

\* controller.enqueue() throws, in the loop and again in the catch block, once
\* the body is cancelled.  A WebSocket swallows what is sent.
EnqueueThrows(r) ==
    /\ server[r].pc = "executing"
    /\ r[2] = "sse" /\ conn[r].cut
    /\ server' = [server EXCEPT ![r].pc = "stopping"]
    /\ UNCHANGED <<clientVars, conn, keyVars>>

\* The finally block: an ephemeral engine is stopped, then the socket or the
\* body is closed.
Finish(r) ==
    /\ server[r].pc = "stopping"
    /\ server' = [server EXCEPT ![r].pc = "ended"]
    /\ conn' = IF conn[r].state # "open" \/ r[2] = "post" THEN conn
               ELSE [conn EXCEPT ![r].state = "closed",
                               ![r].frames = Append(@, IF r[2] = "ws" THEN "close"
                                                       ELSE Part("end", TRUE))]
    /\ UNCHANGED <<clientVars, keyVars>>

\* The network cuts a connection.  A request on its way is lost, and so is
\* what the server wrote from some point on; the client may or may not be
\* given an error event before the end.
Cut(r) ==
    /\ conn[r].state \in {"connecting", "open"}
    /\ \E n \in 0 .. Len(conn[r].frames), tail \in {<<"broken", "close">>, <<"close">>} :
          /\ conn[r].state = "connecting" \/ r[2] # "ws" => tail # <<"close">>
          /\ conn' = [conn EXCEPT ![r] =
                        [state |-> "closed", cut |-> TRUE,
                         frames |-> SubSeq(conn[r].frames, 1, n) \o
                                      CASE r[2] = "ws" -> tail
                                        [] r[2] = "sse" -> <<Part("broken", TRUE)>>
                                        [] r[2] = "post" -> <<>>]]
    /\ \/ UNCHANGED server
       \/ /\ server[r].pc = "requested" /\ r[2] = "ws"
          /\ server' = [server EXCEPT ![r].pc = "idle"]
    /\ UNCHANGED <<clientVars, keyVars>>
-----------------------------------------------------------------------------
ClientStep(c) == \/ Wake(c) \/ FallsBack(c) \/ Rethrows(c) \/ Resume(c)
                 \/ OnOpen(c) \/ OnMessage(c) \/ OnError(c) \/ OnClose(c)
                 \/ Responds(c) \/ YieldLine(c) \/ ReadOn(c) \/ BodyEnds(c)
                 \/ Answered(c) \/ FetchThrows(c) \/ ConnectFails(c)
                 \/ \E n \in 1 .. 2 * (MaxEvents + 1) : Reads(c, n)

ServerStep(r) == \/ Validate(r) \/ Begin(r) \/ EnqueueThrows(r) \/ Finish(r)
                 \/ Accept(r[1], r[2])
                 \/ \E e \in {"out", "exit 0", "exit 1", "error"} : Emit(r, e)

CallStep(c) == \/ ClientStep(c)
               \/ \E t \in {"ws", "sse", "post"} : ServerStep(<<c, t>>)

Next == \/ \E k \in Keys, ttl \in 0 .. MaxTime : Login(k, ttl)
        \/ Logout
        \/ Connect
        \/ Administer
        \/ \E c \in Calls : \/ StreamWs(c) \/ StreamSse(c) \/ ExecutePost(c)
                            \/ Leave(c)
                            \/ CallStep(c)
        \/ \E r \in Requests : Cut(r)

Spec == Init /\ [][Next]_vars

\* The event loops and the network go on, the database answers, an execution
\* ends, and a reader that does not leave asks for the next event.
FairSpec == /\ Spec
            /\ \A c \in Calls : WF_vars(CallStep(c))
-----------------------------------------------------------------------------
\* The types of the variables.
TypeOK ==
    /\ wsAvailable \in {"unknown", "yes", "no"}
    /\ apiKey \in Auth!Tokens \union {NoRow}
    /\ \A c \in Calls :
          call[c].pc \in {"new", "waiting", "woken", "yielded", "fetching", "reading",
                          "returned", "threw", "left"}
    /\ \A r \in Requests :
          /\ conn[r].state \in {"none", "connecting", "open", "closed"}
          /\ server[r].pc \in {"idle", "requested", "executing", "stopping", "ended"}
    /\ Auth!KeysTypeOK

\* Whatever happens to its connections, the fallback to SSE included, a call
\* is executed at most once.
AtMostOnce ==
    \A c \in Calls :
        Cardinality({t \in {"ws", "sse", "post"} :
                        server[<<c, t>>].pc \in {"executing", "stopping", "ended"}}) <= 1

\* A connection gave a call everything its execution put out, in order.
Whole(c) == LET r == <<c, call[c].via>>
            IN  /\ server[r].pc \in {"stopping", "ended"}
                /\ call[c].got = IF call[c].via = "post" THEN <<Last(server[r].sent)>>
                                                         ELSE server[r].sent

\* A call that returns without an error gave its reader all the events of a
\* finished execution, unless its connection was cut.
ReturnedIsWhole ==
    \A c \in Calls :
        call[c].pc = "returned" /\ ~conn[<<c, call[c].via>>].cut => Whole(c)

\* No call returns as if it were complete when it is not: the error of a
\* connection that fails is thrown.
FailureIsThrown == \A c \in Calls : call[c].pc = "returned" => Whole(c)

\* `isol8 run` exits with 0 only for an execution that exited with 0, unless
\* its connection was cut.
HonestExitCode ==
    \A c \in Calls :
        LET r == <<c, call[c].via>>
        IN  call[c].pc = "returned" /\ ~conn[r].cut /\ ExitCode(c) = 0
              => Last(server[r].sent) = "exit 0"

\* No request is admitted with a key that was revoked or expired when it came,
\* and none is refused with a key that is good: see ApiKeys.
JudgedFairly == Auth!JudgedFairly

\* Every call ends for its reader: a result, an error or, if it leaves, at once.
EveryCallEnds ==
    \A c \in Calls : call[c].pc # "new" ~> call[c].pc \in {"returned", "threw", "left"}
=============================================================================
