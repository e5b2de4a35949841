# A TLA+ verification of isol8

isol8 runs untrusted code in Docker containers. This directory models the parts of it in which
several executions, processes or callbacks meet: the semaphore, the warm container pool, the
ephemeral and persistent engines, the sessions of the HTTP server and the life of its process, the
remote client and the API keys, the images several commands build and remove, and the callbacks that
race to end one execution. The modules are translated from the TypeScript sources; TLC checks them
on small instances and TLAPS proves the theorems of the `*Proofs` modules for every instance.

    tlc -config MCPoolFast.cfg MCContainerPool      # one run; PROJECT.json lists all of them
    tlapm SemaphoreProofs.tla                       # the proofs of one module

`PROJECT.json` maps every definition to the lines it models, lists the runs with what each shows,
a mutant of the code for every property, the hazards, the findings and the theorems.

## The system and its parts

| Part | State it keeps | Operations | Module |
| --- | --- | --- | --- |
| `Semaphore` (`engine/concurrency.ts`) | `current`, a queue of resolvers | `acquire`, `release` | `Semaphore`, `Permits`, `SemaphoreProofs` |
| `ContainerPool` (`engine/pool.ts`) | per image a clean and a dirty list; jobs under way | `acquire`, `release`, `warm`, `drain`, the cleaning interval, `replenish` | `ContainerPool`, `ContainerPoolProofs` |
| ephemeral engine (`engine/docker.ts`) | the pool, lazily made, and a semaphore | `start`, `execute`, `executeStream`, `stop` | `EphemeralEngine`, `EphemeralEngineProofs` |
| persistent engine (`engine/docker.ts`) | `container`, `persistentRuntime` | `execute`, `executeStream`, `stop` | `SessionServer` |
| HTTP requests (`apps/server/src/index.ts`) | the map `sessions`, the global semaphore | `/execute`, `/execute/stream`, `/execute/ws`, `/file`, `DELETE /session/:id`, the prune interval | `SessionServer`, `ServerLifecycle`, `ServerProofs` |
| server process (`index.ts`, `standalone.ts`) | the cleanup under way, the port, `shuttingDown` | `POST /cleanup`, `shutdown`, signals, retry of the port | `ServerLifecycle`, `ServerProofs` |
| key stores and middleware (`auth.ts`, `db/`) | the table of keys | create, validate, revoke, clean up | `ApiKeys`, `RemoteClientProofs` |
| `RemoteIsol8` client (`client/remote.ts`) | `wsAvailable`, an event queue per call | `execute`, `executeStream` over WebSocket or SSE | `RemoteClient`, `RemoteClientProofs` |
| image resolution and builder (`docker.ts`, `image-builder.ts`) | the image cache; in Docker images, tags, labels | `resolveImage`, the builds, `cleanupImages` | `ImageResolution`, `ImageResolutionProofs` |
| streamed execution (`docker.ts`, `managers/execution-manager.ts`) | an event queue, `done`, a timer | `executeStream`, `runSetupScript`, `streamExecOutput` | `ExecutionStream`, `ExecutionStreamProofs` |
| output of `execute` (`execution-manager.ts`, `utils.ts`) | two buffers, `settled`, two timers | `collectExecOutput`, `truncateOutput` | `OutputCollector`, `OutputCollectorProofs` |
| CLI (`apps/cli`) | `~/.isol8/credentials.json` | `setup`, `build`, `cleanup`; `login`, `logout`, `run` | `ImageResolution`; `RemoteClient` |
| code fetcher | none | fetch under a policy | one action of `EphemeralEngine` |
| volume and network managers, audit, stats, config, runtime adapters | little or none | sequential I/O, tables, formatting | not modelled |

How they interact. A request of the server is admitted by the middleware, looks its session up in a
map shared by all handlers, or gets an engine of its own, takes a permit of the global semaphore and
calls the engine. An ephemeral engine resolves an image, takes a container of its pool and gives it
back without waiting for it; a persistent engine keeps one container, which `stop()` removes. Each
execution starts an exec in a container and listens to a Docker stream and a timer. The cleanup of
the server stops all sessions and then removes whatever containers it finds. Several processes, a
server and runs of the CLI, share one Docker daemon: its images and tags are the only thing they
have in common. The one thing that is persisted by isol8 itself is the table of keys; what survives
a crash otherwise is Docker's.

What makes it hard: JavaScript runs one piece of code at a time, from one `await` to the next, and
between two pieces anything else may run. So every action of the models is such a piece, and what a
function read before an `await` may be stale after it. The lines at which this bites are the
"hazards" of `PROJECT.json`; the properties are aimed at them.

## The modules

### Semaphore, Permits

`Semaphore` has the counter `current`, the FIFO `queue` of resolvers and, for each caller, where it
is. `Acquire`, `Resume` and `Release` follow `await sem.acquire(); try {...} finally {sem.release()}`,
the only way the repository uses the class. A permit that is handed over leaves the counter alone,
so "granted" (promise settled) and "running" differ. `Permits` is the abstract semaphore: a set of
waiters and a set of holders; `ImplementsPermits` is the refinement, with the granted and the
running callers as holders.

### ContainerPool

The state is `pools` (`keys` in the order of insertion, `clean`, `dirty`), the executions, the
callbacks of the cleaning interval (several may overlap, since the interval does not wait for its
callback), one replenishment job per image, the creations of `warm()`, `drain()`, and in Docker the
containers that exist (`live`) and those in which code ran since their last cleanup (`used`).
Each method is cut at its awaits: for example `acquire()` in fast mode is `AcquireFast`,
`CleanedImmediate`, `Recheck` and `Created`. Constants choose the strategy, the security mode, and
which failures happen: `Failures` (creations that are "refused", or containers left "unstarted"),
`ExecFails` (the cleanup command, whose errors the code swallows). `StopAnytime` lets `drain()`
overlap with executions; without it `drain()` comes when the executions are over, as in the server.
The model gives container identities back for reuse once nothing refers to them; a creation waits
while none is free, which is a bound.

### SessionServer

The three execute handlers do the same on sessions and are one set of actions: `Arrive`, `Register`,
`Begin`, `Created`, `Booted`, `Write`, `Exec`, `Throws`, `Finish`. The server's semaphore is the
module `Semaphore`, instantiated (`Gate`), so a request waits for its permit exactly as there.
`Stop`, `StopRemoves`, `StopForgets`, `StopDeletes` are `engine.stop()` followed by
`sessions.delete(id)`, for `DELETE /session/:id` and for the prune interval, which alone looks at
`isActive` and at the age. `OneAtATime` and `NoLateArrival` say how clients behave: one request per
session at a time, none while the session is being stopped. The invariants of a session hold for
such clients and fail without these assumptions, so the properties of a session are checked for
them; what happens otherwise is listed under "The runs".

`/file` changes `lastAccessedAt` and leaves `isActive` alone (`TransferFile`). The semaphore inside
each engine has the same limit as the server's and is never waited for, so it is left out, and so is
the filtered network. Requests without a session are in `ServerLifecycle`.

### ServerLifecycle

Extends `SessionServer` by the process around it: the search for a port, `Bun.serve()` that may find
it taken, the signals, `runCleanup()` with the promise its callers share, and the requests without a
session, whose engine is made and stopped by their handler. The cleanup walks the sessions with the
same `Stop` steps as DELETE, as the stopping task `Cleaner`; then it lists the containers and removes
them one by one, whatever runs in them, which the requests meet as `Throws`. `process.listening`
and `shuttingDown` are separate, as in the code: a signal during a retry of the port starts the
shutdown although nothing listens, and `Serve` may follow. The interval and the ages are left out
here: any stop of the interval could be a DELETE.

### EphemeralEngine

Extends `ContainerPool` by the engine's calls. A call takes a permit (`Semaphore`, instantiated),
is checked, resolves its code and image, acquires a container and goes through the steps of its
kind (`ExecuteSteps`, `StreamSteps`, in the order of the code). Optional steps are skipped
(`After`); any step may throw, except those whose errors the code swallows, and the reader of a
stream may leave at any event. All of these end in the `finally` blocks `Leave` and `Return`. `procs`
says whose processes a container holds, which only the cleaning in strict mode, or the removal, ends.
With `persist` a container is left for inspection (`kept`, at most `MaxKept`). `stop()` comes when no
call is under way, as the server's handlers order it. The run has the strategy "secure"; for "fast"
the same question is `CleanSlate` of `pool_fast`.

### ApiKeys, RemoteClient

`ApiKeys` has the rows, the clock and the validations under way: one step with SQLite, three (two
queries with awaits) with PostgreSQL and MySQL, between which a key may expire, be revoked or
deleted. `issued` is a history of what the holder was told. `RemoteClient` instantiates it for the
requests of one client. A call is the generator of `executeStream()`; the callbacks of its socket
push to its queue and wake it. What is woken runs before the next callback (`Quiet`), as microtasks
do. `wsAvailable` is shared by all calls, which is what makes two first calls interesting. On the
server's side a request is admitted, executed and written to its connection; `Cut` ends any
connection at any time, with or without an error event, and may lose what was on its way. SSE bytes
come in halves of a line, so that a read may end inside one. The command line is there with the
stored credentials and with the exit code it computes from the events.

### ImageResolution

The images of one Docker daemon: `store` gives an id its image (packages, setup script, runtime,
hash), `tag` refers to an id, and Docker may answer a build from its cache, with an id that exists.
A builder is one run of `isol8 setup`, `isol8 build`, `isol8 cleanup --images` or the start of a
server, cut where it awaits Docker: the existence, the labels, the id to be replaced, the build, the
removal. A resolver is a caller of one engine with its `imageCache`; it may have to build the base
image itself. A hash is what the code feeds it, names one behind the other; `Serves` is the
reference it is checked against. `moves` counts how often a tag was set or removed and is what
"since the engine looked" means in `NothingMissing`.

### ExecutionStream

One call of `executeStream()`: a row of execs, the setup scripts and then the code. Callbacks
(`Chunk`, `Ends`, `Inspected`, `InspectThrows`, `Breaks`, `Fires`) push to a queue; the generator
(`Yield`, `Resume`, `Wait`, `Polls`, `StepEnds`) empties it for a reader. The generator of a setup
script is woken by a notification; the one of the code looks again every 10 ms, because its
`resolve` is never set. `prompt` is chosen at the start: a prompt reader asks for the next event at
once, as the server's handlers do; a reader of the library may take its time, and may leave.

### OutputCollector

The promise of `collectExecOutput()` with the callbacks that may settle it: the two outputs, the
Docker stream, the timer of `timeoutMs`, and the timer of 100 ms after the stream ended. Outputs are
counted in ASCII bytes; a buffer is how many bytes of the output it holds and the size its marker
line reports. Whether docker-modem ends the two demultiplexed streams is left open.

## The runs

The passing runs, with their instances:

| Run | Instance | What it shows |
| --- | --- | --- |
| `semaphore` | fair, 4 callers, 2 permits | exclusion, FIFO, refinement of `Permits`, every waiter runs |
| `pool_fast` | 2 executions, 2 images, 1 cleaning callback, 5 containers, sizes 1/1, refused creations | one owner per container, none handed out dirty, held containers exist, none is forgotten; `drain()` misses at most what the callback was cleaning |
| `pool_secure` | 3 executions, secure, size 2, 4 containers, `warm()`, refused creations, `drain()` at any time | scrubbed before use |
| `pool_live` | fair, 2 executions, 2 overlapping callbacks, sizes 2/2, 3 containers, all failures | `acquire()` and `drain()` return; dirty containers are recycled |
| `server_serial` | 3 requests, 2 sessions, 2 runtimes, 2 permits, 2 stopping tasks, failures; clients behave | active while executing, right runtime, executes in a container that exists, no orphan, pruning skips active sessions |
| `lifecycle` | fair, 2 overlapping requests, one of which may come without a session and one whose image has a tag of its own, 1 session, 1 permit, DELETE, POST /cleanup, a signal | no session is left active; requests and callers of the cleanup are answered; a cleanup leaves nothing of an ended request |
| `ephemeral` | 3 calls, 2 permits, secure, sizes 1/1, 4 containers, 1 kept, failures everywhere | no call meets another's processes, the containers are bounded, `stop()` leaves nothing |
| `stream` | fair, 2 setup scripts and the code, 2 chunks each, readers of any pace | nothing dropped, no step left incomplete, the last verdict on a setup script decides, a failed one stops the run for a prompt reader; every stream ends |
| `collect` | fair, 2 outputs, limit 4, marker 2, chunks of 1 and 3, up to 9 bytes | first bytes kept, the promise settles, no timer is left |
| `remote` | fair, 3 calls, 2 of them light, 1 key, clock of 2, both kinds of store | executed at most once, complete when it returns, honest exit code, keys judged fairly, every call ends |
| `images` | 2 builders, 1 resolver, 1 runtime, 2 packages, 2 custom tags, 4 ids | no package is missing, no build skipped that was needed |

Why the bounds suffice: the hazards are meetings of two or three actors (two executions, a callback
and a drain; two requests and a stop), and every list, queue and limit is filled and overflows in
the instances: pool sizes 1 and 2 with more executions than that, more requests than permits, chunk
sizes that meet the limit of 4 exactly, pass it, and pass it again after a marker was appended.
A callback cleans two containers in a row only with sizes of 2 (`pool_live`) and walks to another
image only with two of them (`pool_fast`). Symmetry is used in safety runs only, for sets whose
members no definition tells apart. Deadlock
checking is off where the system may stop: all requests done, the pool drained, the process gone.

Bounds of the larger modules:

- `EphemeralEngine`: three calls on two permits make one wait, and four containers are one more
  than `MaxConcurrent + CleanSize`, so that `BoundedContainers` could fail; a creation waits only
  when all four exist. `MaxKept` is a bound on history, as is `MaxMoves` of `ImageResolution` (a tag
  is set or removed 3 times: made, replaced and removed).
- `ServerLifecycle`: one request may be without a session (`Alone`) and one has an image that the
  sweep does not look for (`Foreign`). The two overlap on one session and one permit; `Fails` is
  off, since a cleanup that removes a container under a request makes every later step throw.
- `RemoteClient`: calls share `wsAvailable` and the key and nothing else. So the calls that overlap
  are `Light` (their execution just exits), one call runs alone with all events, only the first light
  call meets a key other than the master key or the store with two queries, and the administration
  of keys is left out while no validation is under way, when it commutes with every step.
- `ImageResolution`: names are such that different lists make different texts; the hash of two
  names run together (`a`,`bc` and `ab`,`c`) is one in the model as it is in the code, and the
  instance has no such names.

The run `remote_cut` expects a violation: a WebSocket that is closed without an error event ends the
generator like one that was complete, so `executeStream()` returns with output and exit event
missing and `isol8 run` exits with 0. "findings" in `PROJECT.json` quotes the doc it contradicts.

Other things met on the way, each of which one of these modules shows when its property or a
constant is changed:

- the clean list can exceed `cleanPoolSize`, since it is tested before the cleanup and not after;
- `drain()` misses a container that a cleaning callback has in hand (`DrainMissesFew` says no more),
  so that a stopped engine may leave one;
- a cleanup command that fails counts as done (`CleanSlate` with `ExecFails`);
- `isActive` is one flag for several requests (`ActiveWhileExecuting` without `OneAtATime`), two
  first requests of a session make two containers (`NoOrphan` without it), and code may run in a
  container of the other runtime (`RightRuntime` without it);
- the interval deletes a session that became active during `stop()` (`PruneSkipsActive` without
  `NoLateArrival`);
- after the timeout of a setup script a late exit event lets the code run, if the reader of the
  stream is slow (`SetupFailureStops`);
- the marker of a text that is cut twice counts the first marker, and an execution that ended less
  than 100 ms before its limit is reported as timed out (`OutputCollector`);
- a caller that joins a cleanup under way gets its result, with or without images, and a cleanup
  joined by `shutdown()` may have listed the containers already, so that those made since stay;
- containers of custom images with a tag that does not begin with `isol8:` are never swept
  (`Foreign`);
- a build answered from Docker's cache gives the id it is about to replace, and `RemoveOld` then
  removes the image that was just built, unless something else refers to it;
- the image cache is not invalidated: `NothingMissing` without the condition on `moves`;
- streamed executions are not audited, though the configuration page says that every execution is
  (`StreamSteps` has no step `audit`).

## Fairness

Weak fairness is assumed of what the event loop and Docker owe: a settled promise is resumed, a
timer fires, the interval goes on firing, Docker answers a call. An execution ends because its
command is wrapped in `timeout -s KILL` and a timer of its own. Nobody has to make a request, warm,
stop or leave. In `ExecutionStream` and `OutputCollector` the Docker stream need not end or deliver
anything: liveness rests on the timers alone (and on `inspect()` being answered, once the stream
ended and the timer was cleared).

In `ServerLifecycle` weak fairness of one disjunction is enough: the requests, stops and cleanup
steps that can happen are finitely many, so that asking that some of them is taken as long as one is
enabled takes all of them, and it is weaker than fairness of each. In `RemoteClient` each call has
it, with its requests: the event loops, the network and the database go on, and a reader that does
not leave asks for the next event. `Cut` and `Leave` are never owed. No run assumes strong fairness.

## What is proved

`SemaphoreProofs`, for every finite set of callers and every `Max` of at least 1, the assumptions
`MaxAssumption` (the constructor throws otherwise) and `CallersAssumption`. The invariant that is
inductive is `SemInv`: types, `Accounting`, `WorkConserving`. `MutualExclusion` is not inductive: a
step that hands over a permit preserves it only because the counter equals the number of owners and
is at most `Max`. `Accounting` in turn needs that the queue holds each waiting caller once, else a
second grant to the same caller would lose a permit, and `WorkConserving` makes a free permit and a
waiter exclude each other. The lemmas on cardinalities are in front. From `SemInv` follow the
exclusion, the FIFO property as an action property, and the refinement of `Permits`, one case per
action: a stutter for `Resume`, taking or queueing for `Acquire`, returning or handing over for
`Release`.

`OutputCollectorProofs`, for every limit, marker size and set of chunk sizes (`SizesAssumption`):
`FirstBytesKept` together with the shape of the buffers is inductive. The heart is `AddAgrees`: a
text that was cut is longer than the limit by its marker, so whatever is appended, it is cut at the
limit again, and what it keeps is still the beginning of the output. `NoTimerLeft` is inductive by
itself.

`ContainerPoolProofs`, for every set of executions, images, containers and callbacks, every pair of
sizes, both strategies and security modes, with every failure and `drain()` at any time; the
assumptions are `SizeAssumption` and `NoneAssumption`. Its three parts build on each other:

- `PoolInv`, the types and `Placed` (an execution holds a container exactly where `acquire()` and
  `release()` need one). Types alone are not inductive: that a push adds a container, and not
  `None`, needs `Placed`. The lemmas on lists say what `shift()` and `push()` do to a list in which
  nothing occurs twice.
- `ExclusiveOwner`. It is restated container by container: `Single(c)`, c has one place at most, and
  `NoDoubles`, no list has an entry twice. Each action moves one container, or two in the case of
  `TickCleaned`, so the step is proved for the moved one from where it was, and for all others from
  `NoNewPlace`. `New` is a container with no place at all (`Nowhere`). `Linked` (the list a callback
  pushes to is in the map until `drain()` clears it) tells when `TickCleaned` drops its container.
  Each step lemma also gives the `Effect` of the step on places and on Docker: moved, made, leaked,
  destroyed or emptied.
- From these effects follow `HeldIsLive` (placed containers exist, until `drain()` is called) and
  `NothingForgotten` (existing containers are placed, until it has cleared the map). The latter
  assumes that a container which was created also starts (`"unstarted" \notin Failures`), else it is
  false. `CleanSlate` assumes `Strict` and `~ExecFails`, else it is false; its invariant `Untraced`
  says that in fast mode the clean lists have no traces, and that the step from `cleaning` to
  `recheck` belongs to that mode. `DrainMissesFew` assumes `"unstarted" \notin Failures`, finitely many
  callbacks, and that `drain()` comes when no execution uses the pool (`~StopAnytime`). Then nothing
  is created any more but by the jobs it waits for (`Quieting`), so that what is neither listed nor
  removed is in the hands of a callback. The proof maps each such container to its callback.

`EphemeralEngineProofs`, for every set of calls and images, on top of the theorems about the pool and
the semaphore, whose operations are the steps of the engine (`EngineInvariant`: a call has a permit
and a container exactly where its steps need them).

- `NoForeignProcess` assumes, like `CleanSlate`, `Strict` and `~ExecFails`. Its invariant `Accounted`
  says of every process in a container that its call still holds the container, or that this counts
  as used or was kept. A container that is handed out is not used (`Untraced`, from the pool), so the
  processes in it are its holder's.
- `BoundedContainers` and `StopLeavesNothing` assume that a container which was created also starts
  and that `stop()` comes when no call is under way. A container is given back before the permit
  that allowed it, so the containers in the hands of calls are fewer than the permits wherever one
  more is created; what the lists hold is counted image by image. A clean list may have one entry
  more than `CleanSize`, since a creation of `warm()` and a replenishment may both be under way, but
  not that of an image whose call is acquiring. Hence the form of the bound:
  `MaxConcurrent + CleanSize` for one image, `CleanSize + 1` for each further one.

`ServerProofs`, for every set of requests, sessions, runtimes and stopping tasks (`ServerAssumption`,
`GateAssumption`, `LifecycleAssumption`):

- For clients that behave (`OneAtATime`, `NoLateArrival`), the invariants of a session and
  `PruneSkipsActive`. `SessInv` says whom every engine and container was made for, and how far each
  request and each stopping task is with them. None of its parts is inductive alone: that a session
  of a request stays registered needs that no stopping task is at it, which needs that no request
  came in the meantime; that its container exists needs that only its own stopping task removes it.
  The two hypotheses are the constants of the run and say how the clients use the server; without
  them each of these invariants is false (see "The runs").
- For clients of any kind, and with the process around the sessions: `NoStuckActive` (an active
  session has a request under way that will clear the mark) and that no more than `MaxConcurrent`
  requests are past the semaphore, also during a cleanup. Both rest on `Admission`, which relates
  where a request is to its state in the semaphore, and on `Sem!SemInv`, which is used as proved in
  `SemaphoreProofs`.
- `CleanupSweeps`. While a cleanup removes what it listed, a container of a request that had ended
  before is listed still or is one it does not look for (`Sweeps`). It rests on `Keeps`: a request
  that is over stays so, and a container is made only for one that is not, by whatever step.

`RemoteClientProofs`, for every set of calls, keys and clock (`RemoteAssumption`, `KeysAssumption`):

- `JudgedFairly`: the answer to the first query may be old when it is looked at. What it says against
  a key still holds, and what it does not say did not hold when the request came (`Answer`). That
  rests on a key that is bad staying so (`Bad`), and on a row being deleted only then (`Table`).
- `AtMostOnce`: `Ways` says that a call with a second connection has a first one that never reached a
  handler. That this is so after `FallsBack` rests on the flag shared by all calls: a WebSocket that
  opened sets it, and a call whose flag is unknown cannot have opened one.
- `ReturnedIsWhole` and `HonestExitCode`: `FlowInv` says of each connection that was not cut that what
  the engine put out is what the reader got, then what the generator has queued, then what is on its
  way (`Carries`, and `Holds` for a body). It is stated phase by phase (asked for, open, closing,
  over), because what may be on its way differs. Of the body of an SSE stream, which is read in
  any pieces, the lemma `ReadSplits` says that the complete lines of a piece are the next events, and
  what is left is no more than the beginning of the next one. After a fallback the new connection
  starts from nothing: the failed WebSocket had given its reader nothing (`NoSent`). The exit code
  follows, since the last event of what was put out decides it.
- `RemoteType`: types, for which it is needed that no call begins before the client has a key.

`ExecutionStreamProofs`, for every number of setup scripts and chunks and readers of any pace:
`StreamInv` relates what was pushed, what is queued and what the reader was given, exec by exec. A
verdict is the exit event of a script, by its end or by its timeout, and the last one given decides
because the queue is empty when the step ends. For `PromptReaderIsSafe` that is not enough: its
invariant `Prompt` says that with a prompt reader the exit event of a script is the last event
pushed, since the generator has left the step before another callback runs.

`ImageResolutionProofs`, for every set of builders, resolvers, runtimes, packages and tags
(`ImagesAssumption`): `ImagesInv` says that a tag refers to an image built under its name (`TagsRefer`),
and that what a resolver saw of a tag (`Asked`), or its cache remembers (`Cached`), is true of the
image unless the tag moved since. `ImagesNothingMissing` assumes that the tags of custom images are not those of
base images (`BaseTagsReserved`; the CLI does not refuse such a tag). `ImagesSkippedIsAsAsked` assumes
besides that custom builds with one hash ask for one image (`HashesDiffer`), which is false for names
that run together. The instance that TLC checks satisfies both.

The hypotheses `~ExecFails`, `"unstarted" \notin Failures`, `~StopAnytime`, `OneAtATime`, `NoLateArrival`,
`BaseTagsReserved` and `HashesDiffer` are not assumptions of the modules: the models behave as the
code does without them too, and then the properties are false, as "The runs" tells.

## What is only model-checked

All liveness properties (`EveryWaiterRuns`, `EveryAcquireReturns`, `DirtyIsRecycled`, `DrainReturns`,
`EveryStreamEnds`, `AlwaysSettles`, `EveryCallEnds`, `EveryCallerAnswered`, `EveryRequestIsAnswered`):
they rest on fairness and so on `ENABLED`, which the prover does not handle.

Of the safety properties none but the finding's: every invariant and every action property of a passing
run is stated by a theorem.

No module declares a RECURSIVE operator. Induction over data is beyond the provers too, so the lines of
an SSE body are a function of their index, not a `SelectSeq`. The one that is left, `SortedNames`,
makes the hash of an image; the theorems take what they need of hashes as the hypothesis
`HashesDiffer`.

## Not modelled

- `VolumeManager`: byte-level transfer, one call after the other. The models take a write as done
  when it returns, which is generous for large files, whose chunks are appended by detached execs.
- `NetworkManager`, the proxy and the firewall rules: shell scripts inside the container.
- Audit and statistics: append-only, read by nobody. A step of `EphemeralEngine` stands for them.
- Configuration, types, logger, runtime adapters: merging of defaults, declarations and tables of
  commands. A runtime is a name in the models.
- Of the code fetcher the policy, redirects, size limit and hash: a sequential function of its input.
- Of the CLI the parsing of options, prompts, printing, and `serve`, which starts another process.
- Of `RemoteIsol8` the file transfers, health and deletion of a session, and of the key stores the
  listing, tenants and schemas: single requests that change nothing another part decides on.
- `installPackages` and `buildEnv`: a command line each; their failure is a step that throws.
