-------------------------- MODULE ImageResolution --------------------------
(***************************************************************************)
(* Which image a request runs in, and who builds it: resolveImage() and    *)
(* cleanupImages() of packages/core/src/engine/docker.ts,                  *)
(* packages/core/src/engine/image-builder.ts, `isol8 setup` and            *)
(* `isol8 build` of the CLI and the prebuilt images of the server.         *)
(*                                                                         *)
(* All of them share the images of one Docker daemon, look at them, await  *)
(* and act on what they saw.  A builder is one run of a command that       *)
(* builds or removes images; a resolver is a caller of one engine, which   *)
(* keeps an image cache for as long as it lives.  An action is what is     *)
(* done with one answer of Docker.                                         *)
(*                                                                         *)
(* Docker gives an image an id, lets tags refer to it, may answer a build  *)
(* from its cache with an image it has, and does not remove by its id an   *)
(* image that two tags or another image refer to, or a container uses.     *)
(***************************************************************************)
EXTENDS Integers, Sequences, FiniteSets, SequencesExt

CONSTANTS Builders,     \* the processes that build or remove images
          Resolvers,    \* the requests of one engine
          Runtimes,     \* the registered runtimes
          Alphabet,     \* the package names in lexicographic order
          Requests,     \* the package lists of requests
          CustomTags,   \* the tags of custom images
          OwnTags,      \* those of them that begin with isol8:
          Prebuilt,     \* config.prebuiltImages
          Options,      \* what isol8 build may be asked for
          Versions,     \* the hashes of the docker directory, one per release
          Ids,          \* the ids of images, a bound on those that exist
          MaxMoves,     \* a bound on how often a tag is set
          None

VARIABLES override, \* options.image of the engine, or None
          store,   \* for each id, the image, or None
          tag,     \* for each tag, the id it refers to, or None
          moves,   \* for each tag, how often it was set or removed
          builder, \* for each process, the builds ahead of it
          ask,     \* for each resolver, its request and what it found
          cache    \* the engine's imageCache

images == <<store, tag, moves>>
vars == <<override, images, builder, ask, cache>>

Tags == Runtimes \union CustomTags   \* isol8:<runtime> is written <runtime>
Processes == Builders \union Resolvers

IdleBuilder == [pc |-> "idle", todo |-> <<>>, old |-> None, doomed |-> {}]
IdleAsk == [pc |-> "idle", runtime |-> None, wants |-> <<>>, image |-> None,
            rest |-> <<>>, script |-> None, saw |-> 0]

Init == /\ override \in CustomTags \union {None}
        /\ store = [id \in Ids |-> None]
        /\ tag = [t \in Tags |-> None]
        /\ moves = [t \in Tags |-> 0]
        /\ builder = [p \in Processes |-> IdleBuilder]
        /\ ask = [p \in Resolvers |-> IdleAsk]
        /\ cache = [r \in Runtimes |-> [w \in Requests |-> None]]
-----------------------------------------------------------------------------
\* Docker.

Exists(t) == tag[t] # None
Image(t) == store[tag[t]]
Script(t) == IF Exists(t) THEN Image(t).setup ELSE None

FreeId == CHOOSE id \in Ids : store[id] = None
                                /\ \A p \in Processes : builder[p].old # id

SetTag(t, id) == /\ tag' = [tag EXCEPT ![t] = id]
                 /\ moves' = [moves EXCEPT ![t] = @ + 1]

\* A build ends: a new image is there, or one the cache had, and has the tag.
Builds(t, image) ==
    /\ moves[t] < MaxMoves
    /\ \/ \E id \in Ids : /\ store[id] = image
                          /\ SetTag(t, id) /\ UNCHANGED store
       \/ /\ \E id \in Ids : store[id] = None /\ \A p \in Processes : builder[p].old # id
          /\ store' = [store EXCEPT ![FreeId] = image]
          /\ SetTag(t, FreeId)

Referring(id) == {t \in Tags : tag[t] = id}
HasChildren(id) == \E i \in Ids : store[i] # None /\ store[i].from = id

Drops(id) == /\ store' = [store EXCEPT ![id] = None]
             /\ tag' = [t \in Tags |-> IF tag[t] = id THEN None ELSE tag[t]]
             /\ moves' = [t \in Tags |-> moves[t] + IF tag[t] = id THEN 1 ELSE 0]

\* remove() by the id; a container may use the image.
Removes(id) ==
    \/ /\ Cardinality(Referring(id)) <= 1 /\ ~HasChildren(id)
       /\ Drops(id)
    \/ UNCHANGED images
-----------------------------------------------------------------------------
\* computeDepsHash(): the runtime, the sorted names and the script, one behind
\* the other.  Two lists whose names make the same text have the same hash.
SortedNames(packages) == SelectSeq(Alphabet, LAMBDA p : p \in packages)
\* Mutant: the script is not part of the hash.
HashPackagesOnly(runtime, packages, setup) == <<runtime>> \o FlattenSeq(SortedNames(packages))
DepsHash(runtime, packages, setup) ==
    <<runtime>> \o FlattenSeq(SortedNames(packages))
                \o (IF setup = None THEN <<>> ELSE <<"setup:", setup>>)

\* A build that is asked for.  `once`: an image under that tag is enough.
BaseJob(runtime, version, force) ==
    [base |-> TRUE, tag |-> runtime, runtime |-> runtime, packages |-> {}, setup |-> None,
     hash |-> <<version>>, once |-> FALSE, force |-> force]
CustomJob(t, runtime, packages, setup, force, once) ==
    [base |-> FALSE, tag |-> t, runtime |-> runtime, packages |-> packages, setup |-> setup,
     hash |-> DepsHash(runtime, packages, setup), once |-> once /\ ~force, force |-> force]

\* The image a job makes, labels included.
ImageOf(j, from) == [from |-> from, runtime |-> IF j.base THEN None ELSE j.runtime,
                     packages |-> j.packages, setup |-> j.setup, hash |-> j.hash]
Made(j) == ImageOf(j, IF j.base THEN j.runtime ELSE tag[j.runtime])

\* The builds that may be asked for.
Customs == Options \union ToSet(Prebuilt)
BaseJobs == {BaseJob(r, v, f) : r \in Runtimes, v \in Versions, f \in BOOLEAN}
CustomJobs == {CustomJob(o.tag, o.runtime, o.packages, o.setup, f, n) :
                 o \in Customs, f \in BOOLEAN, n \in BOOLEAN}
Jobs == BaseJobs \union CustomJobs

ASSUME ImagesAssumption ==
    /\ IsFiniteSet(Runtimes) /\ OwnTags \subseteq CustomTags
    /\ Builders \intersect Resolvers = {}
    /\ Prebuilt \in Seq(ToSet(Prebuilt))
    /\ \A o \in Customs : o.tag \in CustomTags /\ o.runtime \in Runtimes
    /\ None \notin Ids
    /\ \A j \in Jobs, from \in Ids \union Runtimes : ImageOf(j, from) # None

\* Where a process begins its next job.
Begins(todo) ==
    [IdleBuilder EXCEPT
       !.todo = todo,
       !.pc = IF todo = <<>> THEN "built"
              ELSE IF Head(todo).once THEN "exists"
              ELSE IF Head(todo).force THEN "old" ELSE "labels"]

Job(p) == Head(builder[p].todo)
At(p, pc) == builder[p].pc = pc
Goes(p, b) == builder' = [builder EXCEPT ![p] = b]
NextJob(p) == Goes(p, Begins(Tail(builder[p].todo)))

\* imageExists() before a prebuilt image: whatever has the tag will do.
CheckExists(p) ==
    /\ At(p, "exists")
    /\ \/ Exists(Job(p).tag) /\ NextJob(p)
       \/ ~Exists(Job(p).tag) /\ Goes(p, [builder[p] EXCEPT !.pc = "labels"])
    /\ UNCHANGED <<override, images, ask, cache>>

UpToDate(j) == Exists(j.tag) /\ Image(j.tag).hash = j.hash

\* getImageLabels(): an image with the hash is not built again.
CheckLabels(p) ==
    /\ At(p, "labels")
    /\ \/ UpToDate(Job(p)) /\ NextJob(p)
       \/ ~UpToDate(Job(p)) /\ Goes(p, [builder[p] EXCEPT !.pc = "old"])
    /\ UNCHANGED <<override, images, ask, cache>>

\* The id of the image that the build replaces.
FindOld(p) ==
    /\ At(p, "old")
    /\ Goes(p, [builder[p] EXCEPT !.pc = "build", !.old = tag[Job(p).tag]])
    /\ UNCHANGED <<override, images, ask, cache>>

\* The build is done.  A custom image is built from the base image of now.
Built(p) ==
    /\ At(p, "build")
    /\ Job(p).base \/ Exists(Job(p).runtime)
    /\ Builds(Job(p).tag, Made(Job(p)))
    /\ IF builder[p].old = None THEN NextJob(p)
       ELSE Goes(p, [builder[p] EXCEPT !.pc = "remove"])
    /\ UNCHANGED <<override, ask, cache>>

\* The build fails, the runtime has no install command, or a name is refused.
BuildThrows(p) ==
    /\ At(p, "build")
    /\ Goes(p, [IdleBuilder EXCEPT !.pc = "threw"])
    /\ UNCHANGED <<override, images, ask, cache>>

\* The image that was replaced goes, if Docker lets it go.
RemoveOld(p) ==
    /\ At(p, "remove")
    /\ Removes(builder[p].old)
    /\ NextJob(p)
    /\ UNCHANGED <<override, ask, cache>>
-----------------------------------------------------------------------------
AllRuntimes == SetToSeq(Runtimes)
Bases(runtimes, version, force) ==
    [n \in DOMAIN runtimes |-> BaseJob(runtimes[n], version, force)]
PrebuiltJobs(force) ==
    [n \in DOMAIN Prebuilt |-> CustomJob(Prebuilt[n].tag, Prebuilt[n].runtime,
                                   Prebuilt[n].packages, Prebuilt[n].setup, force, TRUE)]

\* isol8 setup: the base images, then those of the configuration.
Setup(p, version, force) ==
    /\ At(p, "idle")
    /\ Goes(p, Begins(Bases(AllRuntimes, version, force) \o PrebuiltJobs(force)))
    /\ UNCHANGED <<override, images, ask, cache>>

\* The server starts: the images of the configuration that are missing.
Serve(p) ==
    /\ At(p, "idle")
    /\ Goes(p, Begins(PrebuiltJobs(FALSE)))
    /\ UNCHANGED <<override, images, ask, cache>>

\* isol8 build: the base image of the runtime, then the custom image.
BuildCommand(p, o, version, force) ==
    /\ At(p, "idle")
    /\ o.packages # {} \/ o.setup # None
    /\ Goes(p, Begins(<<BaseJob(o.runtime, version, force),
                        CustomJob(o.tag, o.runtime, o.packages, o.setup, force, FALSE)>>))
    /\ UNCHANGED <<override, images, ask, cache>>

\* isol8 cleanup --images shows what it found and asks before it goes on; there
\* may be nothing to remove.  The server does not ask.
CleanupCommand(p) ==
    /\ At(p, "idle")
    /\ \E pc \in {"asked", "built"} : Goes(p, [IdleBuilder EXCEPT !.pc = pc])
    /\ UNCHANGED <<override, images, ask, cache>>

\* cleanupImages(): the images of isol8: are listed, each is removed by force.
ListImages(p) ==
    /\ At(p, "idle") \/ At(p, "asked")
    /\ Goes(p, [IdleBuilder EXCEPT !.pc = "cleaning", !.doomed = {tag[t] : t \in Runtimes \union OwnTags} \ {None}])
    /\ UNCHANGED <<override, images, ask, cache>>

RemoveImage(p) ==
    /\ At(p, "cleaning")
    /\ \/ \E id \in builder[p].doomed :
             /\ Goes(p, [builder[p] EXCEPT !.doomed = @ \ {id}])
             /\ \/ ~HasChildren(id) /\ Drops(id)
                \/ UNCHANGED images
       \/ /\ builder[p].doomed = {} /\ UNCHANGED images
          /\ Goes(p, [builder[p] EXCEPT !.pc = "built"])
    /\ UNCHANGED <<override, ask, cache>>
-----------------------------------------------------------------------------
Asks(p, a) == ask' = [ask EXCEPT ![p] = a]
Finds(p, t, rest, pc) ==
    Asks(p, [ask[p] EXCEPT !.image = t, !.rest = rest, !.pc = pc, !.saw = moves[t]])

\* resolveImage() is called: the engine may have an image of its own or have
\* found one before, and no packages need no search.
Resolve(p, runtime, wants) ==
    LET a == [IdleAsk EXCEPT !.runtime = runtime, !.wants = wants]
        cached == cache[runtime][wants]
    IN  /\ ask[p].pc = "idle"
        /\ \/ /\ override # None
              /\ Asks(p, [a EXCEPT !.image = override, !.rest = wants, !.pc = "label",
                                   !.saw = moves[override]])
           \/ /\ override = None /\ cached # None
              /\ Asks(p, [a EXCEPT !.image = cached.image, !.saw = cached.saw, !.pc = "label"])
           \/ /\ override = None /\ cached = None
              /\ Asks(p, [a EXCEPT !.pc = IF wants = <<>> THEN "base" ELSE "listing",
                                   !.image = runtime])
        /\ UNCHANGED <<override, images, builder, cache>>

\* The custom images of the runtime, under their first tag, that have all the
\* packages asked for, and those that have no other.
Matches(a) ==
    {t \in Tags : /\ Exists(t)
                  /\ Image(t).runtime = a.runtime
                  /\ Image(t).packages # {}
                  /\ ToSet(a.wants) \subseteq Image(t).packages}
Exact(a) == {t \in Matches(a) : Image(t).packages = ToSet(a.wants)}

\* The images are listed, in an order Docker chooses: the first exact match is
\* taken, or the last that has more, or the base image.
Listed(p) ==
    /\ ask[p].pc = "listing"
    /\ \/ \E t \in IF Exact(ask[p]) # {} THEN Exact(ask[p]) ELSE Matches(ask[p]) :
             Asks(p, [ask[p] EXCEPT !.image = t, !.rest = <<>>, !.saw = moves[t],
                        !.script = Script(t),
                        !.pc = IF Script(t) = None THEN "label" ELSE "found"])
       \/ /\ Matches(ask[p]) = {}
          /\ Finds(p, ask[p].runtime, ask[p].wants, "base")
    /\ UNCHANGED <<override, images, builder, cache>>

\* The image is inspected for its setup script; that it fails is ignored.
Labelled(p) ==
    /\ ask[p].pc = "label"
    /\ Asks(p, [ask[p] EXCEPT !.script = Script(ask[p].image), !.pc = "found"])
    /\ UNCHANGED <<override, images, builder, cache>>

\* The base image is there, or it is built.
BaseChecked(p, version) ==
    /\ ask[p].pc = "base"
    /\ \/ /\ Exists(ask[p].runtime)
          /\ Finds(p, ask[p].runtime, ask[p].wants, "found")
          /\ UNCHANGED builder
       \/ /\ ~Exists(ask[p].runtime)
          /\ Asks(p, [ask[p] EXCEPT !.pc = "building"])
          /\ Goes(p, Begins(<<BaseJob(ask[p].runtime, version, FALSE)>>))
    /\ UNCHANGED <<override, images, cache>>

\* buildBaseImages() returned, or threw.
BaseBuilt(p) ==
    /\ ask[p].pc = "building"
    /\ \/ At(p, "built") /\ Finds(p, ask[p].runtime, ask[p].wants, "found")
       \/ At(p, "threw") /\ Asks(p, IdleAsk)
    /\ Goes(p, IdleBuilder)
    /\ UNCHANGED <<override, images, cache>>

Remembers(p) == cache' = [cache EXCEPT ![ask[p].runtime][ask[p].wants] =
                            [image |-> ask[p].image, saw |-> ask[p].saw]]

\* Mutant: the image is remembered whatever is still to be installed.
FoundRemembers(p) ==
    /\ ask[p].pc = "found"
    /\ Asks(p, [ask[p] EXCEPT !.pc = "done"])
    /\ Remembers(p)
    /\ UNCHANGED <<override, images, builder>>

\* An image that needs nothing installed is remembered.
Found(p) ==
    /\ ask[p].pc = "found"
    /\ Asks(p, [ask[p] EXCEPT !.pc = "done"])
    /\ IF ask[p].rest = <<>> /\ override = None THEN Remembers(p) ELSE UNCHANGED cache
    /\ UNCHANGED <<override, images, builder>>

\* The request installs what remains and runs in the image; another follows.
Returned(p) == /\ ask[p].pc = "done"
               /\ Asks(p, IdleAsk)
               /\ UNCHANGED <<override, images, builder, cache>>
-----------------------------------------------------------------------------
JobStep(p) == \/ CheckExists(p) \/ CheckLabels(p) \/ FindOld(p)
              \/ Built(p) \/ BuildThrows(p) \/ RemoveOld(p)

Commands(p) ==
    \/ \E v \in Versions, f \in BOOLEAN : Setup(p, v, f)
    \/ \E o \in Options, v \in Versions, f \in BOOLEAN : BuildCommand(p, o, v, f)
    \/ Serve(p) \/ CleanupCommand(p) \/ ListImages(p) \/ RemoveImage(p)

Requesting(p) ==
    \/ \E r \in Runtimes, w \in Requests : Resolve(p, r, w)
    \/ \E v \in Versions : BaseChecked(p, v)
    \/ Listed(p) \/ Labelled(p) \/ BaseBuilt(p) \/ Found(p) \/ Returned(p)

Next == \/ \E p \in Processes : JobStep(p)
        \/ \E p \in Builders : Commands(p)
        \/ \E p \in Resolvers : Requesting(p)

Spec == Init /\ [][Next]_vars
-----------------------------------------------------------------------------
\* Nothing a request asked for is missing: unless somebody set or removed the
\* tag after the engine looked, every package is in the image or is left to be
\* installed, and the setup script is the image's, however the image was found:
\* by the search, in the cache or by its name.
NothingMissing ==
    \A p \in Resolvers :
       LET a == ask[p]
       IN  a.pc = "done" /\ moves[a.image] = a.saw /\ Exists(a.image)
             => /\ ToSet(a.wants) \subseteq Image(a.image).packages \union ToSet(a.rest)
                /\ a.script = Image(a.image).setup

\* A build is skipped as up to date only if the tag has what was asked for:
\* this runtime, these packages and this script, or for a base image this
\* release of the docker directory.
Serves(j) == /\ Exists(j.tag)
             /\ Image(j.tag).packages = j.packages
             /\ Image(j.tag).setup = j.setup
             /\ IF j.base THEN Image(j.tag).hash = j.hash
                ELSE Image(j.tag).runtime = j.runtime
SkipsAsCurrent(p) == At(p, "labels") /\ builder'[p].todo # builder[p].todo
SkippedIsAsAsked == [][\A p \in Processes : SkipsAsCurrent(p) => Serves(Job(p))]_vars
=============================================================================
