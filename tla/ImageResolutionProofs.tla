----------------------- MODULE ImageResolutionProofs -----------------------
(***************************************************************************)
(* The resolution and the building of images, for any sets of runtimes,    *)
(* packages, configurations, processes and requests, and for any number of *)
(* images: what an engine found stays right until somebody sets or removes *)
(* the tag, and an image whose hash is that of a build has what the build  *)
(* asks for.                                                               *)
(***************************************************************************)
EXTENDS ImageResolution, FiniteSetTheorems, TLAPS

\* Nobody gives a custom image the tag of a base image.  `isol8 build --tag` does
\* not refuse it, and then a request without packages would not learn the script.
BaseTagsReserved == CustomTags \intersect Runtimes = {}

\* Two custom builds have the same hash only if they ask for the same, that is,
\* no two lists of names make the same text.
HashesDiffer ==
    \A j, k \in CustomJobs : j.hash = k.hash =>
        j.runtime = k.runtime /\ j.packages = k.packages /\ j.setup = k.setup

Stored == {ImageOf(j, from) : j \in Jobs, from \in Ids \union Runtimes}
Scripts == {None} \union {j.setup : j \in Jobs}
JobPcs == {"exists", "labels", "old", "build", "remove"}
BuilderPcs == JobPcs \union {"idle", "built", "threw", "asked", "cleaning"}
AskPcs == {"idle", "listing", "base", "building", "label", "found", "done"}

BuilderType == [pc : BuilderPcs, todo : Seq(Jobs), old : Ids \union {None},
                doomed : SUBSET Ids]
AskType == [pc : AskPcs, runtime : Runtimes \union {None}, wants : Requests \union {<<>>},
            image : Tags \union {None}, rest : Requests \union {<<>>},
            script : Scripts, saw : Nat]

Memos == [image : Tags \union {None}, saw : Nat]

ImageTypes == /\ store \in [Ids -> Stored \union {None}]
              /\ tag \in [Tags -> Ids \union {None}]
              /\ moves \in [Tags -> Nat]
BuilderTypes == /\ builder \in [Processes -> BuilderType]
                /\ \A p \in Processes : builder[p].pc \in JobPcs => builder[p].todo # <<>>
AskTypes == /\ override \in CustomTags \union {None}
            /\ ask \in [Resolvers -> AskType]
            /\ cache \in [Runtimes -> [Requests -> {None} \union Memos]]

\* A tag refers to an image that is there: a base image under the name of a runtime,
\* a custom one under any other.
BaseLike(i) == i.packages = {} /\ i.setup = None
CustomLike(i) == \E j \in CustomJobs : /\ i.hash = j.hash /\ i.runtime = j.runtime
                                       /\ i.packages = j.packages /\ i.setup = j.setup
Proper(t, i) == IF t \in Runtimes THEN BaseLike(i) ELSE CustomLike(i)
TagsRefer == \A t \in Tags : Exists(t) => Image(t) \in Stored /\ Proper(t, Image(t))

\* A resolver's builds are those of a request that waits for its base image.
OwnBuilds == \A p \in Resolvers : ask[p].pc # "building" => builder[p].pc = "idle"

\* What was seen of a tag: a past state of it, and if it is the present one, the
\* image has the packages w apart from those in rest.
Sees(t, saw, w, rest) ==
    /\ t \in Tags /\ saw \in Nat /\ saw <= moves[t]
    /\ saw = moves[t] /\ Exists(t) => ToSet(w) \subseteq Image(t).packages \union ToSet(rest)
Asking(a) ==
    /\ a.pc # "idle" => a.runtime \in Runtimes /\ a.wants \in Requests
    /\ a.pc \in {"listing", "base", "building", "label"} => a.script = None
    /\ a.pc \in {"label", "found", "done"} => Sees(a.image, a.saw, a.wants, a.rest)
    /\ a.pc \in {"found", "done"} /\ a.saw = moves[a.image] /\ Exists(a.image)
         => a.script = Image(a.image).setup
Asked == \A p \in Resolvers : Asking(ask[p])
Cached == \A r \in Runtimes, w \in Requests :
            cache[r][w] # None => Sees(cache[r][w].image, cache[r][w].saw, w, <<>>)

ImagesInv == /\ ImageTypes /\ BuilderTypes /\ AskTypes
             /\ TagsRefer /\ OwnBuilds /\ Asked /\ Cached
-----------------------------------------------------------------------------
\* The builds that may be asked for, and the images they make.
LEMMA JobFacts ==
    ASSUME NEW j \in Jobs
    PROVE  /\ j.base \in BOOLEAN /\ j.tag \in Tags /\ j.runtime \in Runtimes /\ j.setup \in Scripts
           /\ j.base => j.tag = j.runtime /\ j.packages = {} /\ j.setup = None
           /\ ~j.base => j.tag \in CustomTags /\ j \in CustomJobs
<1>1. CASE j \in BaseJobs
  <2>1. PICK r \in Runtimes, v \in Versions, f \in BOOLEAN : j = BaseJob(r, v, f)
    BY <1>1 DEF BaseJobs
  <2> QED
    BY <2>1 DEF BaseJob, Tags, Scripts
<1>2. CASE j \in CustomJobs
  <2>1. PICK o \in Customs, f \in BOOLEAN, n \in BOOLEAN :
               j = CustomJob(o.tag, o.runtime, o.packages, o.setup, f, n)
    BY <1>2 DEF CustomJobs
  <2>2. o.tag \in CustomTags /\ o.runtime \in Runtimes
    BY ImagesAssumption
  <2>3. ~j.base /\ j.tag = o.tag /\ j.runtime = o.runtime /\ j.base \in BOOLEAN
    BY <2>1 DEF CustomJob
  <2> QED
    BY <1>2, <2>2, <2>3 DEF Tags, Scripts
<1> QED
  BY <1>1, <1>2 DEF Jobs

LEMMA AnImage ==
    ASSUME NEW j \in Jobs, NEW from \in Ids \union Runtimes, BaseTagsReserved
    PROVE  /\ ImageOf(j, from) \in Stored /\ ImageOf(j, from) # None
           /\ Proper(j.tag, ImageOf(j, from))
<1>1. ImageOf(j, from) \in Stored /\ ImageOf(j, from) # None
  BY ImagesAssumption DEF Stored
<1> DEFINE i == ImageOf(j, from)
<1>2. /\ i.packages = j.packages /\ i.setup = j.setup /\ i.hash = j.hash
      /\ i.runtime = IF j.base THEN None ELSE j.runtime
  BY DEF ImageOf
<1> HIDE DEF i
<1>3. CASE j.base
  BY <1>1, <1>2, <1>3, JobFacts DEF Proper, BaseLike, i
<1>4. CASE ~j.base
  <2>1. j.tag \notin Runtimes /\ j \in CustomJobs
    BY <1>4, JobFacts DEF BaseTagsReserved
  <2>2. CustomLike(i)
    BY <1>2, <1>4, <2>1 DEF CustomLike
  <2> QED
    BY <1>1, <2>1, <2>2 DEF Proper, i
<1> QED
  BY <1>3, <1>4

\* Where a process begins with a list of builds.
LEMMA Begun ==
    ASSUME NEW todo \in Seq(Jobs)
    PROVE  Begins(todo) \in BuilderType /\ (Begins(todo).pc \in JobPcs => Begins(todo).todo # <<>>)
<1> DEFINE pc == IF todo = <<>> THEN "built"
                 ELSE IF Head(todo).once THEN "exists"
                 ELSE IF Head(todo).force THEN "old" ELSE "labels"
<1>1. pc \in {"built", "exists", "old", "labels"} /\ (todo = <<>> => pc = "built")
  OBVIOUS
<1>2. Begins(todo) = [IdleBuilder EXCEPT !.todo = todo, !.pc = pc]
  BY DEF Begins
<1> HIDE DEF pc
<1>3. Begins(todo) = [pc |-> pc, todo |-> todo, old |-> None, doomed |-> {}]
  BY <1>2 DEF IdleBuilder
<1>4. Begins(todo).pc = pc /\ Begins(todo).todo = todo
  BY <1>3
<1>5. Begins(todo) \in BuilderType
  BY <1>1, <1>3 DEF BuilderType, BuilderPcs, JobPcs
<1> QED
  BY <1>1, <1>4, <1>5 DEF JobPcs

LEMMA IdleTyped == IdleBuilder \in BuilderType
<1>1. <<>> \in Seq(Jobs) /\ "idle" \in BuilderPcs
  BY DEF BuilderPcs
<1> QED
  BY <1>1 DEF IdleBuilder, BuilderType

LEMMA IdleIsTyped ==
    ASSUME NEW pc \in BuilderPcs \ JobPcs, NEW doomed \in SUBSET Ids
    PROVE  /\ [IdleBuilder EXCEPT !.pc = pc] \in BuilderType
           /\ [IdleBuilder EXCEPT !.pc = pc, !.doomed = doomed] \in BuilderType
<1>1. <<>> \in Seq(Jobs) /\ "idle" \in BuilderPcs
  BY DEF BuilderPcs
<1> QED
  BY <1>1 DEF IdleBuilder, BuilderType

\* The lists of builds the commands begin with.
LEMMA RuntimeRow == AllRuntimes \in Seq(Runtimes)
<1>1. PICK f : ExistsBijection(1..Cardinality(Runtimes), Runtimes) /\ Cardinality(Runtimes) \in Nat
                 /\ f \in Bijection(1..Cardinality(Runtimes), Runtimes)
  BY ImagesAssumption, FS_CardinalityType DEF ExistsBijection
<1>2. \E g \in [1..Cardinality(Runtimes) -> Runtimes] : IsInjective(g)
  BY <1>1 DEF Bijection, Injection, Surjection, IsInjective
<1>3. AllRuntimes \in [1..Cardinality(Runtimes) -> Runtimes]
  BY <1>2 DEF AllRuntimes, SetToSeq
<1> QED
  BY <1>1, <1>3

LEMMA BaseRow ==
    ASSUME NEW s \in Seq(Runtimes), NEW v \in Versions, NEW f \in BOOLEAN
    PROVE  Bases(s, v, f) \in Seq(Jobs)
<1>1. \A n \in DOMAIN s : BaseJob(s[n], v, f) \in Jobs
  BY DEF Jobs, BaseJobs
<1> QED
  BY <1>1 DEF Bases

LEMMA PrebuiltRow ==
    ASSUME NEW f \in BOOLEAN PROVE PrebuiltJobs(f) \in Seq(Jobs)
<1>1. \A n \in DOMAIN Prebuilt : Prebuilt[n] \in Customs
  BY DEF Customs, ToSet
<1>2. ASSUME NEW o \in Customs
      PROVE  CustomJob(o.tag, o.runtime, o.packages, o.setup, f, TRUE) \in CustomJobs
  <2>1. \A n \in BOOLEAN : CustomJob(o.tag, o.runtime, o.packages, o.setup, f, n) \in CustomJobs
    BY DEF CustomJobs
  <2>2. TRUE \in BOOLEAN
    OBVIOUS
  <2> QED
    BY <2>1, <2>2, Zenon
<1> DEFINE job(n) == CustomJob(Prebuilt[n].tag, Prebuilt[n].runtime, Prebuilt[n].packages,
                               Prebuilt[n].setup, f, TRUE)
<1>3. \A n \in DOMAIN Prebuilt : job(n) \in Jobs
  BY <1>1, <1>2 DEF Jobs
<1>4. PrebuiltJobs(f) = [n \in DOMAIN Prebuilt |-> job(n)]
  BY DEF PrebuiltJobs
<1>5. DOMAIN Prebuilt = 1..Len(Prebuilt) /\ Len(Prebuilt) \in Nat
  BY ImagesAssumption
<1> HIDE DEF job
<1> QED
  BY <1>3, <1>4, <1>5
-----------------------------------------------------------------------------
\* The images.  A tag that was not set or removed refers to the image it referred to.
Kept(t) == /\ moves'[t] \in Nat /\ moves[t] <= moves'[t]
           /\ moves'[t] = moves[t]
                => tag'[t] = tag[t] /\ (Exists(t) => store'[tag[t]] = store[tag[t]])
ImagesGoOn == ImageTypes' /\ TagsRefer' /\ \A t \in Tags : Kept(t)

LEMMA TagFacts ==
    ASSUME ImageTypes, TagsRefer, NEW t \in Tags, Exists(t)
    PROVE  tag[t] \in Ids /\ Image(t) \in Stored /\ Image(t) # None /\ Image(t).setup \in Scripts
<1>1. tag[t] \in Ids /\ Image(t) \in Stored
  BY DEF ImageTypes, TagsRefer, Exists
<1>2. PICK j \in Jobs, from \in Ids \union Runtimes : Image(t) = ImageOf(j, from)
  BY <1>1 DEF Stored
<1>3. Image(t) # None /\ Image(t).setup = j.setup
  BY <1>2, ImagesAssumption DEF ImageOf
<1> QED
  BY <1>1, <1>3, JobFacts

LEMMA SameImages ==
    ASSUME ImageTypes, TagsRefer, UNCHANGED images PROVE ImagesGoOn
BY DEF images, ImagesGoOn, Kept, ImageTypes, TagsRefer, Image, Exists, Proper, BaseLike, CustomLike

LEMMA BuildsGoesOn ==
    ASSUME ImageTypes, TagsRefer, BaseTagsReserved,
           NEW j \in Jobs, NEW from \in Ids \union Runtimes, Builds(j.tag, ImageOf(j, from))
    PROVE  ImagesGoOn
<1> DEFINE image == ImageOf(j, from)
           u == j.tag
<1>1. image \in Stored /\ image # None /\ Proper(u, image) /\ u \in Tags
  BY AnImage, JobFacts
<1> HIDE DEF image, u
<1>2. PICK id \in Ids :
         /\ tag' = [tag EXCEPT ![u] = id] /\ moves' = [moves EXCEPT ![u] = @ + 1]
         /\ \/ store[id] = image /\ store' = store
            \/ store[id] = None /\ store' = [store EXCEPT ![id] = image]
  <2>1. Builds(u, image)
    BY DEF u, image
  <2>2. CASE \E id \in Ids : store[id] = image /\ SetTag(u, id) /\ UNCHANGED store
    BY <2>2 DEF SetTag
  <2>3. CASE /\ \E id \in Ids : store[id] = None /\ \A p \in Processes : builder[p].old # id
             /\ store' = [store EXCEPT ![FreeId] = image]
             /\ SetTag(u, FreeId)
    <3>1. FreeId \in Ids /\ store[FreeId] = None
      BY <2>3 DEF FreeId
    <3> QED
      BY <2>3, <3>1 DEF SetTag
  <2> QED
    BY <2>1, <2>2, <2>3 DEF Builds
<1>3. store'[id] = image /\ \A i \in Ids : store[i] # None => store'[i] = store[i]
  BY <1>1, <1>2 DEF ImageTypes
<1>4. tag'[u] = id /\ moves'[u] = moves[u] + 1 /\ moves[u] \in Nat
  BY <1>1, <1>2 DEF ImageTypes
<1>5. \A t \in Tags : t # u => tag'[t] = tag[t] /\ moves'[t] = moves[t] /\ moves[t] \in Nat
  BY <1>1, <1>2 DEF ImageTypes
<1>6. ImageTypes'
  <2>1. store' \in [Ids -> Stored \union {None}]
    BY <1>1, <1>2 DEF ImageTypes
  <2>2. tag' \in [Tags -> Ids \union {None}]
    BY <1>1, <1>2 DEF ImageTypes
  <2>3. moves' \in [Tags -> Nat]
    BY <1>1, <1>2 DEF ImageTypes
  <2> QED
    BY <2>1, <2>2, <2>3 DEF ImageTypes
<1>7. ASSUME NEW t \in Tags PROVE Kept(t)
  <2>1. CASE t = u
    BY <1>4, <2>1 DEF Kept
  <2>2. CASE t # u
    BY <1>3, <1>5, <2>2, TagFacts DEF Kept, Image
  <2> QED
    BY <2>1, <2>2
<1>8. ASSUME NEW t \in Tags, Exists(t)' PROVE Image(t)' \in Stored /\ Proper(t, Image(t)')
  <2>1. CASE t = u
    BY <1>1, <1>3, <1>4, <2>1 DEF Image
  <2>2. CASE t # u
    <3>1. Exists(t) /\ Image(t)' = Image(t)
      BY <1>3, <1>5, <1>8, <2>2, TagFacts DEF Image, Exists
    <3> QED
      BY <3>1 DEF TagsRefer
  <2> QED
    BY <2>1, <2>2
<1>9. TagsRefer'
  BY <1>8 DEF TagsRefer, Proper, BaseLike, CustomLike
<1> QED
  BY <1>6, <1>7, <1>9 DEF ImagesGoOn

LEMMA DropsGoesOn ==
    ASSUME ImageTypes, TagsRefer, NEW id, Drops(id) PROVE ImagesGoOn
<1>1. \A i \in Ids : store'[i] = IF i = id THEN None ELSE store[i]
  BY DEF Drops, ImageTypes
<1>2. \A t \in Tags : /\ moves[t] \in Nat
                      /\ tag'[t] = IF tag[t] = id THEN None ELSE tag[t]
                      /\ moves'[t] = IF tag[t] = id THEN moves[t] + 1 ELSE moves[t]
  <2> SUFFICES ASSUME NEW t \in Tags
               PROVE  /\ moves[t] \in Nat
                      /\ tag'[t] = IF tag[t] = id THEN None ELSE tag[t]
                      /\ moves'[t] = IF tag[t] = id THEN moves[t] + 1 ELSE moves[t]
    OBVIOUS
  <2>1. moves[t] \in Nat /\ moves'[t] = moves[t] + IF tag[t] = id THEN 1 ELSE 0
    BY DEF Drops, ImageTypes
  <2>2. tag'[t] = IF tag[t] = id THEN None ELSE tag[t]
    BY DEF Drops
  <2> QED
    BY <2>1, <2>2
<1>3. ImageTypes'
  <2>1. store' \in [Ids -> Stored \union {None}]
    BY DEF Drops, ImageTypes
  <2>2. tag' \in [Tags -> Ids \union {None}]
    BY DEF Drops, ImageTypes
  <2>3. DOMAIN moves' = Tags /\ moves' = [t \in Tags |-> moves'[t]]
    BY DEF Drops
  <2>4. \A t \in Tags : moves'[t] \in Nat
    BY <1>2
  <2> QED
    BY <2>1, <2>2, <2>3, <2>4 DEF ImageTypes
<1>4. ASSUME NEW t \in Tags PROVE Kept(t)
  <2>1. CASE tag[t] = id
    BY <1>2, <2>1 DEF Kept
  <2>2. CASE tag[t] # id
    BY <1>1, <1>2, <2>2, TagFacts DEF Kept
  <2> QED
    BY <2>1, <2>2
<1>5. ASSUME NEW t \in Tags, Exists(t)' PROVE Image(t)' \in Stored /\ Proper(t, Image(t)')
  <2>1. tag[t] # id /\ tag'[t] = tag[t] /\ Exists(t)
    BY <1>2, <1>5 DEF Exists
  <2>2. Image(t)' = Image(t)
    BY <1>1, <2>1, TagFacts DEF Image
  <2> QED
    BY <2>1, <2>2 DEF TagsRefer
<1>6. TagsRefer'
  BY <1>5 DEF TagsRefer, Proper, BaseLike, CustomLike
<1> QED
  BY <1>3, <1>4, <1>6 DEF ImagesGoOn
-----------------------------------------------------------------------------
\* The builders.
LEMMA GoesTyped ==
    ASSUME BuilderTypes, NEW p \in Processes, NEW b \in BuilderType,
           b.pc \in JobPcs => b.todo # <<>>, Goes(p, b)
    PROVE  /\ BuilderTypes' /\ builder'[p] = b
           /\ \A q \in Processes : q # p => builder'[q] = builder[q]
<1>1. builder'[p] = b /\ \A q \in Processes : q # p => builder'[q] = builder[q]
  BY DEF BuilderTypes, Goes
<1>2. builder' \in [Processes -> BuilderType]
  BY DEF BuilderTypes, Goes
<1>3. \A q \in Processes : builder'[q].pc \in JobPcs => builder'[q].todo # <<>>
  BY <1>1 DEF BuilderTypes
<1> QED
  BY <1>1, <1>2, <1>3 DEF BuilderTypes

\* What one process does to the builders.
Turns(p) == /\ BuilderTypes'
            /\ \A q \in Processes : q # p => builder'[q] = builder[q]

LEMMA NextJobTyped ==
    ASSUME BuilderTypes, NEW p \in Processes, builder[p].pc \in JobPcs, NextJob(p)
    PROVE  Turns(p)
<1>1. builder[p].todo \in Seq(Jobs) /\ builder[p].todo # <<>>
  BY DEF BuilderTypes, BuilderType
<1>2. Tail(builder[p].todo) \in Seq(Jobs)
  BY <1>1
<1>3. PICK todo \in Seq(Jobs) : Goes(p, Begins(todo))
  BY <1>2 DEF NextJob
<1>4. Begins(todo) \in BuilderType /\ (Begins(todo).pc \in JobPcs => Begins(todo).todo # <<>>)
  BY Begun
<1> QED
  BY <1>3, <1>4, GoesTyped DEF Turns

\* A step of a build that is under way.
LEMMA JobGoesOn ==
    ASSUME ImageTypes, TagsRefer, BuilderTypes, BaseTagsReserved,
           NEW p \in Processes, JobStep(p)
    PROVE  /\ ImagesGoOn /\ Turns(p) /\ builder[p].pc \in JobPcs
           /\ UNCHANGED <<override, ask, cache>>
<1> DEFINE b == builder[p]
<1>1. UNCHANGED <<override, ask, cache>> /\ b.pc \in JobPcs
  BY DEF JobStep, CheckExists, CheckLabels, FindOld, Built, BuildThrows, RemoveOld, At, JobPcs
<1>2. /\ b \in BuilderType /\ b.todo \in Seq(Jobs) /\ b.todo # <<>> /\ Job(p) \in Jobs
      /\ b.old \in Ids \union {None}
  BY <1>1 DEF BuilderTypes, BuilderType, Job
<1>3. ASSUME NEW pc \in BuilderPcs, NEW old \in Ids \union {None},
             Goes(p, [b EXCEPT !.pc = pc, !.old = old])
      PROVE  Turns(p)
  <2>1. [b EXCEPT !.pc = pc, !.old = old] \in BuilderType
    BY <1>2 DEF BuilderType
  <2>2. [b EXCEPT !.pc = pc, !.old = old].todo = b.todo
    BY <1>2 DEF BuilderType
  <2> QED
    BY <1>2, <1>3, <2>1, <2>2, GoesTyped DEF Turns
<1>4. ASSUME NEW pc \in BuilderPcs, Goes(p, [b EXCEPT !.pc = pc]) PROVE Turns(p)
  <2>1. [b EXCEPT !.pc = pc] = [b EXCEPT !.pc = pc, !.old = b.old]
    BY <1>2 DEF BuilderType
  <2> QED
    BY <1>2, <1>3, <1>4, <2>1
<1>5. CASE CheckExists(p)
  BY <1>1, <1>4, <1>5, SameImages, NextJobTyped DEF CheckExists, BuilderPcs, JobPcs
<1>6. CASE CheckLabels(p)
  BY <1>1, <1>4, <1>6, SameImages, NextJobTyped DEF CheckLabels, BuilderPcs, JobPcs
<1>7. CASE FindOld(p)
  <2>1. tag[Job(p).tag] \in Ids \union {None}
    BY <1>2, JobFacts DEF ImageTypes
  <2> QED
    BY <1>1, <1>3, <1>7, <2>1, SameImages DEF FindOld, BuilderPcs, JobPcs
<1>8. CASE Built(p)
  <2>1. PICK from \in Ids \union Runtimes : Made(Job(p)) = ImageOf(Job(p), from)
    <3>1. Job(p).runtime \in Runtimes /\ Job(p).runtime \in Tags
      BY <1>2, JobFacts DEF Tags
    <3>2. Job(p).base \/ tag[Job(p).runtime] \in Ids
      BY <1>8, <3>1 DEF Built, Exists, ImageTypes
    <3> QED
      BY <3>1, <3>2 DEF Made
  <2>2. ImagesGoOn
    BY <1>2, <1>8, <2>1, BuildsGoesOn DEF Built
  <2>3. Turns(p)
    BY <1>1, <1>4, <1>8, NextJobTyped DEF Built, BuilderPcs, JobPcs
  <2> QED
    BY <1>1, <2>2, <2>3
<1>9. CASE BuildThrows(p)
  <2>1. PICK pc \in BuilderPcs \ JobPcs : Goes(p, [IdleBuilder EXCEPT !.pc = pc])
    BY <1>9 DEF BuildThrows, BuilderPcs, JobPcs
  <2>2. [IdleBuilder EXCEPT !.pc = pc] \in BuilderType /\ [IdleBuilder EXCEPT !.pc = pc].pc = pc
    BY IdleIsTyped DEF IdleBuilder
  <2>3. Turns(p)
    BY <2>1, <2>2, GoesTyped DEF Turns
  <2> QED
    BY <1>1, <1>9, <2>3, SameImages DEF BuildThrows
<1>10. CASE RemoveOld(p)
  <2>1. ImagesGoOn
    BY <1>10, SameImages, DropsGoesOn DEF RemoveOld, Removes
  <2> QED
    BY <1>1, <1>10, <2>1, NextJobTyped DEF RemoveOld
<1> QED
  BY <1>5, <1>6, <1>7, <1>8, <1>9, <1>10 DEF JobStep

\* A command begins, or goes on with what it removes.
LEMMA CommandGoesOn ==
    ASSUME ImageTypes, TagsRefer, BuilderTypes, NEW p \in Builders, Commands(p)
    PROVE  /\ ImagesGoOn /\ Turns(p) /\ UNCHANGED <<override, ask, cache>>
           /\ builder[p].pc \notin JobPcs
<1>0. p \in Processes /\ builder[p] \in BuilderType
  BY DEF Processes, BuilderTypes
<1>1. UNCHANGED <<override, ask, cache>> /\ builder[p].pc \notin JobPcs
  BY DEF Commands, Setup, BuildCommand, Serve, CleanupCommand, ListImages, RemoveImage, At, JobPcs
<1>2. ASSUME NEW todo \in Seq(Jobs), Goes(p, Begins(todo)) PROVE Turns(p)
  <2>1. Begins(todo) \in BuilderType /\ (Begins(todo).pc \in JobPcs => Begins(todo).todo # <<>>)
    BY Begun
  <2> QED
    BY <1>0, <1>2, <2>1, GoesTyped DEF Turns
<1>3. ASSUME NEW b \in BuilderType, b.pc \notin JobPcs, Goes(p, b) PROVE Turns(p)
  BY <1>0, <1>3, GoesTyped DEF Turns
<1>4. ASSUME NEW v \in Versions, NEW f \in BOOLEAN, Setup(p, v, f) PROVE ImagesGoOn /\ Turns(p)
  <2>1. Bases(AllRuntimes, v, f) \in Seq(Jobs) /\ PrebuiltJobs(f) \in Seq(Jobs)
    BY RuntimeRow, BaseRow, PrebuiltRow
  <2>2. Bases(AllRuntimes, v, f) \o PrebuiltJobs(f) \in Seq(Jobs)
    BY <2>1
  <2> QED
    BY <1>2, <1>4, <2>2, SameImages DEF Setup
<1>5. ASSUME NEW o \in Options, NEW v \in Versions, NEW f \in BOOLEAN, BuildCommand(p, o, v, f)
      PROVE  ImagesGoOn /\ Turns(p)
  <2> DEFINE base == BaseJob(o.runtime, v, f)
             custom == CustomJob(o.tag, o.runtime, o.packages, o.setup, f, FALSE)
  <2>1. o \in Customs /\ o.runtime \in Runtimes
    BY ImagesAssumption DEF Customs
  <2>2. base \in BaseJobs
    BY <2>1 DEF BaseJobs
  <2>3. \A n \in BOOLEAN : CustomJob(o.tag, o.runtime, o.packages, o.setup, f, n) \in CustomJobs
    BY <2>1 DEF CustomJobs
  <2>4. FALSE \in BOOLEAN
    OBVIOUS
  <2>5. custom \in CustomJobs
    BY <2>3, <2>4, Zenon
  <2> HIDE DEF base, custom
  <2>6. <<base, custom>> \in Seq(Jobs)
    BY <2>2, <2>5 DEF Jobs
  <2> QED
    BY <1>2, <1>5, <2>6, SameImages DEF BuildCommand, base, custom
<1>6. CASE Serve(p)
  <2>1. PrebuiltJobs(FALSE) \in Seq(Jobs)
    BY PrebuiltRow, Zenon
  <2> QED
    BY <1>1, <1>2, <1>6, <2>1, SameImages DEF Serve
<1>7. CASE CleanupCommand(p)
  <2>1. PICK pc \in {"asked", "built"} : Goes(p, [IdleBuilder EXCEPT !.pc = pc])
    BY <1>7 DEF CleanupCommand
  <2>2. [IdleBuilder EXCEPT !.pc = pc] \in BuilderType /\ [IdleBuilder EXCEPT !.pc = pc].pc = pc
    BY IdleIsTyped DEF IdleBuilder, BuilderPcs, JobPcs
  <2> QED
    BY <1>1, <1>3, <1>7, <2>1, <2>2, SameImages DEF CleanupCommand, JobPcs
<1>8. CASE ListImages(p)
  <2> DEFINE doomed == {tag[t] : t \in Runtimes \union OwnTags} \ {None}
             b == [IdleBuilder EXCEPT !.pc = "cleaning", !.doomed = doomed]
  <2>1. doomed \in SUBSET Ids
    BY ImagesAssumption DEF ImageTypes, Tags
  <2> HIDE DEF doomed
  <2>2. b \in BuilderType /\ b.pc = "cleaning"
    BY <2>1, IdleIsTyped DEF IdleBuilder, BuilderPcs, JobPcs
  <2> QED
    BY <1>1, <1>3, <1>8, <2>2, SameImages DEF ListImages, JobPcs, doomed
<1>9. CASE RemoveImage(p)
  <2>1. ImagesGoOn
    BY <1>9, SameImages, DropsGoesOn DEF RemoveImage
  <2>2. PICK b \in BuilderType : b.pc \notin JobPcs /\ Goes(p, b)
    <3>1. ASSUME NEW id, Goes(p, [builder[p] EXCEPT !.doomed = @ \ {id}])
          PROVE  \E b \in BuilderType : b.pc \notin JobPcs /\ Goes(p, b)
      <4>1. /\ [builder[p] EXCEPT !.doomed = @ \ {id}] \in BuilderType
            /\ [builder[p] EXCEPT !.doomed = @ \ {id}].pc = builder[p].pc
        BY <1>0 DEF BuilderType
      <4> QED
        BY <1>1, <3>1, <4>1
    <3>2. ASSUME Goes(p, [builder[p] EXCEPT !.pc = "built"])
          PROVE  \E b \in BuilderType : b.pc \notin JobPcs /\ Goes(p, b)
      <4>1. /\ [builder[p] EXCEPT !.pc = "built"] \in BuilderType
            /\ [builder[p] EXCEPT !.pc = "built"].pc = "built"
        BY <1>0 DEF BuilderType, BuilderPcs
      <4> QED
        BY <3>2, <4>1 DEF JobPcs
    <3> QED
      BY <1>9, <3>1, <3>2 DEF RemoveImage
  <2> QED
    BY <1>1, <1>3, <2>1, <2>2
<1> QED
  BY <1>1, <1>4, <1>5, <1>6, <1>7, <1>8, <1>9 DEF Commands
-----------------------------------------------------------------------------
\* The requests.  What was seen of a tag stays true of it, whoever builds or removes
\* images.
LEMMA SeesGoesOn ==
    ASSUME ImageTypes, TagsRefer, \A u \in Tags : Kept(u),
           NEW t, NEW saw, NEW w, NEW rest, Sees(t, saw, w, rest)
    PROVE  /\ Sees(t, saw, w, rest)'
           /\ saw = moves'[t] /\ Exists(t)' => saw = moves[t] /\ Exists(t) /\ Image(t)' = Image(t)
<1>1. t \in Tags /\ saw \in Nat /\ saw <= moves[t] /\ moves[t] \in Nat
      /\ moves'[t] \in Nat /\ moves[t] <= moves'[t]
  BY DEF Sees, ImageTypes, Kept
<1>2. ASSUME saw = moves'[t], Exists(t)'
      PROVE  saw = moves[t] /\ Exists(t) /\ Image(t)' = Image(t)
  <2>1. moves'[t] = moves[t] /\ saw = moves[t]
    BY <1>1, <1>2
  <2>2. tag'[t] = tag[t] /\ (Exists(t) => store'[tag[t]] = store[tag[t]])
    BY <1>1, <2>1 DEF Kept
  <2> QED
    BY <1>2, <2>1, <2>2 DEF Exists, Image
<1> QED
  BY <1>1, <1>2 DEF Sees

LEMMA AskingGoesOn ==
    ASSUME ImageTypes, TagsRefer, \A u \in Tags : Kept(u), NEW a \in AskType, Asking(a)
    PROVE  Asking(a)'
<1>1. CASE a.pc \in {"label", "found", "done"}
  BY <1>1, SeesGoesOn DEF Asking
<1>2. CASE a.pc \notin {"label", "found", "done"}
  BY <1>2 DEF Asking
<1> QED
  BY <1>1, <1>2

LEMMA CachedGoesOn ==
    ASSUME ImageTypes, TagsRefer, \A u \in Tags : Kept(u), Cached, UNCHANGED cache
    PROVE  Cached'
BY SeesGoesOn DEF Cached

\* A resolver goes on with b.
LEMMA AsksTyped ==
    ASSUME AskTypes, Asked, ImageTypes, TagsRefer, UNCHANGED images,
           NEW p \in Resolvers, NEW b \in AskType, Asking(b), Asks(p, b)
    PROVE  /\ ask' \in [Resolvers -> AskType] /\ Asked' /\ ask'[p] = b
           /\ \A q \in Resolvers : q # p => ask'[q] = ask[q]
<1>1. /\ ask' \in [Resolvers -> AskType] /\ ask'[p] = b
      /\ \A q \in Resolvers : q # p => ask'[q] = ask[q]
  BY DEF Asks, AskTypes
<1>2. \A u \in Tags : Kept(u)
  BY SameImages DEF ImagesGoOn
<1>3. ASSUME NEW a \in AskType, Asking(a) PROVE Asking(a)'
  BY <1>2, <1>3, AskingGoesOn
<1>4. \A a \in AskType : Asking(a) => Asking(a)'
  BY <1>3
<1>5. ASSUME NEW q \in Resolvers PROVE Asking(ask[q])'
  <2>1. PICK a \in AskType : a = ask'[q] /\ Asking(a)
    BY <1>1 DEF AskTypes, Asked
  <2>2. Asking(a)'
    BY <1>4, <2>1
  <2> QED
    BY <2>1, <2>2 DEF Asking, Sees
<1> QED
  BY <1>1, <1>5 DEF Asked

\* A base image has no script.
LEMMA BaseIsPlain ==
    ASSUME TagsRefer, NEW r \in Runtimes, Exists(r) PROVE Image(r).setup = None
BY DEF TagsRefer, Tags, Proper, BaseLike

\* What a request knows after a step of its own, and what becomes of its builds.
Knows(b) == b \in AskType /\ Asking(b)
Turned(p, b) ==
    \/ UNCHANGED builder /\ b.pc # "building" /\ ask[p].pc # "building"
    \/ /\ b.pc = "building" /\ ask[p].runtime \in Runtimes
       /\ \E v \in Versions : Goes(p, Begins(<<BaseJob(ask[p].runtime, v, FALSE)>>))
    \/ Goes(p, IdleBuilder)

LEMMA RequestKnows ==
    ASSUME ImageTypes, AskTypes, TagsRefer, Asked, Cached, NEW p \in Resolvers, Requesting(p)
    PROVE  /\ UNCHANGED <<override, images>>
           /\ \E b : Knows(b) /\ Asks(p, b) /\ Turned(p, b)
           /\ UNCHANGED cache \/ (Remembers(p) /\ ask[p].pc = "found" /\ ask[p].rest = <<>>)
<1> DEFINE a == ask[p]
<1>0. /\ a \in AskType /\ Asking(a)
      /\ a.pc \in AskPcs /\ a.image \in Tags \union {None} /\ a.runtime \in Runtimes \union {None}
      /\ a.wants \in Requests \union {<<>>} /\ a.rest \in Requests \union {<<>>}
      /\ a.script \in Scripts /\ a.saw \in Nat
  BY DEF AskTypes, AskType, Asked
<1>a. a = [pc |-> a.pc, runtime |-> a.runtime, wants |-> a.wants, image |-> a.image,
           rest |-> a.rest, script |-> a.script, saw |-> a.saw]
  BY DEF AskTypes, AskType
<1>1. /\ UNCHANGED <<override, images>>
      /\ UNCHANGED cache \/ (Remembers(p) /\ a.pc = "found" /\ a.rest = <<>>)
  BY DEF Requesting, Resolve, BaseChecked, Listed, Labelled, BaseBuilt, Found, Returned
<1> SUFFICES \E b : Knows(b) /\ Asks(p, b) /\ Turned(p, b)
  BY <1>1
<1>2. ASSUME NEW b, Knows(b), Asks(p, b), UNCHANGED builder, b.pc # "building",
             a.pc # "building"
      PROVE  \E c : Knows(c) /\ Asks(p, c) /\ Turned(p, c)
  BY <1>2 DEF Turned
<1>3. ASSUME NEW r \in Runtimes, NEW w \in Requests, Resolve(p, r, w)
      PROVE  \E c : Knows(c) /\ Asks(p, c) /\ Turned(p, c)
  <2> DEFINE b(t, saw, rest, pc) == [pc |-> pc, runtime |-> r, wants |-> w, image |-> t,
                                     rest |-> rest, script |-> None, saw |-> saw]
  <2>1. CASE override # None /\ Asks(p, b(override, moves[override], w, "label"))
    <3>1. override \in Tags /\ moves[override] \in Nat
      BY <2>1 DEF AskTypes, Tags, ImageTypes
    <3>2. Sees(override, moves[override], w, w)
      BY <3>1 DEF Sees
    <3>3. Knows(b(override, moves[override], w, "label"))
      BY <3>1, <3>2 DEF Knows, AskType, AskPcs, Scripts, Asking
    <3> QED
      BY <1>2, <1>3, <2>1, <3>3 DEF Resolve
  <2>2. CASE cache[r][w] # None /\ Asks(p, b(cache[r][w].image, cache[r][w].saw, <<>>, "label"))
    <3>1. Sees(cache[r][w].image, cache[r][w].saw, w, <<>>)
      BY <2>2 DEF Cached
    <3>2. Knows(b(cache[r][w].image, cache[r][w].saw, <<>>, "label"))
      BY <3>1 DEF Knows, AskType, AskPcs, Scripts, Asking, Sees
    <3> QED
      BY <1>2, <1>3, <2>2, <3>2 DEF Resolve
  <2>3. ASSUME NEW pc \in {"base", "listing"}, Asks(p, b(r, 0, <<>>, pc))
        PROVE  \E c : Knows(c) /\ Asks(p, c) /\ Turned(p, c)
    <3>1. Knows(b(r, 0, <<>>, pc))
      BY DEF Knows, AskType, AskPcs, Scripts, Asking, Tags
    <3> QED
      BY <1>2, <1>3, <2>3, <3>1 DEF Resolve
  <2>4. \/ override # None /\ Asks(p, b(override, moves[override], w, "label"))
        \/ cache[r][w] # None /\ Asks(p, b(cache[r][w].image, cache[r][w].saw, <<>>, "label"))
        \/ \E pc \in {"base", "listing"} : Asks(p, b(r, 0, <<>>, pc))
    <3> DEFINE i == [IdleAsk EXCEPT !.runtime = r, !.wants = w]
    <3>1. ASSUME NEW c, c = i
          PROVE  c = [pc |-> "idle", runtime |-> r, wants |-> w, image |-> None, rest |-> <<>>,
                      script |-> None, saw |-> 0]
      BY <3>1 DEF IdleAsk
    <3>2. i = [pc |-> "idle", runtime |-> r, wants |-> w, image |-> None, rest |-> <<>>,
               script |-> None, saw |-> 0]
      BY <3>1, Zenon
    <3> HIDE DEF i
    <3>3. ASSUME NEW c, NEW t, NEW pc, c = [i EXCEPT !.pc = pc, !.image = t]
          PROVE  c = b(t, 0, <<>>, pc)
      BY <3>2, <3>3
    <3>4. \/ /\ override # None
             /\ Asks(p, [i EXCEPT !.image = override, !.rest = w, !.pc = "label",
                                  !.saw = moves[override]])
          \/ /\ cache[r][w] # None
             /\ Asks(p, [i EXCEPT !.image = cache[r][w].image, !.saw = cache[r][w].saw,
                                  !.pc = "label"])
          \/ \E pc \in {"base", "listing"} : Asks(p, [i EXCEPT !.pc = pc, !.image = r])
      BY <1>3 DEF Resolve, i
    <3>5. ASSUME Asks(p, [i EXCEPT !.image = override, !.rest = w, !.pc = "label",
                                   !.saw = moves[override]])
          PROVE  Asks(p, b(override, moves[override], w, "label"))
      <4>1. ASSUME NEW c, c = [i EXCEPT !.image = override, !.rest = w, !.pc = "label",
                                         !.saw = moves[override]]
            PROVE  c = b(override, moves[override], w, "label")
        BY <3>2, <4>1
      <4> QED
        BY <3>5, <4>1, Zenon
    <3>6. ASSUME Asks(p, [i EXCEPT !.image = cache[r][w].image, !.saw = cache[r][w].saw,
                                   !.pc = "label"])
          PROVE  Asks(p, b(cache[r][w].image, cache[r][w].saw, <<>>, "label"))
      <4>1. ASSUME NEW c, c = [i EXCEPT !.image = cache[r][w].image, !.saw = cache[r][w].saw,
                                         !.pc = "label"]
            PROVE  c = b(cache[r][w].image, cache[r][w].saw, <<>>, "label")
        BY <3>2, <4>1
      <4> QED
        BY <3>6, <4>1, Zenon
    <3>7. ASSUME NEW pc \in {"base", "listing"}, Asks(p, [i EXCEPT !.pc = pc, !.image = r])
          PROVE  Asks(p, b(r, 0, <<>>, pc))
      BY <3>3, <3>7, Zenon
    <3> QED
      BY <3>4, <3>5, <3>6, <3>7
  <2> QED
    BY <2>1, <2>2, <2>3, <2>4
<1>4. CASE Listed(p)
  <2>1. a.pc = "listing" /\ a.runtime \in Runtimes /\ a.wants \in Requests /\ a.script = None
        /\ UNCHANGED builder
    BY <1>0, <1>4 DEF Listed, Asking
  <2> DEFINE b(t, pc) == [pc |-> pc, runtime |-> a.runtime, wants |-> a.wants, image |-> t,
                          rest |-> <<>>, script |-> Script(t), saw |-> moves[t]]
             c == [pc |-> "base", runtime |-> a.runtime, wants |-> a.wants, image |-> a.runtime,
                   rest |-> a.wants, script |-> None, saw |-> moves[a.runtime]]
  <2>2. ASSUME NEW t \in Matches(a), Asks(p, b(t, IF Script(t) = None THEN "label" ELSE "found"))
        PROVE  \E d : Knows(d) /\ Asks(p, d) /\ Turned(p, d)
    <3> DEFINE pc == IF Script(t) = None THEN "label" ELSE "found"
    <3>1. t \in Tags /\ Exists(t) /\ ToSet(a.wants) \subseteq Image(t).packages
      BY DEF Matches
    <3>2. moves[t] \in Nat /\ Script(t) \in Scripts /\ Script(t) = Image(t).setup
      BY <3>1, TagFacts DEF Script, ImageTypes
    <3>3. Sees(t, moves[t], a.wants, <<>>)
      BY <3>1, <3>2 DEF Sees
    <3>4. b(t, pc) \in AskType
      BY <1>0, <2>1, <3>1, <3>2 DEF AskType, AskPcs
    <3>5. Asking(b(t, pc))
      BY <2>1, <3>2, <3>3 DEF Asking
    <3> QED
      BY <1>2, <2>1, <2>2, <3>4, <3>5 DEF Knows
  <2>3. CASE Asks(p, c)
    <3>1. moves[a.runtime] \in Nat /\ a.runtime \in Tags
      BY <2>1 DEF ImageTypes, Tags
    <3>2. Knows(c)
      BY <1>0, <2>1, <3>1 DEF Knows, AskType, AskPcs, Scripts, Asking
    <3> QED
      BY <1>2, <2>1, <2>3, <3>2
  <2>4. \/ \E t \in Matches(a) : Asks(p, b(t, IF Script(t) = None THEN "label" ELSE "found"))
        \/ Asks(p, c)
    <3>1. CASE \E t \in Matches(a) :
                 Asks(p, [a EXCEPT !.image = t, !.rest = <<>>, !.saw = moves[t],
                            !.script = Script(t),
                            !.pc = IF Script(t) = None THEN "label" ELSE "found"])
      <4>1. PICK t \in Matches(a) :
               Asks(p, [a EXCEPT !.image = t, !.rest = <<>>, !.saw = moves[t],
                          !.script = Script(t),
                          !.pc = IF Script(t) = None THEN "label" ELSE "found"])
        BY <3>1
      <4>2. ASSUME NEW d, d = [a EXCEPT !.image = t, !.rest = <<>>, !.saw = moves[t],
                                         !.script = Script(t),
                                         !.pc = IF Script(t) = None THEN "label" ELSE "found"]
            PROVE  d = b(t, IF Script(t) = None THEN "label" ELSE "found")
        BY <1>a, <4>2
      <4>3. Asks(p, b(t, IF Script(t) = None THEN "label" ELSE "found"))
        BY <4>1, <4>2, Zenon
      <4> QED
        BY <4>3, Zenon
    <3>2. CASE Finds(p, a.runtime, a.wants, "base")
      <4>1. Asks(p, [a EXCEPT !.image = a.runtime, !.rest = a.wants, !.pc = "base",
                              !.saw = moves[a.runtime]])
        BY <3>2 DEF Finds
      <4>2. ASSUME NEW d, d = [a EXCEPT !.image = a.runtime, !.rest = a.wants, !.pc = "base",
                                         !.saw = moves[a.runtime]]
            PROVE  d = c
        BY <1>a, <2>1, <4>2
      <4> QED
        BY <4>1, <4>2, Zenon
    <3> QED
      BY <1>4, <3>1, <3>2 DEF Listed, Exact
  <2> QED
    BY <2>2, <2>3, <2>4
<1>5. CASE Labelled(p)
  <2> DEFINE b == [pc |-> "found", runtime |-> a.runtime, wants |-> a.wants, image |-> a.image,
                   rest |-> a.rest, script |-> Script(a.image), saw |-> a.saw]
  <2>1. /\ a.pc = "label" /\ Sees(a.image, a.saw, a.wants, a.rest) /\ UNCHANGED builder
        /\ a.runtime \in Runtimes /\ a.wants \in Requests /\ a.image \in Tags
    BY <1>0, <1>5 DEF Labelled, Asking, Sees
  <2>5. Asks(p, b)
    <3>1. Asks(p, [a EXCEPT !.script = Script(a.image), !.pc = "found"])
      BY <1>5 DEF Labelled
    <3> QED
      <4>1. ASSUME NEW d, d = [a EXCEPT !.script = Script(a.image), !.pc = "found"]
            PROVE  d = b
        BY <1>a, <4>1
      <4> QED
        BY <3>1, <4>1, Zenon
  <2>2. Script(a.image) \in Scripts /\ (Exists(a.image) => Script(a.image) = Image(a.image).setup)
    BY <2>1, TagFacts DEF Script, Scripts
  <2>3. b \in AskType
    BY <1>0, <2>1, <2>2 DEF AskType, AskPcs
  <2>4. Asking(b)
    BY <2>1, <2>2 DEF Asking
  <2> QED
    BY <1>2, <2>1, <2>3, <2>4, <2>5 DEF Knows
<1>6. ASSUME a.pc \in {"base", "building"}
      PROVE  /\ Knows([a EXCEPT !.image = a.runtime, !.rest = a.wants, !.pc = "found",
                                !.saw = moves[a.runtime]])
             /\ Knows([a EXCEPT !.pc = "building"])
             /\ [a EXCEPT !.pc = "building"].pc = "building"
             /\ [a EXCEPT !.image = a.runtime, !.rest = a.wants, !.pc = "found",
                          !.saw = moves[a.runtime]].pc = "found"
  <2> DEFINE b == [pc |-> "found", runtime |-> a.runtime, wants |-> a.wants, image |-> a.runtime,
                   rest |-> a.wants, script |-> None, saw |-> moves[a.runtime]]
             c == [a EXCEPT !.pc = "building"]
  <2>1. /\ a.runtime \in Runtimes /\ a.runtime \in Tags /\ a.wants \in Requests /\ a.script = None
        /\ moves[a.runtime] \in Nat
    BY <1>0, <1>6 DEF Asking, Tags, ImageTypes
  <2>2. Sees(a.runtime, moves[a.runtime], a.wants, a.wants)
    BY <2>1 DEF Sees
  <2>3. b \in AskType
    BY <1>0, <2>1 DEF AskType, AskPcs, Scripts
  <2>4. Asking(b)
    BY <2>1, <2>2, BaseIsPlain DEF Asking
  <2>5. c = [pc |-> "building", runtime |-> a.runtime, wants |-> a.wants, image |-> a.image,
             rest |-> a.rest, script |-> a.script, saw |-> a.saw]
    BY <1>a
  <2>6. c \in AskType /\ c.pc = "building"
    BY <1>0, <2>5 DEF AskType, AskPcs
  <2>7. Asking(c)
    BY <2>1, <2>5 DEF Asking
  <2>8. b = [a EXCEPT !.image = a.runtime, !.rest = a.wants, !.pc = "found",
                      !.saw = moves[a.runtime]]
    <3>1. ASSUME NEW d, d = [a EXCEPT !.image = a.runtime, !.rest = a.wants, !.pc = "found",
                                       !.saw = moves[a.runtime]]
          PROVE  d = b
      BY <1>a, <2>1, <3>1
    <3> QED
      BY <3>1, Zenon
  <2>9. b.pc = "found"
    OBVIOUS
  <2> HIDE DEF b, c
  <2>10. Knows(b) /\ Knows(c)
    BY <2>3, <2>4, <2>6, <2>7 DEF Knows
  <2> QED
    BY <2>6, <2>8, <2>9, <2>10 DEF c
<1>7. ASSUME NEW v \in Versions, BaseChecked(p, v)
      PROVE  \E c : Knows(c) /\ Asks(p, c) /\ Turned(p, c)
  <2>1. CASE Finds(p, a.runtime, a.wants, "found") /\ UNCHANGED builder
    BY <1>2, <1>6, <1>7, <2>1 DEF BaseChecked, Finds
  <2>2. CASE /\ Asks(p, [a EXCEPT !.pc = "building"])
             /\ Goes(p, Begins(<<BaseJob(a.runtime, v, FALSE)>>))
    <3>1. a.pc = "base" /\ a.runtime \in Runtimes
      BY <1>0, <1>7 DEF BaseChecked, Asking
    <3>2. Turned(p, [a EXCEPT !.pc = "building"])
      BY <1>6, <2>2, <3>1 DEF Turned
    <3> QED
      BY <1>6, <2>2, <3>1, <3>2
  <2> QED
    BY <1>7, <2>1, <2>2 DEF BaseChecked
<1>8. Knows(IdleAsk)
  BY DEF Knows, IdleAsk, AskType, AskPcs, Scripts, Asking
<1>9. CASE BaseBuilt(p)
  <2>1. a.pc = "building" /\ Goes(p, IdleBuilder)
    BY <1>9 DEF BaseBuilt
  <2>2. \A c : Turned(p, c)
    BY <2>1 DEF Turned
  <2>3. \/ Asks(p, IdleAsk)
        \/ Asks(p, [a EXCEPT !.image = a.runtime, !.rest = a.wants, !.pc = "found",
                             !.saw = moves[a.runtime]])
    BY <1>9 DEF BaseBuilt, Finds
  <2> QED
    BY <1>6, <1>8, <2>1, <2>2, <2>3
<1>10. CASE Found(p)
  <2> DEFINE b == [pc |-> "done", runtime |-> a.runtime, wants |-> a.wants, image |-> a.image,
                   rest |-> a.rest, script |-> a.script, saw |-> a.saw]
  <2>1. a.pc = "found" /\ UNCHANGED builder /\ Asks(p, b)
    BY <1>a, <1>10 DEF Found
  <2>2. b \in AskType
    BY <1>0 DEF AskType, AskPcs
  <2>3. Asking(b)
    BY <1>0, <2>1 DEF Asking
  <2> QED
    BY <1>2, <2>1, <2>2, <2>3 DEF Knows
<1>11. CASE Returned(p)
  BY <1>2, <1>8, <1>11 DEF Returned, IdleAsk
<1> QED
  BY <1>3, <1>4, <1>5, <1>7, <1>9, <1>10, <1>11 DEF Requesting
-----------------------------------------------------------------------------
\* The invariant.
LEMMA AskedGoesOn ==
    ASSUME ImageTypes, TagsRefer, \A u \in Tags : Kept(u), AskTypes, Asked, UNCHANGED ask
    PROVE  Asked'
<1>1. \A a \in AskType : Asking(a) => Asking(a)'
  BY AskingGoesOn
<1>2. ASSUME NEW q \in Resolvers PROVE Asking(ask[q])'
  <2>1. PICK a \in AskType : a = ask'[q] /\ Asking(a)
    BY DEF AskTypes, Asked
  <2>2. Asking(a)'
    BY <1>1, <2>1
  <2> QED
    BY <2>1, <2>2 DEF Asking, Sees
<1> QED
  BY <1>2 DEF Asked

\* Where a builder takes a step, requests and cache are as they were.
LEMMA BuilderKeeps ==
    ASSUME ImagesInv, ImagesGoOn, NEW p \in Processes, Turns(p),
           UNCHANGED <<override, ask, cache>>,
           p \in Resolvers => ask[p].pc = "building"
    PROVE  ImagesInv'
<1>1. ImageTypes /\ BuilderTypes /\ AskTypes /\ TagsRefer /\ OwnBuilds /\ Asked /\ Cached
  BY DEF ImagesInv
<1>2. ImageTypes' /\ TagsRefer' /\ \A t \in Tags : Kept(t)
  BY DEF ImagesGoOn
<1>3. BuilderTypes' /\ \A q \in Processes : q # p => builder'[q] = builder[q]
  BY DEF Turns
<1>4. AskTypes'
  BY <1>1 DEF AskTypes
<1>5. OwnBuilds'
  BY <1>1, <1>3 DEF OwnBuilds, Processes
<1>6. Asked' /\ Cached'
  BY <1>1, <1>2, AskedGoesOn, CachedGoesOn
<1> QED
  BY <1>2, <1>3, <1>4, <1>5, <1>6 DEF ImagesInv

LEMMA RequestGoesOn ==
    ASSUME ImagesInv, NEW p \in Resolvers, Requesting(p)
    PROVE  ImagesInv'
<1>1. ImageTypes /\ BuilderTypes /\ AskTypes /\ TagsRefer /\ OwnBuilds /\ Asked /\ Cached
      /\ p \in Processes /\ ask[p] \in AskType /\ Asking(ask[p])
  BY DEF ImagesInv, Processes, AskTypes, Asked
<1>2. /\ UNCHANGED <<override, images>>
      /\ UNCHANGED cache \/ (Remembers(p) /\ ask[p].pc = "found" /\ ask[p].rest = <<>>)
  BY <1>1, RequestKnows
<1>3. PICK b : Knows(b) /\ Asks(p, b) /\ Turned(p, b)
  BY <1>1, RequestKnows
<1>4. /\ ask' \in [Resolvers -> AskType] /\ Asked' /\ ask'[p] = b
      /\ \A q \in Resolvers : q # p => ask'[q] = ask[q]
  BY <1>1, <1>2, <1>3, AsksTyped DEF Knows
<1>5. ImageTypes' /\ TagsRefer' /\ \A t \in Tags : Kept(t)
  BY <1>1, <1>2, SameImages DEF ImagesGoOn
<1>6. /\ BuilderTypes' /\ (b.pc # "building" => builder'[p].pc = "idle")
      /\ \A q \in Processes : q # p => builder'[q] = builder[q]
  <2>1. CASE UNCHANGED builder /\ b.pc # "building" /\ ask[p].pc # "building"
    BY <1>1, <2>1 DEF BuilderTypes, OwnBuilds
  <2>2. CASE /\ b.pc = "building" /\ ask[p].runtime \in Runtimes
             /\ \E v \in Versions : Goes(p, Begins(<<BaseJob(ask[p].runtime, v, FALSE)>>))
    <3>1. PICK v \in Versions : Goes(p, Begins(<<BaseJob(ask[p].runtime, v, FALSE)>>))
      BY <2>2
    <3>2. \A f \in BOOLEAN : BaseJob(ask[p].runtime, v, f) \in BaseJobs
      BY <2>2 DEF BaseJobs
    <3>3. FALSE \in BOOLEAN
      OBVIOUS
    <3>4. BaseJob(ask[p].runtime, v, FALSE) \in Jobs
      BY <3>2, <3>3, Zenon DEF Jobs
    <3>5. \A j \in Jobs : <<j>> \in Seq(Jobs)
      OBVIOUS
    <3>6. <<BaseJob(ask[p].runtime, v, FALSE)>> \in Seq(Jobs)
      BY <3>4, <3>5, Zenon
    <3>7. PICK todo \in Seq(Jobs) : Goes(p, Begins(todo))
      BY <3>1, <3>6
    <3>8. Begins(todo) \in BuilderType /\ (Begins(todo).pc \in JobPcs => Begins(todo).todo # <<>>)
      BY Begun
    <3> QED
      BY <1>1, <2>2, <3>7, <3>8, GoesTyped
  <2>3. CASE Goes(p, IdleBuilder)
    <3>1. IdleBuilder \in BuilderType /\ IdleBuilder.pc = "idle" /\ IdleBuilder.pc \notin JobPcs
      BY IdleTyped DEF IdleBuilder, JobPcs
    <3> QED
      BY <1>1, <2>3, <3>1, GoesTyped
  <2> QED
    BY <1>3, <2>1, <2>2, <2>3 DEF Turned
<1>7. OwnBuilds'
  BY <1>1, <1>4, <1>6 DEF OwnBuilds, Processes
<1>8. cache' \in [Runtimes -> [Requests -> {None} \union Memos]] /\ Cached'
  <2>1. CASE UNCHANGED cache
    BY <1>1, <1>5, <2>1, CachedGoesOn DEF AskTypes
  <2>2. CASE Remembers(p) /\ ask[p].pc = "found" /\ ask[p].rest = <<>>
    <3> DEFINE r == ask[p].runtime
               w == ask[p].wants
               m == [image |-> ask[p].image, saw |-> ask[p].saw]
    <3>1. r \in Runtimes /\ w \in Requests /\ Sees(ask[p].image, ask[p].saw, w, <<>>)
      BY <1>1, <2>2 DEF Asking
    <3>2. m \in Memos /\ Sees(m.image, m.saw, w, <<>>)
      BY <3>1 DEF Memos, Sees
    <3>3. cache' = [cache EXCEPT ![r][w] = m]
      BY <2>2 DEF Remembers
    <3> HIDE DEF r, w, m
    <3>4. cache' \in [Runtimes -> [Requests -> {None} \union Memos]]
      BY <1>1, <3>1, <3>2, <3>3 DEF AskTypes
    <3>5. \A s \in Runtimes, v \in Requests :
             cache'[s][v] = IF s = r /\ v = w THEN m ELSE cache[s][v]
      BY <1>1, <3>1, <3>3 DEF AskTypes
    <3>6. ASSUME NEW s \in Runtimes, NEW v \in Requests, cache'[s][v] # None
          PROVE  Sees(cache'[s][v].image, cache'[s][v].saw, v, <<>>)
      BY <1>1, <3>2, <3>5, <3>6 DEF Cached
    <3>7. \A t, saw, v : Sees(t, saw, v, <<>>) => Sees(t, saw, v, <<>>)'
      BY <1>1, <1>5, SeesGoesOn
    <3> QED
      BY <3>4, <3>6, <3>7 DEF Cached, Sees
  <2> QED
    BY <1>2, <2>1, <2>2
<1> QED
  BY <1>1, <1>2, <1>4, <1>5, <1>6, <1>7, <1>8 DEF ImagesInv, AskTypes

LEMMA StepImages ==
    ASSUME BaseTagsReserved, ImagesInv, [Next]_vars PROVE ImagesInv'
<1>1. ASSUME NEW p \in Processes, JobStep(p) PROVE ImagesInv'
  <2>1. /\ ImagesGoOn /\ Turns(p) /\ builder[p].pc \in JobPcs
        /\ UNCHANGED <<override, ask, cache>>
    BY <1>1, JobGoesOn DEF ImagesInv
  <2>2. p \in Resolvers => ask[p].pc = "building"
    BY <2>1 DEF ImagesInv, OwnBuilds, JobPcs
  <2> QED
    BY <2>1, <2>2, BuilderKeeps
<1>2. ASSUME NEW p \in Builders, Commands(p) PROVE ImagesInv'
  <2>1. ImagesGoOn /\ Turns(p) /\ UNCHANGED <<override, ask, cache>>
    BY <1>2, CommandGoesOn DEF ImagesInv
  <2>2. p \in Processes /\ p \notin Resolvers
    BY ImagesAssumption DEF Processes
  <2> QED
    BY <2>1, <2>2, BuilderKeeps
<1>3. ASSUME NEW p \in Resolvers, Requesting(p) PROVE ImagesInv'
  BY <1>3, RequestGoesOn
<1>4. CASE UNCHANGED vars
  BY <1>4 DEF vars, images, ImagesInv, ImageTypes, BuilderTypes, AskTypes, TagsRefer, OwnBuilds,
              Asked, Cached, Asking, Sees, Image, Exists, Proper, BaseLike, CustomLike
<1> QED
  BY <1>1, <1>2, <1>3, <1>4 DEF Next

LEMMA StartImages == Init => ImagesInv
<1> SUFFICES ASSUME Init PROVE ImagesInv
  OBVIOUS
<1>1. ImageTypes
  BY DEF Init, ImageTypes
<1>2. BuilderTypes
  BY IdleTyped DEF Init, BuilderTypes, IdleBuilder, JobPcs
<1>3. IdleAsk \in AskType /\ Asking(IdleAsk)
  BY DEF IdleAsk, AskType, AskPcs, Scripts, Asking
<1>4. AskTypes /\ Asked
  BY <1>3 DEF Init, AskTypes, Asked
<1>5. TagsRefer /\ OwnBuilds /\ Cached
  BY DEF Init, TagsRefer, Exists, OwnBuilds, Processes, IdleBuilder, Cached
<1> QED
  BY <1>1, <1>2, <1>4, <1>5 DEF ImagesInv

\* What requests and the engine's cache know of a tag is true of the image, unless
\* somebody moved the tag; and a tag refers to what was built under its name.
THEOREM ImagesInvariant == ASSUME BaseTagsReserved PROVE Spec => []ImagesInv
<1>1. ImagesInv /\ [Next]_vars => ImagesInv'
  BY StepImages, BaseTagsReserved
<1> QED
  BY <1>1, StartImages, PTL DEF Spec

\* A request gets all the packages and the setup script it asked for, however its
\* image was found, and whatever is built and removed at the same time.
THEOREM ImagesNothingMissing == ASSUME BaseTagsReserved PROVE Spec => []NothingMissing
<1>1. ImagesInv => NothingMissing
  BY DEF ImagesInv, NothingMissing, Asked, Asking, Sees
<1> QED
  BY <1>1, ImagesInvariant, BaseTagsReserved, PTL

\* A process that looks at the labels goes on with its next build only if this one
\* is up to date.
LEMMA SkipsWhen ==
    ASSUME NEW p \in Processes, JobStep(p), builder[p].pc = "labels",
           builder'[p].todo # builder[p].todo, BuilderTypes
    PROVE  UpToDate(Job(p))
<1>1. CheckLabels(p)
  BY DEF JobStep, CheckExists, FindOld, Built, BuildThrows, RemoveOld, At
<1>2. ASSUME Goes(p, [builder[p] EXCEPT !.pc = "old"]) PROVE FALSE
  <2>1. builder[p] \in BuilderType /\ builder'[p] = [builder[p] EXCEPT !.pc = "old"]
    BY <1>2 DEF Goes, BuilderTypes
  <2>2. builder'[p].todo = builder[p].todo
    BY <2>1 DEF BuilderType
  <2> QED
    BY <2>2
<1> QED
  BY <1>1, <1>2 DEF CheckLabels

LEMMA RequestLeavesLabels ==
    ASSUME OwnBuilds, BuilderTypes, NEW q \in Resolvers, Requesting(q),
           NEW p \in Processes, builder[p].pc = "labels"
    PROVE  builder'[p] = builder[p]
<1>1. ASSUME NEW b, Goes(q, b), builder[q].pc # "labels" PROVE builder'[p] = builder[p]
  BY <1>1 DEF Goes, BuilderTypes
<1>2. ASSUME NEW v \in Versions, BaseChecked(q, v) PROVE builder'[p] = builder[p]
  <2>1. builder[q].pc = "idle"
    BY <1>2 DEF BaseChecked, OwnBuilds
  <2> QED
    BY <1>1, <1>2, <2>1 DEF BaseChecked
<1>3. CASE BaseBuilt(q)
  <2>1. builder[q].pc \in {"built", "threw"}
    BY <1>3 DEF BaseBuilt, At
  <2> QED
    BY <1>1, <1>3, <2>1 DEF BaseBuilt
<1> QED
  BY <1>2, <1>3 DEF Requesting, Resolve, Listed, Labelled, Found, Returned

\* A build that is skipped had nothing to do, if hashes differ where builds do: also
\* when the image has been replaced or removed since the process looked.
THEOREM ImagesSkippedIsAsAsked ==
    ASSUME BaseTagsReserved, HashesDiffer PROVE Spec => SkippedIsAsAsked
<1>1. ASSUME ImagesInv, [Next]_vars, NEW p \in Processes, SkipsAsCurrent(p)
      PROVE  Serves(Job(p))
  <2>1. builder[p].pc = "labels" /\ builder'[p] # builder[p] /\ builder'[p].todo # builder[p].todo
    BY <1>1 DEF SkipsAsCurrent, At
  <2>2. UpToDate(Job(p))
    <3>1. ASSUME NEW q \in Processes, JobStep(q) PROVE UpToDate(Job(p))
      <4>1. q = p
        BY <1>1, <2>1, <3>1, JobGoesOn DEF ImagesInv, Turns
      <4> QED
        BY <1>1, <2>1, <3>1, <4>1, SkipsWhen DEF ImagesInv
    <3>2. ASSUME NEW q \in Builders, Commands(q) PROVE FALSE
      <4>1. Turns(q) /\ builder[q].pc \notin JobPcs
        BY <1>1, <3>2, CommandGoesOn DEF ImagesInv
      <4> QED
        BY <2>1, <4>1 DEF Turns, JobPcs
    <3>3. ASSUME NEW q \in Resolvers, Requesting(q) PROVE FALSE
      BY <1>1, <2>1, <3>3, RequestLeavesLabels DEF ImagesInv
    <3>4. ~UNCHANGED vars
      BY <2>1 DEF vars
    <3> QED
      BY <1>1, <3>1, <3>2, <3>3, <3>4 DEF Next
  <2>3. Job(p) \in Jobs
    BY <1>1, <2>1 DEF ImagesInv, BuilderTypes, BuilderType, JobPcs, Job
  <2> DEFINE j == Job(p)
  <2>4. /\ j.tag \in Tags /\ Exists(j.tag) /\ Image(j.tag).hash = j.hash
        /\ Proper(j.tag, Image(j.tag))
    BY <1>1, <2>2, <2>3, JobFacts DEF UpToDate, ImagesInv, TagsRefer
  <2>5. CASE j.base
    BY <2>3, <2>4, <2>5, JobFacts DEF Serves, Proper, BaseLike
  <2>6. CASE ~j.base
    <3>1. j \in CustomJobs /\ j.tag \notin Runtimes
      BY <2>3, <2>6, JobFacts DEF BaseTagsReserved
    <3> QED
      BY <2>4, <2>6, <3>1 DEF Serves, Proper, CustomLike, HashesDiffer
  <2> QED
    BY <2>5, <2>6
<1>2. ImagesInv /\ [Next]_vars
        => [\A p \in Processes : SkipsAsCurrent(p) => Serves(Job(p))]_vars
  BY <1>1
<1> QED
  BY <1>2, ImagesInvariant, BaseTagsReserved, PTL DEF Spec, SkippedIsAsAsked
=============================================================================
