--------------------------- MODULE RegistryProofs ---------------------------
(***************************************************************************)
(* Proofs about registries: the index, and the HTTP client that downloads  *)
(* and sparse indexes use.                                                 *)
(***************************************************************************)
EXTENDS RegistryIndex, HttpClient, TLAPS

-----------------------------------------------------------------------------
(***************************************************************************)
(* The index of a registry, for any crates, any number of queries and any  *)
(* number of cargos one after the other.  The inductive invariant XInv     *)
(* follows a version from the registry through the repository or the       *)
(* response, the cache on disk and the memory of cargo to the answer.      *)
(***************************************************************************)

Cached == [version : Int, versions : Int]
QueryType == [at : {"summaries", "await", "woken", "answer", "answered", "config", "fetch config", "fetch",
                "request", "git", "local"},
          name : Name, want : Nat, cached : Cached, first : BOOLEAN, update : BOOLEAN]

CargoType ==
  [summaries : [Name -> Int], inflight : SUBSET Name, fresh : SUBSET (Name \union {ConfigFile}),
   requested_update : BOOLEAN, asked : BOOLEAN, updated : BOOLEAN, config : BOOLEAN,
   config_lock : BOOLEAN, auth_required : BOOLEAN, failed : BOOLEAN, began : [Name -> Nat]]

XTypeOK ==
  /\ registry \in Registry
  /\ server \in [Name -> Nat] /\ git_index \in [Name -> Nat]
  /\ cache \in [Name -> Cached]
  /\ cargo \in CargoType
  /\ task \in [Task -> QueryType \union {Idle}]

\* One query at a time loads the file of a crate, as the kind of the registry demands.
Loading(t) == task[t].at \in {"config", "fetch config", "fetch", "request", "git", "local"}
LoadInv ==
  /\ \A t \in Task : Loading(t) => task[t].name \in cargo.inflight
  /\ \A t, u \in Task : Loading(t) /\ Loading(u) /\ task[t].name = task[u].name => t = u
  /\ \A t \in Task : Loading(t) => registry.kind = CASE task[t].at = "git" -> "git" [] task[t].at = "local" -> "local"
                                                     [] OTHER -> "sparse"

\* A cache file with the version of the index file has all that was in it.
Coherent(c) == c.version # None /\ (git \/ (sparse /\ registry.etag)) => c.versions = c.version
CacheInv ==
  /\ \A n \in Name : Coherent(cache[n])
  /\ \A t \in Task : Loading(t) => Coherent(task[t].cached)

Asked == cargo.asked \/ registry.kind = "local"

\* What was asked for is under way or done.
UpdateInv ==
  /\ \A n \in Name : cargo.began[n] <= server[n]
  /\ sparse /\ cargo.asked => cargo.requested_update
  /\ git /\ cargo.asked => cargo.requested_update \/ cargo.updated
  /\ git /\ cargo.updated => \A n \in Name : cargo.began[n] <= git_index[n]

\* A file fetched by this cargo is not loaded again while its summaries are kept.
FreshInv == sparse => \A n \in Name : n \in cargo.fresh => cargo.summaries[n] # None /\ n \notin cargo.inflight

\* What was loaded since an update was asked for is up to date.
AnswerInv ==
  /\ Asked => \A n \in Name : cargo.summaries[n] # None => cargo.began[n] <= cargo.summaries[n]
  /\ \A t \in Task : task[t].at # "idle" /\ task[t].update =>
       /\ Asked
       /\ task[t].at \in {"answer", "woken"} => cargo.began[task[t].name] <= task[t].cached.versions

XInv == XTypeOK /\ LoadInv /\ (~offline => CacheInv /\ UpdateInv /\ FreshInv /\ AnswerInv)

\* A query under way has the fields of one.
LEMMA QueryTyped ==
  ASSUME XTypeOK, NEW t \in Task, task[t].at # "idle"
  PROVE  task[t] \in QueryType
<1>1. task[t] \in QueryType \union {Idle}
  BY DEF XTypeOK
<1> QED
  BY <1>1 DEF Idle

\* So has one that loads a file.
LEMMA LoadingTyped ==
  ASSUME XTypeOK, NEW t \in Task, Loading(t)
  PROVE  task[t] \in QueryType /\ task[t].name \in Name
<1>1. task[t].at # "idle"
  BY Zenon DEF Loading
<1> QED
  BY <1>1, QueryTyped, Zenon DEF QueryType

\* What Loaded makes of the memory of cargo.
LEMMA LoadedMemory ==
  ASSUME NEW t, NEW memory \in CargoType, NEW versions \in Int, task[t].name \in Name,
         Loaded(t, memory, versions)
  PROVE  /\ cargo' \in CargoType
         /\ cargo'.inflight = memory.inflight \ {task[t].name}
         /\ cargo'.summaries = [memory.summaries EXCEPT ![task[t].name] = versions]
         /\ cargo'.fresh = memory.fresh /\ cargo'.began = memory.began
         /\ cargo'.asked = memory.asked /\ cargo'.updated = memory.updated
         /\ cargo'.requested_update = memory.requested_update
<1>1. cargo' = [memory EXCEPT !.inflight = @ \ {task[t].name}, !.summaries[task[t].name] = versions]
  BY Zenon DEF Loaded
<1>2. [memory.summaries EXCEPT ![task[t].name] = versions] \in [Name -> Int]
  BY DEF CargoType
<1>3. memory.inflight \ {task[t].name} \in SUBSET Name
  BY DEF CargoType
<1> QED
  BY <1>1, <1>2, <1>3, Zenon DEF CargoType

\* A query is given the versions.
With(q, pc, versions) == [q EXCEPT !.at = pc, !.cached.versions = versions]

\* What a query is once it has its summaries.
LEMMA QueryWith ==
  ASSUME NEW q \in QueryType, NEW versions \in Int, NEW pc \in {"answer", "woken"}
  PROVE  /\ With(q, pc, versions) \in QueryType
         /\ With(q, pc, versions).at = pc /\ With(q, pc, versions).name = q.name
         /\ With(q, pc, versions).update = q.update /\ With(q, pc, versions).cached.versions = versions
<1>0. q.cached \in [version : Int, versions : Int]
  BY Zenon DEF QueryType, Cached
<1>1. PICK c \in Cached : c = [q.cached EXCEPT !.versions = versions] /\ c.versions = versions
  <2>1. [q.cached EXCEPT !.versions = versions] \in Cached
    BY <1>0 DEF Cached
  <2>2. [q.cached EXCEPT !.versions = versions].versions = versions
    BY <1>0
  <2> QED
    BY <2>1, <2>2, Zenon
<1>2. With(q, pc, versions) = [q EXCEPT !.at = pc, !.cached = c]
  BY <1>1 DEF With
<1>3. With(q, pc, versions) \in QueryType
  BY <1>2, Zenon DEF QueryType
<1> QED
  BY <1>1, <1>2, <1>3, Zenon DEF QueryType

\* And of the queries: the one that loaded the file, those that wait for it, and the others.
LEMMA LoadedQueries ==
  ASSUME XTypeOK, NEW t \in Task, NEW memory, NEW versions \in Int, Loading(t),
         Loaded(t, memory, versions)
  PROVE  /\ task' \in [Task -> QueryType \union {Idle}]
         /\ \A u \in Task :
              \/ task'[u] = task[u] /\ u # t
              \/ /\ task'[u].at \in {"answer", "woken"} /\ (u = t \/ task[u].at = "await")
                 /\ task'[u].name = task[u].name /\ task[u].name = task[t].name
                 /\ task'[u].update = task[u].update /\ task'[u].cached.versions = versions
<1>1. task[t] \in QueryType
  BY LoadingTyped
<1> SUFFICES ASSUME NEW u \in Task
             PROVE  /\ task'[u] \in QueryType \union {Idle}
                    /\ \/ task'[u] = task[u] /\ u # t
                       \/ /\ task'[u].at \in {"answer", "woken"} /\ (u = t \/ task[u].at = "await")
                          /\ task'[u].name = task[u].name /\ task[u].name = task[t].name
                          /\ task'[u].update = task[u].update /\ task'[u].cached.versions = versions
  BY Zenon DEF Loaded
<1>2. CASE u = t
  <2>1. task'[t] = With(task[t], "answer", versions)
    BY Zenon DEF Loaded, Loading, With
  <2>2. /\ task'[t] \in QueryType
        /\ task'[t].at = "answer" /\ task'[t].name = task[t].name /\ task'[t].update = task[t].update
        /\ task'[t].cached.versions = versions
    BY <1>1, <2>1, QueryWith
  <2> QED
    BY <1>2, <2>2
<1>3. CASE u # t /\ task[u].at = "await" /\ task[u].name = task[t].name
  <2>1. task'[u] = With(task[u], "woken", versions)
    BY <1>3, Zenon DEF Loaded, With
  <2>2. task[u] \in QueryType
    BY <1>3, QueryTyped
  <2>3. /\ task'[u] \in QueryType
        /\ task'[u].at = "woken" /\ task'[u].name = task[u].name /\ task'[u].update = task[u].update
        /\ task'[u].cached.versions = versions
    BY <2>1, <2>2, QueryWith
  <2> QED
    BY <1>3, <2>3
<1>4. CASE u # t /\ ~(task[u].at = "await" /\ task[u].name = task[t].name)
  <2>1. task'[u] = task[u]
    BY <1>4, Zenon DEF Loaded
  <2> QED
    BY <1>4, <2>1 DEF XTypeOK
<1> QED
  BY <1>2, <1>3, <1>4

\* A query that has loaded a file is no longer loading, nor are those that it woke.
LEMMA LoadedLoads ==
  ASSUME XTypeOK, LoadInv, NEW t \in Task, Loading(t), NEW memory \in CargoType,
         memory.inflight = cargo.inflight, NEW versions \in Int, Loaded(t, memory, versions),
         UNCHANGED registry
  PROVE  LoadInv' /\ \A u \in Task : Loading(u)' => u # t /\ Loading(u) /\ task'[u] = task[u]
<1>0. task[t].name \in Name
  BY LoadingTyped
<1>1. cargo'.inflight = memory.inflight \ {task[t].name}
  BY <1>0, LoadedMemory, Zenon
<1>2. \A u \in Task : Loading(u)' => u # t /\ Loading(u) /\ task'[u] = task[u]
  BY LoadedQueries, Zenon DEF Loading
<1>3. \A u \in Task : Loading(u)' => task'[u].name \in cargo'.inflight
  BY <1>1, <1>2 DEF LoadInv
<1>4. \A u, v \in Task : Loading(u)' /\ Loading(v)' /\ task'[u].name = task'[v].name => u = v
  BY <1>2 DEF LoadInv
<1>5. \A u \in Task : Loading(u)' =>
        registry'.kind = CASE task'[u].at = "git" -> "git" [] task'[u].at = "local" -> "local" [] OTHER -> "sparse"
  BY <1>2 DEF LoadInv
<1> QED
  BY <1>2, <1>3, <1>4, <1>5 DEF LoadInv

\* When the versions loaded are up to date, so are the summaries and the answers.
LEMMA LoadedAnswers ==
  ASSUME XTypeOK, FreshInv, AnswerInv, NEW t \in Task, Loading(t), NEW memory \in CargoType,
         memory.inflight = cargo.inflight, memory.summaries = cargo.summaries,
         memory.began = cargo.began, memory.asked = cargo.asked,
         memory.fresh \subseteq cargo.fresh \union {task[t].name, ConfigFile},
         NEW versions \in Int, Loaded(t, memory, versions), UNCHANGED registry,
         Asked => cargo.began[task[t].name] <= versions,
         sparse /\ task[t].name \in memory.fresh => versions # None
  PROVE  FreshInv' /\ AnswerInv'
<1>1. task[t].name \in Name
  BY LoadingTyped
<1>2. /\ cargo'.inflight = cargo.inflight \ {task[t].name}
      /\ cargo'.summaries = [cargo.summaries EXCEPT ![task[t].name] = versions]
      /\ cargo'.fresh = memory.fresh /\ cargo'.began = cargo.began /\ cargo'.asked = cargo.asked
  BY <1>1, LoadedMemory
<1>3. cargo.summaries \in [Name -> Int]
  BY DEF XTypeOK, CargoType
<1>4. FreshInv'
  <2> SUFFICES ASSUME sparse, NEW n \in Name, n \in memory.fresh
               PROVE  cargo'.summaries[n] # None /\ n \notin cargo'.inflight
    BY <1>2 DEF FreshInv, sparse
  <2>1. CASE n = task[t].name
    BY <1>2, <1>3, <2>1
  <2>2. CASE n # task[t].name
    BY <1>2, <1>3, <2>2, NamesTyped DEF FreshInv
  <2> QED
    BY <2>1, <2>2
<1>5. Asked' <=> Asked
  BY <1>2 DEF Asked
<1>6. ASSUME Asked, NEW n \in Name, cargo'.summaries[n] # None
      PROVE  cargo'.began[n] <= cargo'.summaries[n]
  <2>1. CASE n = task[t].name
    BY <1>2, <1>3, <1>6, <2>1
  <2>2. CASE n # task[t].name
    BY <1>2, <1>3, <1>6, <2>2 DEF AnswerInv
  <2> QED
    BY <2>1, <2>2
<1>7. ASSUME NEW u \in Task, task'[u].at # "idle", task'[u].update
      PROVE  /\ Asked
             /\ task'[u].at \in {"answer", "woken"} => cargo'.began[task'[u].name] <= task'[u].cached.versions
  <2>1. CASE task'[u] = task[u]
    BY <1>2, <1>7, <2>1 DEF AnswerInv
  <2>2. CASE /\ u = t \/ task[u].at = "await"
             /\ task'[u].name = task[u].name /\ task[u].name = task[t].name
             /\ task'[u].update = task[u].update /\ task'[u].cached.versions = versions
    <3>1. Asked
      BY <1>7, <2>2, Zenon DEF AnswerInv, Loading
    <3> QED
      BY <1>2, <2>2, <3>1
  <2> QED
    BY <2>1, <2>2, LoadedQueries
<1> QED
  BY <1>4, <1>5, <1>6, <1>7 DEF AnswerInv

\* How a load ends: the versions are put in the memory of cargo, the cache file is written, and
\* online both are what the invariant says.
LoadsFile(t, memory, versions) ==
  /\ memory \in CargoType /\ versions \in Int /\ Loaded(t, memory, versions)
  /\ memory.inflight = cargo.inflight /\ memory.summaries = cargo.summaries
  /\ memory.began = cargo.began /\ memory.asked = cargo.asked
  /\ memory.fresh \subseteq cargo.fresh \union {task[t].name, ConfigFile}
  /\ cache' \in [Name -> Cached]
  /\ ~offline => /\ Asked => cargo.began[task[t].name] <= versions
                 /\ sparse /\ task[t].name \in memory.fresh => versions # None
                 /\ \A n \in Name : Coherent(cache'[n])

\* A cache file is removed.
LEMMA CacheGone ==
  ASSUME XTypeOK, NEW n, cache' = [cache EXCEPT ![n] = NoCache]
  PROVE  /\ cache' \in [Name -> Cached]
         /\ (\A m \in Name : Coherent(cache[m])) => \A m \in Name : Coherent(cache'[m])
<1>1. NoCache \in Cached /\ Coherent(NoCache)
  BY DEF NoCache, Cached, None, Coherent
<1>2. \A m \in Name : cache'[m] = NoCache \/ cache'[m] = cache[m]
  BY DEF XTypeOK
<1> QED
  BY <1>1, <1>2, Zenon DEF XTypeOK

\* A cache file is written as a whole, or not at all.
LEMMA CacheWritten ==
  ASSUME XTypeOK, \A r \in Registry : ~r.torn, NEW t, NEW memory, NEW versions \in Int, NEW version \in Int,
         Data(t, memory, versions, version)
  PROVE  /\ cache' \in [Name -> Cached]
         /\ (\A m \in Name : Coherent(cache[m])) /\ (git \/ (sparse /\ registry.etag) => versions = version) =>
              \A m \in Name : Coherent(cache'[m])
<1> DEFINE new == [version |-> version, versions |-> versions]
<1>1. new \in Cached /\ new.version = version /\ new.versions = versions
  BY DEF Cached
<1>2. ~registry.torn
  BY DEF XTypeOK
<1>3. cache' = cache \/ cache' = [cache EXCEPT ![task[t].name] = new]
  BY <1>2 DEF Data
<1>4. \A m \in Name : cache'[m] = new \/ cache'[m] = cache[m]
  BY <1>3 DEF XTypeOK
<1>5. cache' \in [Name -> Cached]
  BY <1>1, <1>3 DEF XTypeOK
<1> QED
  BY <1>1, <1>4, <1>5 DEF Coherent

\* Each way a load ends.
LEMMA NoConfigLoads ==
  ASSUME XInv, NEW t \in Task, NoConfig(t)
  PROVE  /\ Loading(t)
         /\ \E memory, versions : /\ LoadsFile(t, memory, versions)
                                  /\ memory.requested_update = cargo.requested_update
                                  /\ memory.updated = cargo.updated
<1> DEFINE memory == [cargo EXCEPT !.config_lock = FALSE]
<1>1. offline /\ Loading(t) /\ Loaded(t, memory, 0) /\ cache' = [cache EXCEPT ![task[t].name] = NoCache]
  BY Zenon DEF NoConfig, NotFound, TaskAt, Loading
<1>2. /\ memory \in CargoType
      /\ memory.inflight = cargo.inflight /\ memory.summaries = cargo.summaries
      /\ memory.began = cargo.began /\ memory.asked = cargo.asked /\ memory.fresh = cargo.fresh
      /\ memory.requested_update = cargo.requested_update /\ memory.updated = cargo.updated
  BY Zenon DEF XInv, XTypeOK, CargoType
<1>3. cache' \in [Name -> Cached]
  BY <1>1, CacheGone, Zenon DEF XInv
<1>4. LoadsFile(t, memory, 0)
  BY <1>1, <1>2, <1>3 DEF LoadsFile
<1> QED
  BY <1>1, <1>2, <1>4, Zenon

\* A local registry has its files at hand.
LEMMA LocalLoads ==
  ASSUME XInv, NEW t \in Task, LocalLoad(t)
  PROVE  Loading(t) /\ LoadsFile(t, cargo, server[task[t].name])
<1>1. Loading(t) /\ task[t].at = "local" /\ Loaded(t, cargo, server[task[t].name]) /\ cache' = cache
  BY DEF LocalLoad, TaskAt, Loading, disk
<1>2. ~sparse /\ ~git
  BY <1>1 DEF XInv, LoadInv, sparse, git
<1>3. task[t].name \in Name
  BY <1>1, LoadingTyped DEF XInv
<1>4. cargo \in CargoType /\ server[task[t].name] \in Int /\ cache' \in [Name -> Cached]
  BY <1>1, <1>3 DEF XInv, XTypeOK
<1>5. ~offline => cargo.began[task[t].name] <= server[task[t].name] /\ \A n \in Name : Coherent(cache'[n])
  BY <1>1, <1>3 DEF XInv, UpdateInv, CacheInv
<1> QED
  BY <1>1, <1>2, <1>4, <1>5 DEF LoadsFile

\* Without a request, a load ends only before an update was asked for.
LEMMA SparseLoads ==
  ASSUME XInv, NEW t \in Task, SparseFetch(t)
  PROVE  /\ Loading(t) /\ task[t].at = "fetch"
         /\ \/ Go(t, "request") /\ UNCHANGED <<cargo, cache>>
            \/ \E memory, versions : LoadsFile(t, memory, versions) /\ memory = cargo
<1>1. Loading(t) /\ task[t].at = "fetch"
  BY DEF SparseFetch, TaskAt, Loading
<1>2. sparse
  BY <1>1 DEF XInv, LoadInv, sparse
<1>3. task[t] \in QueryType /\ task[t].name \in Name
  BY <1>1, LoadingTyped DEF XInv
<1>4. cargo \in CargoType /\ task[t].cached.versions \in Int
  BY <1>3, Zenon DEF XInv, XTypeOK, QueryType, Cached
<1>5. ~offline => task[t].name \notin cargo.fresh
  BY <1>1, <1>2, <1>3 DEF XInv, FreshInv, LoadInv
<1>6. CASE CacheValid(t, cargo) /\ IsFresh(task[t].name)
  <2>1. ~offline => ~Asked
    BY <1>2, <1>5, <1>6 DEF IsFresh, Asked, XInv, UpdateInv, sparse
  <2>2. cache' \in [Name -> Cached] /\ (~offline => \A n \in Name : Coherent(cache'[n]))
    BY <1>6 DEF CacheValid, XInv, XTypeOK, CacheInv
  <2> QED
    BY <1>1, <1>4, <1>5, <1>6, <2>1, <2>2 DEF CacheValid, LoadsFile
<1>7. CASE NotFound(t, cargo) /\ offline
  <2>1. cache' \in [Name -> Cached]
    BY <1>7, CacheGone, Zenon DEF XInv, NotFound
  <2>2. LoadsFile(t, cargo, 0)
    BY <1>4, <1>7, <2>1 DEF NotFound, LoadsFile
  <2> QED
    BY <1>1, <2>2
<1> QED
  BY <1>1, <1>5, <1>6, <1>7 DEF SparseFetch

\* The response of a sparse registry is what it has now.
LEMMA ResponseLoads ==
  ASSUME XInv, \A r \in Registry : ~r.torn, NEW t \in Task, Response(t)
  PROVE  /\ Loading(t)
         /\ \E memory, versions : /\ LoadsFile(t, memory, versions)
                                  /\ memory.requested_update = cargo.requested_update
                                  /\ memory.updated = cargo.updated
<1> DEFINE n == task[t].name
           memory == [cargo EXCEPT !.fresh = @ \union {n}]
           etag == IF registry.etag THEN server[n] ELSE UnknownVersion
<1>1. Loading(t) /\ task[t].at = "request"
  BY DEF Response, TaskAt, Loading
<1>2. sparse
  BY <1>1 DEF XInv, LoadInv, sparse
<1>3. task[t] \in QueryType /\ n \in Name
  BY <1>1, LoadingTyped DEF XInv
<1>4. task[t].cached.versions \in Int /\ server[n] \in Nat /\ etag \in Int
  <2>1. task[t].cached.versions \in Int
    BY <1>3, Zenon DEF QueryType, Cached
  <2>2. server[n] \in Nat
    BY <1>3 DEF XInv, XTypeOK
  <2> QED
    BY <2>1, <2>2 DEF UnknownVersion
<1>5. /\ memory \in CargoType
      /\ memory.inflight = cargo.inflight /\ memory.summaries = cargo.summaries
      /\ memory.began = cargo.began /\ memory.asked = cargo.asked /\ memory.fresh = cargo.fresh \union {n}
      /\ memory.requested_update = cargo.requested_update /\ memory.updated = cargo.updated
  BY <1>3 DEF XInv, XTypeOK, CargoType
<1>6. ~offline => cargo.began[n] <= server[n]
  BY <1>3 DEF XInv, UpdateInv
<1>7. CASE server[n] = 0 /\ NotFound(t, memory)
  <2>1. Loaded(t, memory, 0) /\ cache' = [cache EXCEPT ![n] = NoCache]
    BY <1>7 DEF NotFound
  <2>2. cache' \in [Name -> Cached] /\ (~offline => \A m \in Name : Coherent(cache'[m]))
    BY <2>1, CacheGone, Zenon DEF XInv, CacheInv
  <2>3. LoadsFile(t, memory, 0)
    BY <1>5, <1>6, <1>7, <2>1, <2>2 DEF LoadsFile, None
  <2> QED
    BY <1>1, <1>5, <2>3, Zenon
<1>8. CASE server[n] # 0 /\ registry.etag /\ task[t].cached.version = etag /\ CacheValid(t, memory)
  <2>1. ~offline => task[t].cached.versions = server[n]
    BY <1>1, <1>2, <1>4, <1>8 DEF XInv, CacheInv, Coherent, None
  <2>2. cache' \in [Name -> Cached] /\ (~offline => \A m \in Name : Coherent(cache'[m]))
    BY <1>8 DEF CacheValid, XInv, XTypeOK, CacheInv
  <2>3. LoadsFile(t, memory, task[t].cached.versions)
    BY <1>4, <1>5, <1>6, <1>8, <2>1, <2>2 DEF CacheValid, LoadsFile, None
  <2> QED
    BY <1>1, <1>5, <2>3, Zenon
<1>9. CASE server[n] # 0 /\ Data(t, memory, server[n], etag)
  <2>1. cache' \in [Name -> Cached] /\ (~offline => \A m \in Name : Coherent(cache'[m]))
    BY <1>2, <1>4, <1>9, CacheWritten DEF XInv, CacheInv, git, sparse
  <2>2. LoadsFile(t, memory, server[n])
    BY <1>4, <1>5, <1>6, <1>9, <2>1 DEF Data, LoadsFile, None
  <2> QED
    BY <1>1, <1>5, <2>2, Zenon
<1>10. \/ server[n] = 0 /\ NotFound(t, memory)
       \/ server[n] # 0 /\ registry.etag /\ task[t].cached.version = etag /\ CacheValid(t, memory)
       \/ server[n] # 0 /\ Data(t, memory, server[n], etag)
  BY DEF Response
<1> QED
  BY <1>7, <1>8, <1>9, <1>10

\* A git registry is fetched when an update was asked for, and then has what it had when
\* cargo started.
LEMMA GitLoads ==
  ASSUME XInv, \A r \in Registry : ~r.torn, NEW t \in Task, GitLoad(t)
  PROVE  /\ Loading(t) /\ git
         /\ \E memory, versions :
              /\ LoadsFile(t, memory, versions) /\ memory.requested_update = FALSE
              /\ memory.updated \in BOOLEAN
              /\ ~offline => /\ cargo.asked => memory.updated
                             /\ memory.updated => \A n \in Name : cargo.began[n] <= git_index'[n]
         /\ git_index' \in [Name -> Nat]
<1> DEFINE n == task[t].name
           updates == ~cargo.updated /\ (cargo.requested_update \/ git_index[n] = 0)
           index == IF updates /\ ~offline THEN server ELSE git_index
           memory == [cargo EXCEPT !.requested_update = FALSE, !.updated = @ \/ updates]
<1>1. Loading(t) /\ task[t].at = "git" /\ git_index' = index
  BY DEF GitLoad, TaskAt, Loading
<1>2. git
  BY <1>1 DEF XInv, LoadInv, git
<1>3. task[t] \in QueryType /\ n \in Name
  BY <1>1, LoadingTyped DEF XInv
<1>4. index \in [Name -> Nat]
  BY DEF XInv, XTypeOK
<1>5. task[t].cached.versions \in Int /\ index[n] \in Nat
  BY <1>3, <1>4, Zenon DEF QueryType, Cached
<1>6. PICK b \in BOOLEAN : b = (cargo.updated \/ updates)
  BY Zenon
<1>7. memory = [cargo EXCEPT !.requested_update = FALSE, !.updated = b]
  BY <1>6 DEF XInv, XTypeOK, CargoType
<1>8. /\ memory \in CargoType
      /\ memory.inflight = cargo.inflight /\ memory.summaries = cargo.summaries
      /\ memory.began = cargo.began /\ memory.asked = cargo.asked /\ memory.fresh = cargo.fresh
      /\ memory.requested_update = FALSE /\ memory.updated = b
  BY <1>7, Zenon DEF XInv, XTypeOK, CargoType
<1>9. ~offline => /\ cargo.asked => b
                  /\ b => \A m \in Name : cargo.began[m] <= index[m]
  BY <1>2, <1>6, Zenon DEF XInv, UpdateInv
<1>10. ~offline /\ Asked => cargo.began[n] <= index[n]
  BY <1>2, <1>3, <1>9 DEF Asked, git
<1>11. ~sparse
  BY <1>2 DEF git, sparse
<1>12. \/ index[n] = 0 /\ NotFound(t, memory)
       \/ index[n] # 0 /\ task[t].cached.version = index[n] /\ CacheValid(t, memory)
       \/ index[n] # 0 /\ Data(t, memory, index[n], index[n])
  BY DEF GitLoad
<1> HIDE DEF memory, index, updates
<1>13. \E versions : LoadsFile(t, memory, versions)
  <2>1. CASE index[n] = 0 /\ NotFound(t, memory)
    <3>1. Loaded(t, memory, 0) /\ cache' = [cache EXCEPT ![n] = NoCache]
      BY <2>1 DEF NotFound
    <3>2. cache' \in [Name -> Cached] /\ (~offline => \A m \in Name : Coherent(cache'[m]))
      BY <3>1, CacheGone, Zenon DEF XInv, CacheInv
    <3>3. LoadsFile(t, memory, 0)
      BY <1>8, <1>10, <1>11, <2>1, <3>1, <3>2 DEF LoadsFile
    <3> QED
      BY <3>3
  <2>2. CASE index[n] # 0 /\ task[t].cached.version = index[n] /\ CacheValid(t, memory)
    <3>1. ~offline => task[t].cached.versions = index[n]
      BY <1>1, <1>2, <1>5, <2>2 DEF XInv, CacheInv, Coherent, None
    <3>2. cache' \in [Name -> Cached] /\ (~offline => \A m \in Name : Coherent(cache'[m]))
      BY <2>2 DEF CacheValid, XInv, XTypeOK, CacheInv
    <3>3. LoadsFile(t, memory, task[t].cached.versions)
      BY <1>5, <1>8, <1>10, <1>11, <2>2, <3>1, <3>2 DEF CacheValid, LoadsFile
    <3> QED
      BY <3>3
  <2>3. CASE index[n] # 0 /\ Data(t, memory, index[n], index[n])
    <3>1. cache' \in [Name -> Cached] /\ (~offline => \A m \in Name : Coherent(cache'[m]))
      BY <1>5, <2>3, CacheWritten DEF XInv, CacheInv
    <3>2. LoadsFile(t, memory, index[n])
      BY <1>5, <1>8, <1>10, <1>11, <2>3, <3>1 DEF Data, LoadsFile
    <3> QED
      BY <3>2
  <2> QED
    BY <1>12, <2>1, <2>2, <2>3
<1> QED
  BY <1>1, <1>2, <1>4, <1>8, <1>9, <1>13

\* A load that ends keeps all but what is said of updates.
LEMMA FileLoaded ==
  ASSUME XInv, NEW t \in Task, Loading(t), NEW memory, NEW versions, LoadsFile(t, memory, versions),
         UNCHANGED <<registry, server>>, git_index' \in [Name -> Nat]
  PROVE  XTypeOK' /\ LoadInv' /\ (~offline => CacheInv' /\ FreshInv' /\ AnswerInv')
<1>1. XTypeOK /\ LoadInv
  BY DEF XInv
<1>2. task[t].name \in Name
  BY <1>1, LoadingTyped
<1>3. /\ memory \in CargoType /\ versions \in Int /\ Loaded(t, memory, versions)
      /\ memory.inflight = cargo.inflight
  BY DEF LoadsFile
<1>4. cargo' \in CargoType
  BY <1>2, <1>3, LoadedMemory, Zenon
<1>5. task' \in [Task -> QueryType \union {Idle}]
  BY <1>1, <1>3, LoadedQueries
<1>6. XTypeOK'
  BY <1>1, <1>4, <1>5 DEF XTypeOK, LoadsFile
<1>7. LoadInv' /\ \A u \in Task : Loading(u)' => u # t /\ Loading(u) /\ task'[u] = task[u]
  BY <1>1, <1>3, LoadedLoads
<1>8. ASSUME ~offline PROVE CacheInv'
  <2>1. \A n \in Name : Coherent(cache[n])'
    BY <1>8 DEF LoadsFile, Coherent, git, sparse
  <2>2. \A u \in Task : Loading(u)' => Coherent(task[u].cached)'
    BY <1>7, <1>8 DEF XInv, CacheInv, Coherent, git, sparse
  <2> QED
    BY <2>1, <2>2 DEF CacheInv
<1>9. ASSUME ~offline PROVE FreshInv' /\ AnswerInv'
  <2>1. FreshInv /\ AnswerInv
    BY <1>9 DEF XInv
  <2> QED
    BY <1>1, <1>3, <1>9, <2>1, LoadedAnswers DEF LoadsFile
<1> QED
  BY <1>6, <1>7, <1>8, <1>9

\* And those too when the memory says the same of them.
LEMMA FileUpdated ==
  ASSUME XInv, NEW t \in Task, Loading(t), NEW memory, NEW versions, LoadsFile(t, memory, versions),
         memory.requested_update = cargo.requested_update, memory.updated = cargo.updated,
         UNCHANGED <<registry, server, git_index>>
  PROVE  XInv'
<1>1. task[t].name \in Name
  BY LoadingTyped DEF XInv
<1>2. /\ cargo'.began = cargo.began /\ cargo'.asked = cargo.asked
      /\ cargo'.requested_update = cargo.requested_update /\ cargo'.updated = cargo.updated
  BY <1>1, LoadedMemory, Zenon DEF LoadsFile
<1>3. ~offline => UpdateInv'
  BY <1>2 DEF XInv, UpdateInv, sparse, git
<1>4. git_index' \in [Name -> Nat]
  BY DEF XInv, XTypeOK
<1> QED
  BY <1>3, <1>4, FileLoaded DEF XInv, offline

\* GitRegistry::load.
LEMMA GitLoadKeeps ==
  ASSUME XInv, \A r \in Registry : ~r.torn, NEW t \in Task, GitLoad(t)
  PROVE  XInv'
<1>1. PICK memory, versions : /\ LoadsFile(t, memory, versions) /\ memory.requested_update = FALSE
                              /\ memory.updated \in BOOLEAN
                              /\ ~offline => /\ cargo.asked => memory.updated
                                             /\ memory.updated => \A n \in Name : cargo.began[n] <= git_index'[n]
  BY GitLoads, Zenon
<1>2. Loading(t) /\ git /\ git_index' \in [Name -> Nat]
  BY GitLoads, Zenon
<1>3. UNCHANGED <<registry, server>>
  BY DEF GitLoad, world
<1>4. task[t].name \in Name
  BY <1>2, LoadingTyped DEF XInv
<1>5. cargo'.began = cargo.began /\ cargo'.asked = cargo.asked /\ cargo'.updated = memory.updated
  BY <1>1, <1>4, LoadedMemory, Zenon DEF LoadsFile
<1>6. ~offline => UpdateInv'
  BY <1>1, <1>2, <1>3, <1>5 DEF XInv, UpdateInv, sparse, git
<1> QED
  BY <1>1, <1>2, <1>3, <1>6, FileLoaded DEF XInv, offline

\* A step of one query that loads nothing.
SameMemory ==
  /\ cargo' \in CargoType
  /\ cargo'.inflight = cargo.inflight /\ cargo'.summaries = cargo.summaries /\ cargo'.began = cargo.began
  /\ cargo'.asked = cargo.asked /\ cargo'.requested_update = cargo.requested_update
  /\ cargo'.updated = cargo.updated /\ cargo'.fresh \subseteq cargo.fresh \union {ConfigFile}

\* A step of one query that changes no file and no summaries.
LEMMA OneQuery ==
  ASSUME XInv, NEW t \in Task, task' \in [Task -> QueryType \union {Idle}],
         \A u \in Task \ {t} : task'[u] = task[u], SameMemory,
         UNCHANGED <<registry, server, git_index, cache>>,
         Loading(t)' => /\ Loading(t) /\ task'[t].name = task[t].name /\ task'[t].cached = task[t].cached
                        /\ {task[t].at, task'[t].at} \intersect {"git", "local"} = {},
         ~offline /\ task'[t].at # "idle" /\ task'[t].update =>
           /\ Asked
           /\ task'[t].at \in {"answer", "woken"} => cargo.began[task'[t].name] <= task'[t].cached.versions
  PROVE  XInv'
<1>1. XTypeOK'
  BY DEF XInv, XTypeOK, SameMemory
<1>2. LoadInv'
  <2>1. \A u \in Task : Loading(u)' => Loading(u) /\ task'[u].name = task[u].name
    BY Zenon DEF Loading
  <2>2. \A u \in Task : Loading(u)' => task'[u].name \in cargo'.inflight
    BY <2>1 DEF XInv, LoadInv, SameMemory
  <2>3. \A u, v \in Task : Loading(u)' /\ Loading(v)' /\ task'[u].name = task'[v].name => u = v
    BY <2>1 DEF XInv, LoadInv
  <2>4. ASSUME NEW u \in Task, Loading(u)'
        PROVE  registry'.kind = CASE task'[u].at = "git" -> "git" [] task'[u].at = "local" -> "local" [] OTHER -> "sparse"
    BY <2>1, <2>4, Zenon DEF XInv, LoadInv
  <2> QED
    BY <2>2, <2>3, <2>4 DEF LoadInv
<1>3. ASSUME ~offline PROVE CacheInv'
  <2>1. \A n \in Name : Coherent(cache[n])'
    BY <1>3 DEF XInv, CacheInv, Coherent, git, sparse
  <2>2. \A u \in Task : Loading(u)' => Loading(u) /\ task'[u].cached = task[u].cached
    BY Zenon DEF Loading
  <2>3. \A u \in Task : Loading(u)' => Coherent(task[u].cached)'
    BY <1>3, <2>2 DEF XInv, CacheInv, Coherent, git, sparse
  <2> QED
    BY <2>1, <2>3 DEF CacheInv
<1>4. ASSUME ~offline PROVE UpdateInv'
  BY <1>4 DEF XInv, UpdateInv, SameMemory, git, sparse
<1>5. ASSUME ~offline PROVE FreshInv'
  BY <1>5, NamesTyped DEF XInv, FreshInv, SameMemory, sparse
<1>6. ASSUME ~offline PROVE AnswerInv'
  <2>1. Asked' <=> Asked
    BY DEF Asked, SameMemory
  <2>2. AnswerInv
    BY <1>6 DEF XInv
  <2>3. \A u \in Task : task'[u].at # "idle" /\ task'[u].update =>
          /\ Asked
          /\ task'[u].at \in {"answer", "woken"} => cargo'.began[task'[u].name] <= task'[u].cached.versions
    BY <1>6, <2>2 DEF AnswerInv, SameMemory
  <2> QED
    BY <2>1, <2>2, <2>3 DEF AnswerInv, SameMemory
<1> QED
  BY <1>1, <1>2, <1>3, <1>4, <1>5, <1>6 DEF XInv, offline

Ats == {"summaries", "await", "woken", "answer", "answered", "config", "fetch config", "fetch", "request", "git", "local"}
GoTo(q, pc) == [q EXCEPT !.at = pc]

\* A query that only goes on.
LEMMA QueryGoes ==
  ASSUME NEW q \in QueryType, NEW pc \in Ats
  PROVE  /\ GoTo(q, pc) \in QueryType /\ GoTo(q, pc).at = pc
         /\ GoTo(q, pc).name = q.name /\ GoTo(q, pc).update = q.update /\ GoTo(q, pc).cached = q.cached
BY Zenon DEF GoTo, QueryType, Ats

\* A query goes on, where it does not begin to load.
LEMMA QueryMoves ==
  ASSUME XInv, NEW t \in Task, NEW pc \in Ats, task[t].at # "idle", Go(t, pc), SameMemory,
         UNCHANGED <<registry, server, git_index, cache>>,
         pc \in {"answered", "await"} \/ (Loading(t) /\ {task[t].at, pc} \intersect {"git", "local", "answer", "woken"} = {})
  PROVE  XInv'
<1>1. task[t] \in QueryType
  BY QueryTyped DEF XInv
<1>2. task' = [task EXCEPT ![t] = GoTo(task[t], pc)]
  BY DEF Go, GoTo
<1>3. /\ task'[t] \in QueryType /\ task'[t].at = pc /\ task'[t].name = task[t].name
      /\ task'[t].update = task[t].update /\ task'[t].cached = task[t].cached
      /\ \A u \in Task \ {t} : task'[u] = task[u]
      /\ task' \in [Task -> QueryType \union {Idle}]
  BY <1>1, <1>2, QueryGoes DEF XInv, XTypeOK
<1>4. ~offline /\ task[t].update => Asked
  BY DEF XInv, AnswerInv
<1> QED
  BY <1>3, <1>4, OneQuery, Zenon DEF Loading

\* A query begins.
LEMMA QueryBegins ==
  ASSUME XInv, NEW t \in Task, NEW n \in Name, NEW want \in 0 .. MaxVersion, Query(t, n, want)
  PROVE  XInv'
<1>1. PICK first \in BOOLEAN : first = (want # 0 /\ ~IsUpdated)
  BY Zenon
<1>2. PICK update \in BOOLEAN : update = Asked
  BY Zenon DEF Asked
<1> DEFINE q == [at |-> "summaries", name |-> n, want |-> want, cached |-> NoCache,
                 first |-> first, update |-> update]
<1>3. task' = [task EXCEPT ![t] = q] /\ UNCHANGED <<cargo, registry, server, git_index, cache>>
  BY <1>1, <1>2 DEF Query, Asked, disk, world
<1>4. q \in QueryType
  BY BoundsNatural DEF QueryType, Cached, NoCache, None
<1>5. task'[t] = q /\ task' \in [Task -> QueryType \union {Idle}] /\ \A u \in Task \ {t} : task'[u] = task[u]
  BY <1>3, <1>4 DEF XInv, XTypeOK
<1>6. SameMemory
  BY <1>3 DEF SameMemory, XInv, XTypeOK
<1>7. ~Loading(t)' /\ task'[t].at \notin {"answer", "woken"} /\ (task'[t].update => Asked)
  BY <1>2, <1>5, SMTT(30) DEF Loading
<1> QED
  BY <1>3, <1>5, <1>6, <1>7, OneQuery

\* The summaries are there.
LEMMA KnownKeeps ==
  ASSUME XInv, NEW t \in Task, Known(t)
  PROVE  XInv'
<1> DEFINE n == task[t].name
           q == With(task[t], "answer", cargo.summaries[n])
<1>1. task[t].at = "summaries" /\ cargo.summaries[n] # None /\ UNCHANGED <<cargo, registry, server, git_index, cache>>
  BY DEF Known, TaskAt, disk, world
<1>2. task[t] \in QueryType /\ n \in Name
  BY <1>1, QueryTyped, Zenon DEF XInv, QueryType
<1>3. cargo.summaries[n] \in Int
  BY <1>2 DEF XInv, XTypeOK, CargoType
<1>4. q \in QueryType /\ q.at = "answer" /\ q.name = n /\ q.update = task[t].update /\ q.cached.versions = cargo.summaries[n]
  BY <1>2, <1>3, QueryWith
<1>5. task' = [task EXCEPT ![t] = q]
  BY Zenon DEF Known, With
<1>6. task'[t] = q /\ task' \in [Task -> QueryType \union {Idle}] /\ \A u \in Task \ {t} : task'[u] = task[u]
  BY <1>4, <1>5 DEF XInv, XTypeOK
<1>7. SameMemory
  BY <1>1 DEF SameMemory, XInv, XTypeOK
<1>8. ~offline /\ task[t].update => Asked /\ cargo.began[n] <= cargo.summaries[n]
  BY <1>1, <1>2 DEF XInv, AnswerInv
<1>9. ~Loading(t)'
  BY <1>4, <1>6, Zenon DEF Loading
<1> QED
  BY <1>1, <1>4, <1>6, <1>7, <1>8, <1>9, OneQuery

\* Another query loads the file.
LEMMA AwaitKeeps ==
  ASSUME XInv, NEW t \in Task, Await(t)
  PROVE  XInv'
<1>1. task[t].at = "summaries" /\ Go(t, "await") /\ UNCHANGED <<cargo, registry, server, git_index, cache>>
  BY DEF Await, TaskAt, disk, world
<1>2. SameMemory
  BY <1>1 DEF SameMemory, XInv, XTypeOK
<1> QED
  BY <1>1, <1>2, QueryMoves, Zenon DEF Ats

\* config.json is there, or has to be fetched.
LEMMA ConfigKeeps ==
  ASSUME XInv, NEW t \in Task, Config(t)
  PROVE  XInv'
<1>1. task[t].at = "config" /\ UNCHANGED <<registry, server, git_index, cache>>
  BY Zenon DEF Config, TaskAt, disk, world
<1>2. registry.auth \in BOOLEAN /\ cargo.auth_required \in BOOLEAN
  BY RegistryTyped DEF XInv, XTypeOK, CargoType
<1>3. PICK auth \in BOOLEAN, lock \in BOOLEAN, config \in BOOLEAN :
        cargo' = [cargo EXCEPT !.config = config, !.config_lock = lock, !.auth_required = auth]
  <2>1. cargo \in CargoType
    BY DEF XInv, XTypeOK
  <2>2. PICK a1 \in BOOLEAN : a1 = (cargo.auth_required \/ registry.auth)
    BY Zenon
  <2>3. PICK a2 \in BOOLEAN : a2 = (cargo.auth_required \/ (config_json = "valid" /\ registry.auth))
    BY Zenon
  <2>4. \/ cargo' = [cargo EXCEPT !.config = TRUE, !.auth_required = a1]
        \/ cargo' = [cargo EXCEPT !.config_lock = TRUE, !.auth_required = a2]
    BY <2>2, <2>3, Zenon DEF Config
  <2>5. CASE cargo' = [cargo EXCEPT !.config = TRUE, !.auth_required = a1]
    <3>1. cargo' = [cargo EXCEPT !.config = TRUE, !.config_lock = cargo.config_lock, !.auth_required = a1]
      BY <2>1, <2>5, Zenon DEF CargoType
    <3> QED
      BY <2>1, <3>1, Zenon DEF CargoType
  <2>6. CASE cargo' = [cargo EXCEPT !.config_lock = TRUE, !.auth_required = a2]
    <3>1. cargo' = [cargo EXCEPT !.config = cargo.config, !.config_lock = TRUE, !.auth_required = a2]
      BY <2>1, <2>6, Zenon DEF CargoType
    <3> QED
      BY <2>1, <3>1, Zenon DEF CargoType
  <2> QED
    BY <2>4, <2>5, <2>6, Zenon
<1>4. SameMemory
  BY <1>3, Zenon DEF SameMemory, XInv, XTypeOK, CargoType
<1>5. PICK pc \in {"fetch", "fetch config"} : Go(t, pc)
  BY Zenon DEF Config
<1> QED
  BY <1>1, <1>4, <1>5, QueryMoves, Zenon DEF Ats, Loading

\* config.json is fetched.
LEMMA FetchConfigKeeps ==
  ASSUME XInv, NEW t \in Task, FetchConfig(t)
  PROVE  XInv'
<1>1. task[t].at = "fetch config" /\ UNCHANGED <<registry, server, git_index, cache>>
  BY Zenon DEF FetchConfig, TaskAt, world
<1>2. PICK auth \in BOOLEAN : auth = (cargo.auth_required \/ registry.auth)
  BY Zenon
<1>3. cargo \in CargoType
  BY DEF XInv, XTypeOK
<1>4. CASE cargo' = [cargo EXCEPT !.auth_required = TRUE, !.fresh = @ \union {ConfigFile}] /\ UNCHANGED task
  <2>1. SameMemory
    BY <1>3, <1>4, Zenon DEF SameMemory, CargoType
  <2>2. task[t].at \notin {"idle", "answer", "woken", "git", "local"} /\ task' \in [Task -> QueryType \union {Idle}]
    BY <1>1, <1>4, Zenon DEF XInv, XTypeOK
  <2>3. ~offline /\ task[t].update => Asked
    BY <2>2 DEF XInv, AnswerInv
  <2> QED
    BY <1>1, <1>4, <2>1, <2>2, <2>3, OneQuery, Zenon DEF Loading
<1>5. CASE /\ cargo' = [cargo EXCEPT !.config = TRUE, !.config_lock = FALSE, !.auth_required = auth,
                                     !.fresh = @ \union {ConfigFile}]
           /\ Go(t, "fetch")
  <2>1. SameMemory
    BY <1>3, <1>5, Zenon DEF SameMemory, CargoType
  <2> QED
    BY <1>1, <1>5, <2>1, QueryMoves, Zenon DEF Ats, Loading
<1> QED
  BY <1>2, <1>4, <1>5, Zenon DEF FetchConfig

\* The loads that leave alone what was asked for.
LEMMA LoadsKeep ==
  ASSUME XInv, \A r \in Registry : ~r.torn, NEW t \in Task,
         NoConfig(t) \/ SparseFetch(t) \/ Response(t) \/ LocalLoad(t)
  PROVE  XInv'
<1>1. UNCHANGED <<registry, server, git_index>>
  BY Zenon DEF NoConfig, SparseFetch, Response, LocalLoad, world, disk
<1>2. CASE NoConfig(t)
  <2>1. PICK memory, versions : /\ LoadsFile(t, memory, versions)
                                /\ memory.requested_update = cargo.requested_update
                                /\ memory.updated = cargo.updated
    BY <1>2, NoConfigLoads, Zenon
  <2> QED
    BY <1>1, <1>2, <2>1, NoConfigLoads, FileUpdated
<1>3. CASE Response(t)
  <2>1. PICK memory, versions : /\ LoadsFile(t, memory, versions)
                                /\ memory.requested_update = cargo.requested_update
                                /\ memory.updated = cargo.updated
    BY <1>3, ResponseLoads, Zenon
  <2> QED
    BY <1>1, <1>3, <2>1, ResponseLoads, FileUpdated
<1>4. CASE LocalLoad(t)
  BY <1>1, <1>4, LocalLoads, FileUpdated
<1>5. CASE SparseFetch(t)
  <2>1. CASE Go(t, "request") /\ UNCHANGED <<cargo, cache>>
    <3>1. SameMemory
      BY <2>1 DEF SameMemory, XInv, XTypeOK
    <3>2. Loading(t) /\ task[t].at = "fetch"
      BY <1>5, SparseLoads
    <3> QED
      BY <1>1, <2>1, <3>1, <3>2, QueryMoves, Zenon DEF Ats
  <2>2. CASE \E memory, versions : LoadsFile(t, memory, versions) /\ memory = cargo
    BY <1>1, <1>5, <2>2, SparseLoads, FileUpdated
  <2> QED
    BY <1>5, <2>1, <2>2, SparseLoads
<1> QED
  BY <1>2, <1>3, <1>4, <1>5

\* A request fails.
LEMMA FailureKeeps ==
  ASSUME XInv, NEW t \in Task, RequestFails(t)
  PROVE  XInv'
<1>1. cargo' = [cargo EXCEPT !.failed = TRUE] /\ UNCHANGED <<task, registry, server, git_index, cache>>
  BY Zenon DEF RequestFails, disk, world
<1>2. task[t].at \in {"request", "fetch config", "git"}
  BY Zenon DEF RequestFails, TaskAt
<1>3. SameMemory
  BY <1>1, Zenon DEF SameMemory, XInv, XTypeOK, CargoType
<1>4. XTypeOK'
  BY <1>1, <1>3 DEF XInv, XTypeOK, SameMemory
<1>5. LoadInv'
  BY <1>1, <1>3, Zenon DEF XInv, LoadInv, Loading, SameMemory
<1>6. ASSUME ~offline PROVE CacheInv' /\ UpdateInv' /\ FreshInv' /\ AnswerInv'
  <2>1. CacheInv /\ UpdateInv /\ FreshInv /\ AnswerInv
    BY <1>6 DEF XInv
  <2>2. CacheInv'
    BY <1>1, <2>1, Zenon DEF CacheInv, Coherent, Loading, git, sparse
  <2>3. UpdateInv'
    BY <1>1, <1>3, <2>1 DEF UpdateInv, SameMemory, git, sparse
  <2>4. FreshInv'
    BY <1>1, <1>3, <2>1, NamesTyped DEF FreshInv, SameMemory, sparse
  <2>5. AnswerInv'
    BY <1>1, <1>3, <2>1 DEF AnswerInv, Asked, SameMemory
  <2> QED
    BY <2>2, <2>3, <2>4, <2>5
<1> QED
  BY <1>1, <1>4, <1>5, <1>6 DEF XInv, offline

\* A version is published: cargo had less when it started.
LEMMA PublishKeeps ==
  ASSUME XInv, NEW n \in Name, Publishes(n)
  PROVE  XInv'
<1>1. server' = [server EXCEPT ![n] = @ + 1] /\ UNCHANGED <<registry, cache, git_index, cargo, task>>
  BY DEF Publishes
<1>2. server' \in [Name -> Nat] /\ \A m \in Name : server[m] <= server'[m]
  BY <1>1 DEF XInv, XTypeOK
<1>3. XTypeOK' /\ LoadInv'
  BY <1>1, <1>2, Zenon DEF XInv, XTypeOK, LoadInv, Loading
<1>4. ASSUME ~offline PROVE CacheInv' /\ UpdateInv' /\ FreshInv' /\ AnswerInv'
  <2>1. CacheInv /\ UpdateInv /\ FreshInv /\ AnswerInv
    BY <1>4 DEF XInv
  <2>2. CacheInv' /\ FreshInv'
    BY <1>1, <2>1, Zenon DEF CacheInv, FreshInv, Coherent, Loading, git, sparse
  <2>3. cargo.began \in [Name -> Nat] /\ server \in [Name -> Nat]
    BY DEF XInv, XTypeOK, CargoType
  <2>4. UpdateInv'
    BY <1>1, <1>2, <2>1, <2>3 DEF UpdateInv, git, sparse
  <2>5. AnswerInv'
    BY <1>1, <2>1 DEF AnswerInv, Asked
  <2> QED
    BY <2>2, <2>4, <2>5
<1> QED
  BY <1>1, <1>3, <1>4 DEF XInv, offline

LoadFrom(q, pc, file) == [q EXCEPT !.cached = file, !.at = pc]

\* A query that reads its cache file.
LEMMA QueryLoads ==
  ASSUME NEW q \in QueryType, NEW pc \in Ats, NEW file \in Cached
  PROVE  /\ LoadFrom(q, pc, file) \in QueryType /\ LoadFrom(q, pc, file).at = pc
         /\ LoadFrom(q, pc, file).name = q.name /\ LoadFrom(q, pc, file).update = q.update
         /\ LoadFrom(q, pc, file).cached = file
BY Zenon DEF LoadFrom, QueryType, Ats

\* load_summaries reads the cache file.
LEMMA LoadKeeps ==
  ASSUME XInv, NEW t \in Task, Load(t)
  PROVE  XInv'
<1> DEFINE n == task[t].name
           pc == CASE sparse -> "config" [] git -> "git" [] OTHER -> "local"
           q == LoadFrom(task[t], pc, cache[n])
<1>1. /\ task[t].at = "summaries" /\ cargo.summaries[n] = None /\ n \notin cargo.inflight
      /\ cargo' = [cargo EXCEPT !.inflight = @ \union {n}]
      /\ UNCHANGED <<registry, server, git_index, cache>>
  BY DEF Load, TaskAt, disk, world
<1>2. task[t] \in QueryType /\ n \in Name /\ cargo \in CargoType /\ cache[n] \in Cached
  BY <1>1, QueryTyped, Zenon DEF XInv, XTypeOK, QueryType
<1>3. pc \in {"config", "git", "local"} /\ registry.kind = CASE pc = "git" -> "git" [] pc = "local" -> "local" [] OTHER -> "sparse"
  BY RegistryTyped DEF XInv, XTypeOK, sparse, git
<1>4. q \in QueryType /\ q.at = pc /\ q.name = n /\ q.update = task[t].update /\ q.cached = cache[n]
  <2>1. pc \in Ats
    BY <1>3 DEF Ats
  <2> HIDE DEF pc
  <2> QED
    BY <1>2, <2>1, QueryLoads
<1>5. task' = [task EXCEPT ![t] = q]
  <2>1. task' = [task EXCEPT ![t].cached = cache[n], ![t].at = pc]
    BY DEF Load
  <2>2. task \in [Task -> QueryType \union {Idle}]
    BY DEF XInv, XTypeOK
  <2> HIDE DEF pc, n
  <2> QED
    BY <2>1, <2>2, Zenon DEF LoadFrom
<1> HIDE DEF q, pc
<1>6. task'[t] = q /\ task' \in [Task -> QueryType \union {Idle}] /\ \A u \in Task \ {t} : task'[u] = task[u]
  BY <1>4, <1>5 DEF XInv, XTypeOK
<1>7. /\ cargo' \in CargoType /\ cargo'.inflight = cargo.inflight \union {n}
      /\ cargo'.summaries = cargo.summaries /\ cargo'.began = cargo.began /\ cargo'.asked = cargo.asked
      /\ cargo'.requested_update = cargo.requested_update /\ cargo'.updated = cargo.updated
      /\ cargo'.fresh = cargo.fresh
  BY <1>1, <1>2 DEF CargoType
<1>8. XTypeOK'
  BY <1>1, <1>6, <1>7 DEF XInv, XTypeOK
<1>9. LoadInv'
  <2>1. \A u \in Task \ {t} : Loading(u)' => Loading(u) /\ task'[u].name # n
    BY <1>1, <1>6, Zenon DEF Loading, XInv, LoadInv
  <2>2. \A u \in Task : Loading(u)' => task'[u].name \in cargo'.inflight
    BY <1>4, <1>6, <1>7, <2>1 DEF XInv, LoadInv
  <2>3. \A u, v \in Task : Loading(u)' /\ Loading(v)' /\ task'[u].name = task'[v].name => u = v
    <3>1. ASSUME NEW u \in Task, NEW v \in Task, Loading(u)', Loading(v)', task'[u].name = task'[v].name
          PROVE  u = v
      <4>1. CASE u # t /\ v # t
        BY <1>6, <2>1, <3>1, <4>1 DEF XInv, LoadInv
      <4>2. CASE u = t \/ v = t
        BY <1>4, <1>6, <2>1, <3>1, <4>2
      <4> QED
        BY <4>1, <4>2
    <3> QED
      BY <3>1
  <2>4. ASSUME NEW u \in Task, Loading(u)'
        PROVE  registry'.kind = CASE task'[u].at = "git" -> "git" [] task'[u].at = "local" -> "local" [] OTHER -> "sparse"
    BY <1>1, <1>3, <1>4, <1>6, <2>1, <2>4 DEF XInv, LoadInv
  <2> QED
    BY <2>2, <2>3, <2>4 DEF LoadInv
<1>10. ASSUME ~offline PROVE CacheInv' /\ UpdateInv' /\ FreshInv' /\ AnswerInv'
  <2>1. CacheInv /\ UpdateInv /\ FreshInv /\ AnswerInv
    BY <1>10 DEF XInv
  <2>2. \A m \in Name : Coherent(cache[m])'
    BY <1>1, <2>1 DEF CacheInv, Coherent, git, sparse
  <2>3. ASSUME NEW u \in Task, Loading(u)' PROVE Coherent(task[u].cached)'
    <3>1. CASE u = t
      BY <1>2, <1>4, <1>6, <2>2, <1>1, <3>1 DEF Coherent
    <3>2. CASE u # t
      BY <1>1, <1>6, <2>1, <2>3, <3>2, Zenon DEF CacheInv, Coherent, Loading, git, sparse
    <3> QED
      BY <3>1, <3>2
  <2>4. UpdateInv'
    BY <1>1, <1>7, <2>1 DEF UpdateInv, git, sparse
  <2>5. FreshInv'
    BY <1>1, <1>7, <2>1 DEF FreshInv, sparse
  <2>6. AnswerInv'
    <3>1. \A u \in Task : task'[u].at # "idle" /\ task'[u].update =>
            /\ Asked
            /\ task'[u].at \in {"answer", "woken"} => cargo.began[task'[u].name] <= task'[u].cached.versions
      BY <1>1, <1>3, <1>4, <1>6, <2>1 DEF AnswerInv
    <3> QED
      BY <1>1, <1>7, <2>1, <3>1 DEF AnswerInv, Asked
  <2> QED
    BY <2>2, <2>3, <2>4, <2>5, <2>6 DEF CacheInv
<1> QED
  BY <1>1, <1>8, <1>9, <1>10 DEF XInv, offline

LookAgain(q) == [q EXCEPT !.at = "summaries", !.first = FALSE, !.update = TRUE, !.cached = NoCache]

\* A query that looks for its locked version again.
LEMMA QueryAgain ==
  ASSUME NEW q \in QueryType
  PROVE  LookAgain(q) \in QueryType /\ LookAgain(q).at = "summaries"
<1>1. NoCache \in Cached
  BY DEF NoCache, None, Cached
<1> QED
  BY <1>1, Zenon DEF LookAgain, QueryType

\* A query is answered, or asks for an update: then the summaries go, and none of those
\* loaded before is taken for fresh.
LEMMA AnswerKeeps ==
  ASSUME XInv, NEW t \in Task, Answer(t)
  PROVE  XInv'
<1>1. task[t].at \in {"answer", "woken"} /\ UNCHANGED <<registry, server, git_index, cache>>
  BY DEF Answer, TaskAt, disk, world
<1>2. task[t] \in QueryType /\ cargo \in CargoType
  BY <1>1, QueryTyped DEF XInv, XTypeOK
<1>3. CASE Go(t, "answered") /\ UNCHANGED cargo
  <2>1. SameMemory
    BY <1>2, <1>3 DEF SameMemory
  <2> QED
    BY <1>1, <1>3, <2>1, QueryMoves, Zenon DEF Ats
<1>4. CASE Invalidate /\ task' = [task EXCEPT ![t] = LookAgain(task[t])]
  <2>1. task'[t].at = "summaries" /\ task' \in [Task -> QueryType \union {Idle}] /\ \A u \in Task \ {t} : task'[u] = task[u]
    BY <1>2, <1>4, QueryAgain DEF XInv, XTypeOK
  <2>2. /\ cargo' \in CargoType /\ cargo'.summaries = [n \in Name |-> None]
        /\ cargo'.inflight = cargo.inflight /\ cargo'.began = cargo.began /\ cargo'.asked /\ cargo'.requested_update
        /\ cargo'.updated = cargo.updated /\ (sparse => cargo'.fresh = {})
    <3>1. PICK fresh \in SUBSET (Name \union {ConfigFile}) : fresh = IF sparse THEN {} ELSE cargo.fresh
      BY <1>2, Zenon DEF CargoType
    <3>2. cargo' = [cargo EXCEPT !.summaries = [n \in Name |-> None], !.fresh = fresh,
                                 !.requested_update = TRUE, !.asked = TRUE]
      BY <1>4, <3>1 DEF Invalidate
    <3>3. [n \in Name |-> None] \in [Name -> Int]
      BY DEF None
    <3> QED
      BY <1>2, <3>1, <3>2, <3>3, Zenon DEF CargoType
  <2>3. \A u \in Task : Loading(u)' => u # t /\ Loading(u) /\ task'[u] = task[u]
    BY <2>1, Zenon DEF Loading
  <2>4. XTypeOK'
    BY <1>1, <2>1, <2>2 DEF XInv, XTypeOK
  <2>5. LoadInv'
    BY <1>1, <2>2, <2>3 DEF XInv, LoadInv
  <2>6. ASSUME ~offline PROVE CacheInv' /\ UpdateInv' /\ FreshInv' /\ AnswerInv'
    <3>1. CacheInv /\ UpdateInv /\ AnswerInv
      BY <2>6 DEF XInv
    <3>2. CacheInv'
      BY <1>1, <2>3, <3>1 DEF CacheInv, Coherent, git, sparse
    <3>3. UpdateInv'
      BY <1>1, <2>2, <3>1 DEF UpdateInv, git, sparse
    <3>4. FreshInv'
      BY <1>1, <2>2 DEF FreshInv, sparse
    <3>5. \A u \in Task : task'[u].at \in {"answer", "woken"} /\ task'[u].update =>
            cargo'.began[task'[u].name] <= task'[u].cached.versions
      BY <2>1, <2>2, <3>1 DEF AnswerInv
    <3>6. AnswerInv'
      BY <2>2, <3>5 DEF AnswerInv, Asked
    <3> QED
      BY <3>2, <3>3, <3>4, <3>6
  <2> QED
    BY <1>1, <2>4, <2>5, <2>6 DEF XInv, offline
<1> QED
  BY <1>3, <1>4, Zenon DEF Answer, LookAgain

Starts ==
  /\ registry \in Registry /\ server \in [Name -> Nat] /\ git_index \in [Name -> Nat] /\ cache \in [Name -> Cached]
  /\ task = [t \in Task |-> Idle]
  /\ \E precise \in BOOLEAN : cargo = NewCargo(precise)
  /\ ~offline => \A n \in Name : Coherent(cache[n])

\* The invariant holds when a cargo starts, with any cache that is coherent.
LEMMA CargoStarts == Starts => XInv
<1> SUFFICES ASSUME Starts PROVE XInv
  OBVIOUS
<1> USE DEF Starts
<1>0. PICK precise \in BOOLEAN : cargo = NewCargo(precise)
  OBVIOUS
<1>1. PICK update \in BOOLEAN : update = ~precise
  BY Zenon
<1>2. cargo = [summaries |-> [n \in Name |-> None], inflight |-> {}, fresh |-> {},
               requested_update |-> update, asked |-> update, updated |-> FALSE,
               config |-> FALSE, config_lock |-> FALSE, auth_required |-> FALSE, failed |-> FALSE,
               began |-> server]
  BY <1>0, <1>1, Zenon DEF NewCargo
<1>3. [n \in Name |-> None] \in [Name -> Int]
  BY DEF None
<1>4. cargo \in CargoType
  BY <1>2, <1>3 DEF CargoType
<1>5. XTypeOK
  BY <1>4 DEF XTypeOK
<1>6. \A t \in Task : task[t].at = "idle"
  BY DEF Idle
<1>7. offline \/ (CacheInv /\ FreshInv /\ AnswerInv)
  <2>1. offline \/ CacheInv
    BY <1>6, Zenon DEF CacheInv, Loading
  <2>2. FreshInv
    BY <1>2, SMTT(30) DEF FreshInv
  <2>3. AnswerInv
    BY <1>2, <1>6 DEF AnswerInv
  <2> QED
    BY <2>1, <2>2, <2>3
<1>8. LoadInv
  BY <1>6, Zenon DEF LoadInv, Loading
<1>9. UpdateInv
  BY <1>2 DEF UpdateInv
<1> QED
  BY <1>5, <1>7, <1>8, <1>9 DEF XInv

\* The next cargo starts with what the last one left on disk.
LEMMA RestartKeeps ==
  ASSUME XInv, Restart
  PROVE  XInv'
<1>1. PICK precise \in BOOLEAN : cargo' = NewCargo(precise)
  BY DEF Restart
<1>2. task' = [t \in Task |-> Idle] /\ UNCHANGED <<registry, server, git_index, cache>>
  BY SMTT(30) DEF Restart
<1>3. cargo' = NewCargo(precise)'
  BY <1>1, <1>2 DEF NewCargo
<1>4. /\ registry' \in Registry /\ server' \in [Name -> Nat] /\ git_index' \in [Name -> Nat]
      /\ cache' \in [Name -> Cached]
  BY <1>2 DEF XInv, XTypeOK
<1>5. ~offline' => \A n \in Name : Coherent(cache[n])'
  BY <1>2 DEF XInv, CacheInv, Coherent, git, sparse, offline
<1>6. Starts'
  BY <1>2, <1>3, <1>4, <1>5 DEF Starts
<1> QED
  BY <1>6, CargoStarts, PTL

\* The invariant of the index: loads are exclusive, the cache is coherent, what was asked for
\* is under way, and nothing stale is kept, when every cache file is written as a whole.
THEOREM IndexInvariant ==
  ASSUME \A r \in Registry : ~r.torn
  PROVE  XSpec => []XInv
<1>1. XInit => XInv
  <2> SUFFICES ASSUME XInit PROVE XInv
    OBVIOUS
  <2>1. server \in [Name -> Nat] /\ git_index \in [Name -> Nat] /\ cache \in [Name -> Cached]
    BY NamesTyped DEF XInit, NoCache, None, Cached
  <2>2. \A n \in Name : Coherent(cache[n])
    BY DEF XInit, NoCache, Coherent
  <2> QED
    BY <2>1, <2>2, CargoStarts DEF XInit, Starts
<1>2. XInv /\ [XNext]_rvars => XInv'
  <2> SUFFICES ASSUME XInv, [XNext]_rvars PROVE XInv'
    OBVIOUS
  <2>1. CASE UNCHANGED rvars
    <3>1. XTypeOK' /\ LoadInv'
      BY <2>1, Zenon DEF rvars, XInv, XTypeOK, LoadInv, Loading
    <3>2. CacheInv' <=> CacheInv
      BY <2>1 DEF rvars, CacheInv, Coherent, Loading, git, sparse
    <3>3. (UpdateInv' <=> UpdateInv) /\ (FreshInv' <=> FreshInv)
      BY <2>1 DEF rvars, UpdateInv, FreshInv, git, sparse
    <3>4. AnswerInv' <=> AnswerInv
      BY <2>1 DEF rvars, AnswerInv, Asked
    <3> QED
      BY <2>1, <3>1, <3>2, <3>3, <3>4 DEF XInv, rvars, offline
  <2>2. CASE Restart
    BY <2>2, RestartKeeps
  <2>3. CASE \E n \in Name : Publishes(n)
    BY <2>3, PublishKeeps
  <2>4. CASE \E t \in Task, n \in Name, want \in 0 .. MaxVersion : Query(t, n, want)
    BY <2>4, QueryBegins
  <2>5. ASSUME NEW t \in Task, QueryStep(t) \/ RequestFails(t) PROVE XInv'
    <3>1. CASE RequestFails(t)
      BY <3>1, FailureKeeps
    <3>2. CASE Known(t)
      BY <3>2, KnownKeeps
    <3>3. CASE Await(t)
      BY <3>3, AwaitKeeps
    <3>4. CASE Load(t)
      BY <3>4, LoadKeeps
    <3>5. CASE Answer(t)
      BY <3>5, AnswerKeeps
    <3>6. CASE Config(t)
      BY <3>6, ConfigKeeps
    <3>7. CASE FetchConfig(t)
      BY <3>7, FetchConfigKeeps
    <3>8. CASE NoConfig(t) \/ SparseFetch(t) \/ Response(t) \/ LocalLoad(t)
      BY <3>8, LoadsKeep
    <3>9. CASE GitLoad(t)
      BY <3>9, GitLoadKeeps
    <3> QED
      BY <2>5, <3>1, <3>2, <3>3, <3>4, <3>5, <3>6, <3>7, <3>8, <3>9 DEF QueryStep
  <2> QED
    BY <2>1, <2>2, <2>3, <2>4, <2>5 DEF XNext
<1> QED
  BY <1>1, <1>2, PTL DEF XSpec

\* A query answered after an update was asked for tells all versions the registry had when cargo
\* started (RegistrySource::query, HttpRegistry::sparse_fetch, GitRegistry::load), in registries of
\* every kind, for any number of queries, crates and cargos.
THEOREM IndexFresh ==
  ASSUME \A r \in Registry : ~r.torn
  PROVE  XSpec => AnswersAreFresh
<1>1. ASSUME XInv, [XNext]_rvars, NEW t \in Task, Answer(t), task[t].update, ~offline
      PROVE  task[t].cached.versions >= cargo.began[task[t].name]
  <2>1. task[t].at \in {"answer", "woken"}
    BY <1>1 DEF Answer, TaskAt
  <2>2. task[t] \in QueryType /\ cargo \in CargoType
    BY <1>1, <2>1, QueryTyped DEF XInv, XTypeOK
  <2>3. task[t].cached.versions \in Int /\ task[t].name \in Name
    BY <2>2, Zenon DEF QueryType, Cached
  <2>4. cargo.began[task[t].name] \in Int
    BY <2>2, <2>3 DEF CargoType
  <2>5. cargo.began[task[t].name] <= task[t].cached.versions
    BY <1>1, <2>1 DEF XInv, AnswerInv
  <2> QED
    BY <2>3, <2>4, <2>5
<1>2. XInv /\ [XNext]_rvars =>
        [\A t \in Task : Answer(t) /\ task'[t].at = "answered" /\ task[t].update /\ ~offline
           => task[t].cached.versions >= cargo.began[task[t].name]]_rvars
  BY <1>1
<1>3. XSpec => []XInv
  BY IndexInvariant
<1> QED
  BY <1>2, <1>3, PTL DEF XSpec, AnswersAreFresh

-----------------------------------------------------------------------------
(***************************************************************************)
(* No caller of the HTTP client is forgotten, for any number of them, and  *)
(* none is given up for a time without work.                               *)
(***************************************************************************)

FetchType == [at : {"start", "sent", "sleep", "ok", "error"}, retries : 0 .. MaxRetries, left : Nat]
HTypeOK ==
  /\ fetch \in [Fetch -> FetchType]
  /\ incoming_work \subseteq Fetch /\ handles \subseteq Fetch
  /\ window = [age |-> window.age, bytes |-> window.bytes]
  /\ window.age \in Nat /\ busy \in Nat

\* A caller that waits for its answer has its request in the channel or with curl, in one of
\* them, and curl has none while the worker waits for work.
CallersKept ==
  /\ \A f \in Fetch : fetch[f].at = "sent" <=> f \in incoming_work \union handles
  /\ incoming_work \intersect handles = {}
  /\ worker \in {"recv", "stopped"} => handles = {}

\* The low speed window is not older than the work.
WindowAge == worker \notin {"recv", "stopped"} => window.age <= busy

HInv == HTypeOK /\ CallersKept /\ WindowAge

\* An answer ends the wait of its caller.
LEMMA TriedAnswers ==
  ASSUME NEW r \in FetchType, NEW result
  PROVE  Tried(r, result) \in FetchType /\ Tried(r, result).at # "sent"
<1>1. r.retries \in 0 .. MaxRetries /\ MaxRetries \in Nat
  BY HttpNatural DEF FetchType
<1>2. r.retries < MaxRetries => r.retries + 1 \in 0 .. MaxRetries
  BY <1>1
<1>3. CASE Tried(r, result) = [r EXCEPT !.at = "ok"] \/ Tried(r, result) = [r EXCEPT !.at = "error"]
  BY <1>3 DEF FetchType
<1>4. CASE r.retries < MaxRetries /\ Tried(r, result) = [r EXCEPT !.at = "sleep", !.retries = @ + 1]
  BY <1>2, <1>4, Zenon DEF FetchType
<1> QED
  BY <1>3, <1>4 DEF Tried

\* Some requests are answered, and leave curl or the channel.
LEMMA SomeAnswered ==
  ASSUME HInv, NEW answered \in SUBSET Fetch,
         fetch' \in [Fetch -> FetchType],
         \A f \in Fetch : fetch'[f].at = "sent" <=> fetch[f].at = "sent" /\ f \notin answered,
         incoming_work' \union handles' = (incoming_work \union handles) \ answered,
         incoming_work' \intersect handles' = {}, worker' \in {"recv", "stopped"} => handles' = {}
  PROVE  CallersKept'
BY DEF HInv, HTypeOK, CallersKept

\* Every transfer fails, and its caller is told so.
LEMMA FailingKeeps ==
  ASSUME HInv, NEW result, FailAndDrain(result), UNCHANGED incoming_work
  PROVE  /\ fetch' \in [Fetch -> FetchType] /\ handles' = {}
         /\ CallersKept'
<1>1. fetch \in [Fetch -> FetchType] /\ handles \subseteq Fetch
  BY DEF HInv, HTypeOK
<1>2. fetch' = [f \in Fetch |-> IF f \in handles THEN Tried(fetch[f], result) ELSE fetch[f]] /\ handles' = {}
  BY DEF FailAndDrain
<1>3. \A f \in Fetch : fetch'[f] = IF f \in handles THEN Tried(fetch[f], result) ELSE fetch[f]
  BY <1>2
<1>4. \A f \in Fetch : fetch'[f] \in FetchType /\ (fetch'[f].at = "sent" <=> fetch[f].at = "sent" /\ f \notin handles)
  BY <1>1, <1>3, TriedAnswers
<1>5. fetch' \in [Fetch -> FetchType]
  BY <1>2, <1>4
<1> QED
  BY <1>1, <1>2, <1>4, <1>5, SomeAnswered DEF HInv, CallersKept

\* A request is sent to the worker.
LEMMA RequestKeeps ==
  ASSUME HInv, NEW f \in Fetch, Request(f)
  PROVE  HInv'
<1>1. PICK size \in 0 .. BodySize : fetch' = [fetch EXCEPT ![f].at = "sent", ![f].left = size]
  BY Zenon DEF Request
<1>2. /\ fetch[f].at # "sent" /\ worker # "stopped" /\ incoming_work' = incoming_work \union {f}
      /\ UNCHANGED <<handles, worker, window, busy>>
  BY DEF Request
<1> DEFINE r == [fetch[f] EXCEPT !.at = "sent", !.left = size]
<1>3. fetch \in [Fetch -> FetchType] /\ size \in Nat
  BY HttpNatural DEF HInv, HTypeOK
<1>4. r \in FetchType /\ r.at = "sent"
  BY <1>3, Zenon DEF FetchType
<1>5. fetch' = [fetch EXCEPT ![f] = r]
  BY <1>1, <1>3, Zenon
<1>6. fetch' \in [Fetch -> FetchType] /\ fetch'[f].at = "sent" /\ \A g \in Fetch \ {f} : fetch'[g] = fetch[g]
  BY <1>3, <1>4, <1>5
<1>7. CallersKept'
  BY <1>2, <1>6 DEF HInv, CallersKept
<1> QED
  BY <1>2, <1>6, <1>7 DEF HInv, HTypeOK, WindowAge

\* The worker takes the requests from its channel.
LEMMA DrainKeeps ==
  ASSUME HInv, Drain
  PROVE  HInv'
<1>1. PICK refused \in SUBSET incoming_work :
        /\ handles' = handles \union (incoming_work \ refused)
        /\ fetch' = [f \in Fetch |-> IF f \in refused THEN Tried(fetch[f], "fatal") ELSE fetch[f]]
  BY DEF Drain
<1>2. worker = "drain" /\ incoming_work' = {} /\ worker' = "perform" /\ UNCHANGED <<window, busy>>
  BY DEF Drain
<1>3. fetch \in [Fetch -> FetchType] /\ refused \subseteq Fetch
  BY DEF HInv, HTypeOK
<1>4. \A f \in Fetch : fetch'[f] = IF f \in refused THEN Tried(fetch[f], "fatal") ELSE fetch[f]
  BY <1>1
<1>5. \A f \in Fetch : fetch'[f] \in FetchType /\ (fetch'[f].at = "sent" <=> fetch[f].at = "sent" /\ f \notin refused)
  BY <1>3, <1>4, TriedAnswers
<1>6. fetch' \in [Fetch -> FetchType]
  BY <1>1, <1>5
<1>7. incoming_work' \union handles' = (incoming_work \union handles) \ refused
  BY <1>1, <1>2 DEF HInv, CallersKept
<1>8. CallersKept'
  BY <1>2, <1>3, <1>5, <1>6, <1>7, SomeAnswered, Zenon
<1> QED
  BY <1>1, <1>2, <1>6, <1>8 DEF HInv, HTypeOK, WindowAge

\* curl moves data, and ends transfers.
LEMMA PerformKeeps ==
  ASSUME HInv, NEW moved \in SUBSET Fetch, NEW done \in SUBSET Fetch, NEW result, Perform(moved, done, result)
  PROVE  HInv'
<1>1. /\ worker = "perform" /\ done \subseteq handles \ moved /\ handles' = handles \ done
      /\ moved \subseteq {f \in handles : fetch[f].left > 0}
      /\ worker' = IF handles' = {} THEN "recv" ELSE "check"
      /\ UNCHANGED <<incoming_work, busy>>
  BY DEF Perform
<1>2. PICK bytes : window' = [window EXCEPT !.bytes = bytes]
  BY Zenon DEF Perform
<1>3. fetch \in [Fetch -> FetchType]
  BY DEF HInv, HTypeOK
<1>4. \A f \in Fetch : fetch'[f] = IF f \in done THEN Tried(fetch[f], result)
                                   ELSE IF f \in moved THEN [fetch[f] EXCEPT !.left = @ - 1] ELSE fetch[f]
  BY <1>1 DEF Perform
<1>5. \A f \in moved : [fetch[f] EXCEPT !.left = @ - 1] \in FetchType /\ [fetch[f] EXCEPT !.left = @ - 1].at = fetch[f].at
  BY <1>1, <1>3 DEF FetchType
<1>6. ASSUME NEW f \in Fetch
      PROVE  fetch'[f] \in FetchType /\ (fetch'[f].at = "sent" <=> fetch[f].at = "sent" /\ f \notin done)
  <2>1. CASE f \in done
    BY <1>3, <1>4, <2>1, TriedAnswers, Zenon
  <2>2. CASE f \in moved
    BY <1>1, <1>4, <1>5, <2>2, Zenon
  <2>3. CASE f \notin done \union moved
    BY <1>3, <1>4, <2>3, Zenon
  <2> QED
    BY <2>1, <2>2, <2>3
<1>7. fetch' \in [Fetch -> FetchType]
  BY <1>6, SMTT(30) DEF Perform
<1>8. CallersKept'
  BY <1>1, <1>6, <1>7, SomeAnswered DEF HInv, CallersKept
<1>9. window' = [age |-> window'.age, bytes |-> window'.bytes] /\ window'.age = window.age
  BY <1>2 DEF HInv, HTypeOK
<1> QED
  BY <1>1, <1>7, <1>8, <1>9 DEF HInv, HTypeOK, WindowAge

\* curl fails, the transfers are too slow, or all goes well.
LEMMA FailuresKeep ==
  ASSUME HInv, PerformFails \/ TooSlow \/ Wait \/ FastEnough
  PROVE  HInv'
<1>1. NewWindow = [age |-> NewWindow.age, bytes |-> NewWindow.bytes] /\ NewWindow.age = 0
  BY DEF NewWindow
<1>2. (window' = NewWindow \/ window' = window) /\ worker \notin {"recv", "stopped"} /\ UNCHANGED <<incoming_work, busy>>
  BY DEF PerformFails, TooSlow, Wait, FastEnough
<1>3. /\ window' = [age |-> window'.age, bytes |-> window'.bytes]
      /\ window'.age \in Nat /\ WindowAge'
  BY <1>1, <1>2 DEF HInv, HTypeOK, WindowAge
<1>4. (\E result : FailAndDrain(result)) \/ (UNCHANGED <<fetch, handles>> /\ worker' \notin {"recv", "stopped"})
  BY DEF PerformFails, TooSlow, Wait, FastEnough
<1>5. fetch' \in [Fetch -> FetchType] /\ handles' \subseteq Fetch /\ CallersKept'
  <2>1. CASE \E result : FailAndDrain(result)
    BY <1>2, <2>1, FailingKeeps, SMTT(30)
  <2>2. CASE UNCHANGED <<fetch, handles>> /\ worker' \notin {"recv", "stopped"}
    BY <1>2, <2>2 DEF HInv, HTypeOK, CallersKept
  <2> QED
    BY <1>4, <2>1, <2>2
<1> QED
  BY <1>2, <1>3, <1>5 DEF HInv, HTypeOK

\* Time passes.
LEMMA TimeKeeps ==
  ASSUME HInv, TimePasses
  PROVE  HInv'
<1>1. window' = [window EXCEPT !.age = Later(window.age)] /\ UNCHANGED <<fetch, incoming_work, handles, worker>>
  BY DEF TimePasses
<1>2. worker # "recv" => busy' = Later(busy)
  BY DEF TimePasses
<1>3. busy' \in Nat
  BY HttpNatural DEF TimePasses, HInv, HTypeOK, Later
<1>4. window' = [age |-> window'.age, bytes |-> window'.bytes] /\ window'.age = Later(window.age)
  BY <1>1 DEF HInv, HTypeOK
<1>5. Later(window.age) \in Nat /\ (window.age <= busy => Later(window.age) <= Later(busy))
  BY HttpNatural DEF Later, HInv, HTypeOK
<1>6. CallersKept' /\ WindowAge'
  BY <1>1, <1>2, <1>4, <1>5 DEF HInv, CallersKept, WindowAge
<1> QED
  BY <1>1, <1>3, <1>4, <1>5, <1>6 DEF HInv, HTypeOK

\* The worker, without work, waits for a request.
LEMMA RecvKeeps ==
  ASSUME HInv, NEW f \in Fetch, Recv(f)
  PROVE  HInv'
<1>1. /\ worker = "recv" /\ f \in incoming_work /\ incoming_work' = incoming_work \ {f}
      /\ window' = NewWindow /\ busy' = 0 /\ worker' = "drain" /\ handles' \subseteq Fetch
  BY DEF Recv
<1>2. fetch' \in [Fetch -> FetchType] /\ CallersKept'
  <2>1. CASE handles' = {f} /\ UNCHANGED fetch
    BY <1>1, <2>1 DEF HInv, HTypeOK, CallersKept
  <2>2. CASE handles' = {} /\ fetch' = [fetch EXCEPT ![f] = Tried(fetch[f], "fatal")]
    <3>1. fetch \in [Fetch -> FetchType] /\ Tried(fetch[f], "fatal") \in FetchType
          /\ Tried(fetch[f], "fatal").at # "sent"
      BY TriedAnswers DEF HInv, HTypeOK
    <3>2. fetch' \in [Fetch -> FetchType] /\ \A g \in Fetch : fetch'[g].at = "sent" <=> fetch[g].at = "sent" /\ g \notin {f}
      BY <2>2, <3>1
    <3>3. incoming_work' \union handles' = (incoming_work \union handles) \ {f}
      BY <1>1, <2>2 DEF HInv, CallersKept
    <3>4. {f} \in SUBSET Fetch /\ incoming_work' \intersect handles' = {} /\ worker' \notin {"recv", "stopped"}
      BY <1>1, <2>2
    <3>5. CallersKept'
      BY <3>2, <3>3, <3>4, SomeAnswered, Zenon
    <3> QED
      BY <3>2, <3>5
  <2> QED
    BY <2>1, <2>2 DEF Recv
<1> QED
  BY <1>1, <1>2 DEF HInv, HTypeOK, WindowAge, NewWindow

\* No caller is forgotten between the channel and curl, its retries are bounded, and the low speed
\* window is not older than the work the worker has (WorkerServer::worker_loop), for any number of
\* callers.
THEOREM HttpInvariant == HFairSpec => []HInv
<1>1. HInit => HInv
  <2> SUFFICES ASSUME HInit PROVE HInv
    OBVIOUS
  <2>1. [at |-> "start", retries |-> 0, left |-> 0] \in FetchType
    BY HttpNatural DEF FetchType
  <2>2. fetch \in [Fetch -> FetchType] /\ \A f \in Fetch : fetch[f].at = "start"
    BY <2>1 DEF HInit
  <2> QED
    BY <2>2 DEF HInit, HInv, HTypeOK, CallersKept, WindowAge
<1>2. HInv /\ [HNext]_hvars => HInv'
  <2> SUFFICES ASSUME HInv, [HNext]_hvars PROVE HInv'
    OBVIOUS
  <2>1. CASE UNCHANGED hvars
    BY <2>1 DEF hvars, HInv, HTypeOK, CallersKept, WindowAge
  <2>2. CASE ClientDrop
    BY <2>2 DEF ClientDrop, HInv, HTypeOK, CallersKept, WindowAge
  <2>3. CASE TimePasses
    BY <2>3, TimeKeeps
  <2>4. CASE \E f \in Fetch : Request(f)
    BY <2>4, RequestKeeps
  <2>5. CASE WorkerStep
    BY <2>5, DrainKeeps, FailuresKeep, RecvKeeps, PerformKeeps DEF WorkerStep
  <2> QED
    BY <2>1, <2>2, <2>3, <2>4, <2>5 DEF HNext
<1> QED
  BY <1>1, <1>2, PTL DEF HFairSpec

\* Transfers are given up as too slow only when the worker has had work for as long as the timeout
\* (check_low_speed_timeout, and the window that WorkerServer::worker_loop starts anew).
THEOREM HttpSlow == HFairSpec => SlowOnlyWhenBusy
<1>1. HInv /\ [HNext]_hvars => [TooSlow => busy >= Timeout]_hvars
  BY HttpNatural DEF HInv, HTypeOK, WindowAge, TooSlow
<1>2. HFairSpec => []HInv
  BY HttpInvariant
<1> QED
  BY <1>1, <1>2, PTL DEF HFairSpec, SlowOnlyWhenBusy
=============================================================================
