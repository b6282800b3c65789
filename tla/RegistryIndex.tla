---------------------------- MODULE RegistryIndex ----------------------------
(***************************************************************************)
(* The index of a registry (sources/registry: mod.rs, index/, http_remote, *)
(* git_remote, local): queries that run concurrently in one cargo, the     *)
(* summaries they share, the files fetched over HTTP or git, and the cache *)
(* on disk that the next cargo starts from.  The registry publishes        *)
(* meanwhile, requests fail, cargo is killed.                              *)
(*                                                                         *)
(* An index file is the number of versions in it, 0 when there is none.    *)
(***************************************************************************)
EXTENDS Integers, FiniteSets

CONSTANTS
  Name,        \* crates
  Task,        \* queries that one cargo runs at the same time, numbered as they begin
  Published,   \* versions to start from: functions from Name to Nat
  Registry,    \* kinds of registries, as records: see RegistryTyped
  Downloaded,  \* versions whose .crate file is there
  MaxVersion, MaxPublished, MaxRuns \* bounds: versions, publications, cargos

None == -1
ConfigFile == "config.json"

ASSUME RegistryTyped == \A r \in Registry :
  /\ r.kind \in {"sparse", "git", "local"}
  /\ {r.etag, r.auth, r.offline, r.torn} \subseteq BOOLEAN
ASSUME BoundsNatural == {MaxVersion, MaxPublished, MaxRuns} \subseteq Nat
ASSUME NamesTyped == Published \subseteq [Name -> Nat] /\ ConfigFile \notin Name

VARIABLES
  registry,         \* the kind of this registry
  server,           \* [Name -> versions published]
  config_json,      \* the file next to the cache: "absent", "valid"
  cache,            \* [Name -> index cache file: its index version, and what can be read of it]
  git_index,        \* [Name -> versions] in the local repository of a git registry
  cargo,            \* memory of the cargo that runs
  task,             \* [Task -> the state of the query]
  published, runs   \* counters for the bounds

rvars == <<registry, server, config_json, cache, git_index, cargo, task, published, runs>>

sparse == registry.kind = "sparse"
git == registry.kind = "git"
offline == registry.offline

NoCache == [version |-> None, versions |-> None]
\* What a server without validators sends, and http_remote::UNKNOWN.
UnknownVersion == 0

Idle == [at |-> "idle"]

\* A cargo: its source was loaded with a precise version, or asks for an update at once
\* (PackageRegistry::load).  Whether it has asked for one is kept in `asked`.
NewCargo(precise) ==
  [summaries |-> [n \in Name |-> None], inflight |-> {}, fresh |-> {},
   requested_update |-> ~precise, asked |-> ~precise, updated |-> FALSE,
   config |-> FALSE, config_lock |-> FALSE, auth_required |-> FALSE, failed |-> FALSE,
   began |-> server]

XInit ==
  /\ registry \in Registry
  /\ server \in Published
  /\ config_json = "absent"
  /\ cache = [n \in Name |-> NoCache]
  /\ git_index = [n \in Name |-> 0]
  /\ \E precise \in BOOLEAN : cargo = NewCargo(precise)
  /\ task = [t \in Task |-> Idle]
  /\ published = 0 /\ runs = 1

\* The registry adds a version.
Publishes(n) ==
  /\ published < MaxPublished /\ server[n] < MaxVersion
  /\ server' = [server EXCEPT ![n] = @ + 1]
  /\ published' = published + 1
  /\ UNCHANGED <<registry, config_json, cache, git_index, cargo, task, runs>>

\* cargo ends, or is killed at any point, and the next one starts.
Restart ==
  /\ runs < MaxRuns
  /\ runs' = runs + 1
  /\ \E precise \in BOOLEAN : cargo' = NewCargo(precise)
  /\ task' = [t \in Task |-> Idle]
  /\ UNCHANGED <<registry, server, config_json, cache, git_index, published>>
-----------------------------------------------------------------------------
(* RegistryIndex and Summaries. *)

\* One thread runs the queries: another one goes on only where this one waits.
TaskTurn(t) == ~cargo.failed /\ \A u \in Task \ {t} :
  task[u].at \notin {"summaries", "answer", "fetch", "git", "local"}
TaskAt(t, pc) == task[t].at = pc /\ TaskTurn(t)
Go(t, pc) == task' = [task EXCEPT ![t].at = pc]
disk == <<config_json, cache, git_index>>
world == <<registry, server, published, runs>>

IsUpdated == CASE sparse -> cargo.requested_update [] git -> cargo.updated [] OTHER -> TRUE

\* RegistrySource::query: a locked version is first looked for without an update.
Query(t, n, want) ==
  /\ TaskAt(t, "idle") /\ \A u \in Task : u < t => task[u].at # "idle"
  /\ task' = [task EXCEPT ![t] = [at |-> "summaries", name |-> n, want |-> want, cached |-> NoCache,
       first |-> want # 0 /\ ~IsUpdated, update |-> cargo.asked \/ registry.kind = "local"]]
  /\ UNCHANGED <<cargo, disk, world>>

\* load_summaries: known already, awaited from another query, or to be loaded; then
\* the cache file is read first.
Known(t) ==
  /\ TaskAt(t, "summaries") /\ cargo.summaries[task[t].name] # None
  /\ task' = [task EXCEPT ![t].at = "answer", ![t].cached.versions = cargo.summaries[task[t].name]]
  /\ UNCHANGED <<cargo, disk, world>>

Await(t) ==
  /\ TaskAt(t, "summaries") /\ cargo.summaries[task[t].name] = None
  /\ task[t].name \in cargo.inflight
  /\ Go(t, "await")
  /\ UNCHANGED <<cargo, disk, world>>

Load(t) ==
  /\ TaskAt(t, "summaries") /\ cargo.summaries[task[t].name] = None
  /\ task[t].name \notin cargo.inflight
  /\ cargo' = [cargo EXCEPT !.inflight = @ \union {task[t].name}]
  /\ task' = [task EXCEPT ![t].cached = cache[task[t].name],
       ![t].at = CASE sparse -> "config" [] git -> "git" [] OTHER -> "local"]
  /\ UNCHANGED <<disk, world>>

\* The summaries are kept, and handed to all that wait for them.
Loaded(t, memory, versions) ==
  LET n == task[t].name IN
  /\ cargo' = [memory EXCEPT !.inflight = @ \ {n}, !.summaries[n] = versions]
  /\ task' = [u \in Task |->
       CASE u = t -> [task[u] EXCEPT !.at = "answer", !.cached.versions = versions]
         [] task[u].at = "await" /\ task[u].name = n -> [task[u] EXCEPT !.at = "woken", !.cached.versions = versions]
         [] OTHER -> task[u]]

\* Summaries::parse, for each LoadResponse: the cache file as it was read; no file, and
\* its cache goes; a file, to parse and to cache, which may fail, or leave a part.
CacheValid(t, memory) == Loaded(t, memory, task[t].cached.versions) /\ UNCHANGED cache
NotFound(t, memory) == Loaded(t, memory, 0) /\ cache' = [cache EXCEPT ![task[t].name] = NoCache]
Data(t, memory, versions, index_version) ==
  /\ Loaded(t, memory, versions)
  /\ cache' \in {cache} \union {[cache EXCEPT ![task[t].name] = [version |-> index_version, versions |-> part]] :
                                 part \in IF registry.torn THEN 0 .. versions ELSE {versions}}

\* Mutant: the summaries loaded so far stay.
InvalidateKeepsSummaries == cargo' = [cargo EXCEPT !.fresh = IF sparse THEN {} ELSE @,
                                                  !.requested_update = TRUE, !.asked = TRUE]

\* RegistrySource::invalidate_cache.
Invalidate ==
  cargo' = [cargo EXCEPT !.summaries = [n \in Name |-> None],
                         !.fresh = IF sparse THEN {} ELSE @,
                         !.requested_update = TRUE, !.asked = TRUE]

\* query_inner: offline, versions that are downloaded come first.
Found(t) == LET matching == {v \in 1 .. task[t].cached.versions : task[t].want \in {0, v}} IN
  IF offline /\ matching \intersect Downloaded # {} THEN matching \intersect Downloaded ELSE matching

\* The query is answered, or the locked version is looked for again after an update.
Answer(t) ==
  /\ TaskAt(t, "answer") \/ TaskAt(t, "woken")
  /\ IF task[t].first /\ Found(t) = {}
     THEN /\ Invalidate
          /\ task' = [task EXCEPT ![t].at = "summaries", ![t].first = FALSE,
                                  ![t].update = TRUE, ![t].cached = NoCache]
     ELSE /\ Go(t, "answered")
          /\ UNCHANGED cargo
  /\ UNCHANGED <<disk, world>>
-----------------------------------------------------------------------------
(* HttpRegistry. *)

IsFresh(file) == ~cargo.requested_update \/ offline \/ file \in cargo.fresh

\* config_opt, under its lock: config.json of this cargo, or of an earlier one.
Config(t) ==
  /\ TaskAt(t, "config") /\ ~cargo.config_lock
  /\ IF IsFresh(ConfigFile) /\ (cargo.config \/ config_json = "valid")
     THEN Go(t, "fetch") /\ cargo' = [cargo EXCEPT !.config = TRUE, !.auth_required = @ \/ registry.auth]
     ELSE Go(t, "fetch config") /\ cargo' = [cargo EXCEPT !.config_lock = TRUE,
            !.auth_required = @ \/ (config_json = "valid" /\ registry.auth)]
  /\ UNCHANGED <<disk, world>>

\* config_opt_inner: without the network there is none, and then no file is found.
NoConfig(t) ==
  /\ TaskAt(t, "fetch config") /\ offline
  /\ NotFound(t, [cargo EXCEPT !.config_lock = FALSE])
  /\ UNCHANGED <<config_json, git_index, world>>

\* The first request is refused when the registry wants a token; it is sent again.
FetchConfig(t) ==
  /\ TaskAt(t, "fetch config") /\ ~offline
  /\ IF registry.auth /\ ~cargo.auth_required
     THEN /\ cargo' = [cargo EXCEPT !.auth_required = TRUE, !.fresh = @ \union {ConfigFile}]
          /\ UNCHANGED <<task, config_json>>
     ELSE /\ cargo' = [cargo EXCEPT !.config = TRUE, !.config_lock = FALSE,
                         !.auth_required = @ \/ registry.auth, !.fresh = @ \union {ConfigFile}]
          /\ Go(t, "fetch")
          /\ config_json' \in {config_json, "absent", "valid"}
  /\ UNCHANGED <<cache, git_index, world>>

\* sparse_fetch, up to the request.
SparseFetch(t) ==
  /\ TaskAt(t, "fetch")
  /\ LET n == task[t].name
         cached == task[t].cached.version # None
     IN  CASE cached /\ IsFresh(n) -> CacheValid(t, cargo)
           [] ~cached /\ (n \in cargo.fresh \/ offline) -> NotFound(t, cargo)
           [] OTHER -> Go(t, "request") /\ UNCHANGED <<cargo, cache>>
  /\ UNCHANGED <<config_json, git_index, world>>

\* fetch_uncached: the server compares the version it is sent with its own, if it has
\* versions at all.
Response(t) ==
  /\ TaskAt(t, "request")
  /\ LET n == task[t].name
         etag == IF registry.etag THEN server[n] ELSE UnknownVersion
         fetched == [cargo EXCEPT !.fresh = @ \union {n}]
     IN  CASE server[n] = 0 -> NotFound(t, fetched)
           [] server[n] # 0 /\ registry.etag /\ task[t].cached.version = etag -> CacheValid(t, fetched)
           [] OTHER -> Data(t, fetched, server[n], etag)
  /\ UNCHANGED <<config_json, git_index, world>>

\* A request fails for good: the error ends the resolution, and with it every query.
RequestFails(t) ==
  /\ \/ (TaskAt(t, "request") \/ TaskAt(t, "fetch config")) /\ ~offline
     \/ TaskAt(t, "git") /\ ~offline /\ ~cargo.updated
  /\ cargo' = [cargo EXCEPT !.failed = TRUE]
  /\ UNCHANGED <<task, disk, world>>
-----------------------------------------------------------------------------
(* GitRegistry and LocalRegistry. *)

\* GitRegistry::load: the repository is fetched when asked for or when the file is not
\* there, once; the cache is valid for the hash of the file.
GitLoad(t) ==
  /\ TaskAt(t, "git")
  /\ LET n == task[t].name
         updates == ~cargo.updated /\ (cargo.requested_update \/ git_index[n] = 0)
         index == IF updates /\ ~offline THEN server ELSE git_index
         memory == [cargo EXCEPT !.requested_update = FALSE, !.updated = @ \/ updates]
     IN  /\ git_index' = index
         /\ CASE index[n] = 0 -> NotFound(t, memory)
              [] index[n] # 0 /\ task[t].cached.version = index[n] -> CacheValid(t, memory)
              [] OTHER -> Data(t, memory, index[n], index[n])
  /\ UNCHANGED <<config_json, world>>

LocalLoad(t) ==
  /\ TaskAt(t, "local")
  /\ Loaded(t, cargo, server[task[t].name])
  /\ UNCHANGED <<disk, world>>
-----------------------------------------------------------------------------
QueryStep(t) ==
  \/ Known(t) \/ Await(t) \/ Load(t) \/ Answer(t)
  \/ Config(t) \/ NoConfig(t) \/ FetchConfig(t) \/ SparseFetch(t) \/ Response(t)
  \/ GitLoad(t) \/ LocalLoad(t)

XNext ==
  \/ Restart \/ \E n \in Name : Publishes(n)
  \/ \E t \in Task : QueryStep(t) \/ RequestFails(t)
  \/ \E t \in Task, n \in Name, want \in 0 .. MaxVersion : Query(t, n, want)

XSpec == XInit /\ [][XNext]_rvars
XFairSpec == XSpec /\ WF_rvars(\E t \in Task : QueryStep(t))
-----------------------------------------------------------------------------
(* Properties. *)

\* A query answered after an update was asked for tells all versions that the registry
\* had when cargo started, whatever earlier cargos cached, whoever loaded the file for
\* whom, and though the caches are cleared between the queries.
AnswersAreFresh ==
  [][\A t \in Task : Answer(t) /\ task'[t].at = "answered" /\ task[t].update /\ ~offline
       => task[t].cached.versions >= cargo.began[task[t].name]]_rvars

\* A locked version that the registry had when cargo started is found, after an update if need
\* be (the comment in RegistrySource::query, "we fall back to performing a lazy update").
LockedVersionFound ==
  [][\A t \in Task : /\ Answer(t) /\ task'[t].at = "answered" /\ ~offline
                     /\ task[t].want \in 1 .. cargo.began[task[t].name]
       => Found(t) # {}]_rvars

\* Every query is answered, unless a request fails or cargo is killed: nobody waits for
\* a load that another query gave up, or for the lock on config.json.
QueriesAnswered == []<>(cargo.failed \/ \A t \in Task : task[t].at \in {"idle", "answered"})
=============================================================================
