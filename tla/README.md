# Cargo: a TLA+ verification project

The modules of this directory are translated from the Rust source of cargo
(`src/src/`, `src/crates/rustfix`). TLC checks them on small instances; TLAPS proves
the safety of the concurrent core for every instance.

## The system

A cargo command finds its workspace and configuration (`workspace/`, `context/`),
resolves dependencies (`resolver/`, `ops/resolve.rs`), fetches them (`sources/`,
`util/network/`), resolves features and makes a graph of *units*
(`compiler/unit_dependencies.rs`), decides with fingerprints which units are up to date
(`compiler/fingerprint/`), and runs one *job* per unit (`compiler/job_queue/`) under the
tokens of a jobserver. Around it stand the caches shared by all cargo processes of a
user (`workspace/global_cache_tracker.rs`, `util/cache_lock.rs`), the build directory
(`compiler/layout.rs`, `compiler/locking.rs`), and the commands that use the same parts:
install, publish, add, remove, tree, fix, update, clean.

PROJECT.json lists the parts with their status, maps every definition to the lines it
models, and lists the hazards at the line where they bite.

## Modules

The concurrent core:

| module | models | state and actions |
|---|---|---|
| `DependencyQueue` | `util/dependency_queue.rs` | the two maps, priorities and costs; `Queue`, `QueueFinished`, `Dequeue`, `Finish`, one per method |
| `JobQueue` | `compiler/job_queue/` | the dependency queue (INSTANCE), pending and active jobs, tokens, messages, errors; the loop of the main thread cut where other threads can be seen, the job threads, the jobserver's helper thread, other clients of the jobserver |
| `MessageQueue`, `BoundedQueue` | `util/queue.rs`; what callers rely on | items, sleepers of the two condition variables, calls; a method is cut where it lets go of the mutex. The first implements the second |
| `CacheLock` | `util/cache_lock.rs` over `util/flock.rs` | counters, file locks, guards and the call in progress of each process; one action per file lock, `Drop`, `Crash` |
| `BuildDir` | `compiler/layout.rs`, `locking.rs`, `compile`, `cargo clean -p` | directory and unit locks, what each process thinks of each unit, what the disk holds; planning, jobs in the steps a kill or another process can come between |
| `HttpClient` | `util/network/http_async.rs`, `retry.rs` | the channel, the worker's transfers, its low speed window, callers that retry |
| `Fix` | `util/lockserver.rs`, `util/diagnostic_server.rs`, `ops/cargo_fix` | the lock server's clients and threads, the diagnostic server; processes that take turns, apply suggestions, take them back and report |
| `Rustfix` | `crates/rustfix` | one file: replacements of ranges, inserted and replaced parts, conflicts |

From manifests to units:

| module | models |
|---|---|
| `Config`, `Profiles`, `Workspace`, `Manifest` | `context/`, `workspace/profiles.rs`, `workspace/workspace.rs`, `workspace/parser/` |
| `Resolver`, `Lockfile` | `resolver/`, `ops/resolve.rs`, `ops/lockfile.rs`, `resolver/encode.rs`, `workspace/registry.rs`, `ops/cargo_update.rs` |
| `Features`, `UnitDeps`, `Tree` | `resolver/features.rs`, `unit_dependencies.rs` and `ops/cargo_compile`, `ops/cargo_tree`; each extends the one before |
| `Fingerprint`, `Outputs`, `Invocation`, `BuildScript`, `Messages`, `RustcInfo` | what is rebuilt, where it is written, how rustc is called, what scripts and compilers say, what is known of rustc |

Sources and commands:

| module | models |
|---|---|
| `RegistryIndex`, `Downloads`, `GitSource` | `sources/registry`, `workspace/package.rs`, `sources/git` |
| `CargoHome` | the download caches, the last-use tracker and their collection, with the locks of `CacheLock` taken in one step |
| `Install`, `Publish`, `Editor` | `ops/cargo_install.rs`, `ops/cargo_package` and `ops/registry/cargo_publish.rs`, `ops/cargo_add` and `cargo_remove.rs` |

`std::sync::Condvar`, the jobserver, flock, curl, libgit2, SQLite and rustc are external;
they are modelled by what the code relies on: spurious wakeups happen, other processes
take and return tokens as they like, locks of a dead process are released, a lock may be
converted in two steps, transfers fail.

Names with "Mutant" in their comment are faulty variants of the definition that follows
them. No specification uses them; substituted for that definition, each makes TLC refute
the property it is paired with in PROJECT.json.

## What the runs check

Most runs hold several components *side by side*: a variable `component` is chosen in the
initial state, the steps of that component are the only ones taken, and the others stay
where they begin. Such a run checks each component as a run of its own would; a property
that names several components is the conjunction of theirs. Only `JobQueue` with
`DependencyQueue`, `Tree` with `UnitDeps` and `Features`, and the lock server with the
processes of `Fix` are composed in the sense that they share state.

| run | components | what it shows |
|---|---|---|
| `queues` | `BuildDir`, `DependencyQueue`, `MessageQueue`, `HttpClient` | two builds and a `clean -p` that fail and are killed anywhere: what a build uses is complete and undisturbed, what looks fresh is; nodes come out when and only when their inputs exist and `finish` never panics; no lost wakeup; `MessageQueue` implements `BoundedQueue`; transfers are only called slow when there were some; all builds, pushes and requests end |
| `jobs` | `JobQueue`, `CacheLock`, `Resolver` | jobs start when their inputs are there and announce each artifact once; tokens are neither made up nor forgotten; the result is true, also with `--keep-going`; no job starts after an error; cache locks exclude what they should, wait in no circle, leak nothing; a resolution is a solution and an error means there is none (but see below); builds, calls and resolutions end |
| `compilation` | `Features`, `UnitDeps`, `Tree`, `Outputs`, `Invocation`, `BuildScript`, `Messages`, `RustcInfo` | features are the least fixpoint, in whatever order met; units have resolved features and one set of dependencies; what is shared is built once; the tree shows the units; outputs stay apart; rustc finds what it is told to link; scripts' directives reach their dependents; replayed messages are those of the compiler; cached answers of rustc are current, and host and target get the linkers configured for them |
| `packages` | `Workspace`, `Manifest`, `Profiles`, `Config`, `Publish`, `Install`, `Fingerprint` | members agree on their root; a published manifest means the same; profiles and configuration take each value from the source that has precedence; what is uploaded was verified, dependencies first; the two listings of `cargo install` agree with each other and the executables, and what it leaves alone is current; a unit judged fresh has the output that a build from nothing has |
| `dependencies` | `Editor`, `Lockfile`, `Downloads`, `CargoHome` | add and remove do what was asked and leave a manifest that parses; locked packages stay locked; all needed packages are fetched, verified, once; what a build reads stays complete while others collect |
| `services` | `RegistryIndex`, `Fix`, `Rustfix`, `GitSource` | an answer given after an update was asked for has what the registry had when cargo started; one fixer at a time, all or nothing, messages before the exit; the code is the original with the replacements made; an updated checkout is whole and at the right revision; all of it ends |

### Disagreements between documentation and code

Six runs end in a counterexample to what a comment or the documentation says.

* `unit_locks_crash`: with `-Zfine-grain-locking` the fingerprint is cleared when the unit
  is planned. Between that and the exclusive lock another process can write a valid one;
  the unit is then rewritten under it, and a kill leaves a partial output that looks
  finished.
* `feature_conflicts`: a conflict learned while a package had more features is applied
  after backtracking to it with fewer, and a solvable graph is refused. (The root needs
  `a`; `a` 2 asks for feature `x` of `b`, which asks for a feature no `c` has; `a` 1 does
  not.)
* `overlapping_requirements`: a package that depends on another one twice with overlapping
  requirements is locked to one version for both.
* `stale_index`: a git registry is also updated when the index file of a crate is missing.
  The summaries of crates loaded before that stay in memory, and as the registry now counts
  as updated, a locked version that only the new index has is not looked for again.
  (`AnswersAreFresh` therefore speaks of queries after an update was asked for.)
* `config_lists`: a list that should be replaced is appended to when another key of its
  table is merged before it.
* `reinstall`: the listing of `cargo install` has one entry of features, profile and target
  for all executables of a package. Installing another executable of it with other features
  overwrites the entry, and the first one is then taken for up to date with those features.
  (`IgnoredIsCurrent` therefore leaves out the executables that a command listed anew with
  options they were not built with.)

The passing runs stay clear of these cases by their worlds: the resolver's conflict cache
is met without features in `jobs`, no package of `dependencies` has overlapping
requirements, and no configuration of `packages` merges another key before such a list.
The same holds for deviations that were met while modelling and have no run of their own:
a macro that is also an artifact dependency (`resolver/features.rs:326`); a macro whose
build script needs an artifact for the target, in a build for two targets, which finds that
of the target met first (`unit_dependencies.rs:268`); nested workspace
roots that disagree (`workspace.rs:1022`, `:2244`); features of one package left over when
another is selected (`workspace.rs:1804`); the `strip` default of a profile that turns
debuginfo off again (`profiles.rs:590`); `--depth` in `cargo tree` and the star of a
subtree shown elsewhere (`cargo_tree/mod.rs:316`); the configuration `cargo install`
reloads except for the network settings; units with equal short hashes
(`compilation_files.rs:48`); under `cargo fix`, a file that a crate whose fixes do not
compile shares with another (the crate puts its files back, `cargo_fix/mod.rs:766`, after
it gave up the lock, and so undoes what the other did meanwhile); and, of what an interruption leaves behind, a checkout
half collected (`GcInterrupted` in `CargoHome`), executables half replaced
(`cargo_install.rs:570`) and an index cache file cut short (`index/cache.rs:275`).

Some properties say what the code does where a comment says otherwise, or name the cases
they leave out; their comments give the place:

* `ScriptsHeeded`: the library path of rustc has the out dirs of the scripts behind macros
  only when the build directory lies in the artifact directory. The comment on
  `BuildScripts::plugins` (`custom_build.rs:219`) promises paths in `target`, and
  `reference/build-scripts.md:250` those within `OUT_DIR`.
* `ProfilePrecedence`: an override of the manifest beats what the configuration says of the
  profile itself, as layers are merged one by one; the comment on `ProfileMaker` puts all of
  the configuration first.
* `SharedOnce`: below an artifact for the triple of the host the probe does not find the
  unit of the target, and a crate may be built twice.
* `TreeShowsUnits`: an artifact for a target of its own that is also a library is shown once,
  and `cargo tree` without `--target` panics on an artifact for the target of the build.
* `SharedFilesReported`: a binary built for itself and as an artifact dependency may share
  its fingerprint and cached messages with itself, unreported.
* `ReplayFaithful`: a unit compiled only to scrape examples hides its diagnostics, and a
  replay shows them.
* `AuthTriesEveryUser`: a server that hangs up on a user name ends the loop over the names.

### Bounds

Three units are the least that show a chain with pipelining (a binary, its library, the
library of that) and two independent units. Two jobs are one implicit and one acquired
token. A message bound of 1 makes the queue full at once while unbounded pushes pass the
bound. Three producers are needed for a wakeup to reach the wrong one of two sleepers.
Three processes make one that waits for the mutate file of one that waits for the cache
file of a third; a second call by one of them gives every pair of nested lock modes.
`Budgets`, `MaxEdits` and the like bound how often users and processes act, not what cargo
does in between. The resolver's registries have a root, two packages it needs, and two
levels below them in up to two versions, which is what backjumping over a cached conflict
takes. Fingerprints run over three builds: one to make the files, one interrupted, one to
be deceived. In `RustcInfo` two cargos share the file while the compiler, its wrapper or
the target's specification is replaced once; an edition is a stamp that never comes back, as
the fingerprint hashes times. In `CargoHome` a running command is younger than anything collection deletes
by age: without that, collection may take what a very slow build uses.

### Fairness

* `JobQueue`: the main thread and each job thread go on when they can; a compiler ends.
  The jobserver is not fair: with the implicit token alone a build ends.
* `MessageQueue`: threads inside a method go on, and consumers keep popping, as the main
  loop does until no job is left.
* `CacheLock`: a lock that is free is taken by somebody, and guards are dropped in the
  end: they are held in scopes of finite work. As the number of calls is bounded, flock
  need not be fair to any one process.
* `HttpClient`: the worker's loop turns, time passes, callers are polled.
* `BuildDir`, `Fix`, `GitSource`, `RegistryIndex`, `Resolver`: a process or task that can go
  on does. Kills, failures and edits are never required.

Deadlock is not checked where commands end and nothing is left to do, which is the case in
every run; that nobody is stuck before the end is what the liveness properties say.

## What is proved

All theorems hold for every value of the constants under the ASSUMEs of the modules.

`DependencyQueueProofs`: `QueueSafe` (`DependenciesHonoured`), from `DQInvariant`. That
`finish` never panics is not inductive: it needs that `dep_map` holds exactly the edges not
yet finished (`AwaitsTheRest`), that a node handed out waits for none (`DequeuedReady`),
and that nothing is handed out before `queue_finished`. Assumed: finitely many nodes,
natural costs. The order of calls is part of `DQSpec`; `JobQueueProofs` shows that the job
queue keeps to it.

`JobQueueGraph`, `JobQueueJobs`, `JobQueueProofs`: for any finite set of
units, any graph, any `-j`, any capacity of the message queue and all failures, of
`JQSpec`:

* `JobsSafe`: `JobsRight`. No job starts before what it links or compiles against is there,
  pipelining included, and each artifact is announced once.
* `HandlingNeverPanics`: every `finish` that handling a message calls is one that the
  dependency queue allows.
* `TokensSafe`: `TokensAccounted`. The tokens in the pipe, at other clients, held and in
  messages always add up, jobs never exceed tokens, and no token is given back that a
  pending job would wait for in vain.
* `OutcomeSafe`: `OutcomeRight`. "ok" means that every unit was compiled and no denied
  warning met; the queue is never left with jobs for want of an error; with
  `--keep-going` all that could be run was.
* `StopsAfterError`: `NoJobAfterError`, an action property.

They follow from `JQInvariant`, whose invariant `JQInv` conjoins
  - types (`TypeOK`);
  - the graph: the invariant of the dependency queue, kept by citing the lemmas of
    `DependencyQueueProofs` through INSTANCE, and that it was filled with `QueueDeps`
    (`GraphInv`);
  - the place of the loop: when events are left, when a fresh job runs on the main thread,
    why the loop ended (`LoopInv`);
  - the jobs: for every unit, how its place in the queues, its job's program counter,
    `rmeta`, and what was announced go together (`JobsInv`);
  - the messages: a message in flight was sent by a job that has come so far, in the order
    Metadata, All, and only one of each is in flight or finished (`MessagesInv`);
  - what was handled: finished artifacts, failed scrape units, errors and denied warnings
    are those of jobs that ended so (`HandledInv`);
  - the account of tokens and the outcome themselves.

Two steps of the argument deserve mention. `InputsReady` speaks of everything *below* a
unit that links, and the queue only of edges: a job that has run has all its edges
finished, and the edges of a linking unit contain the closure, so the closure was compiled.
And a loop that ends without an error leaves nothing queued because, in an acyclic graph
all of whose dependencies are queued, a nonempty set of waiting nodes has one that waits
for none of the others (`Acyclic` is stated over subsets of nodes for this).
Assumed: finitely many units, at least one job and a bound of at least one, and that units
that may fail for doc scraping are not built (`ScrapeNotBuilt`), as the code says.

`BuildProofs`, of `BuildDir`: `UnitsSafe` (`UnitsComplete`), for any number of processes,
units and jobs, any dependencies, in both locking schemes, with kills, failures and edits
at every step. `BDInv` says who can hold which lock: with fine-grained locks, what each
stage of a job holds of its unit (`UnitsLocked`); otherwise that a process past its first
steps owns the directory alone (`DirOwned`). It then ties what a process found about a unit
and how far its job is to what is on disk (`DiskAt`): the fingerprint is gone before the
output is touched and comes back after it is complete, so that a valid fingerprint is never
over a partial output (`Whole`), whoever died. That last part is claimed, as the property
is, for the lock of the whole directory only; run `unit_locks_crash` shows why.

`BuildProofs`, of `MessageQueue`: `NoWakeupLost` (`NobodyForgotten`) and the refinement
`MessageQueueImplementsBoundedQueue`, from `MQInvariant`. The two accounts of wakeups count
woken threads against items or room; they are inductive with the shape of calls
(`CallsWellFormed`). Assumed: finitely many threads, producers are not consumers, a
positive bound.

`CargoHomeProofs`, of `CacheLock`: `LocksSafe` (`LocksRight`) from `CLInvariant`, for any
number of processes, any of them read-only. Besides the counters the invariant says that a
file is locked in the style the locker believes, that guards which promise exclusion rest
on exclusive locks, and in which order files are asked for.

`CargoHomeProofs`, of `GitSource`: `GitSafe` (`GitUpdated`), for any commits, submodules,
requests and servers. `GitInv` says that the commit the remote names during a run is among
those seen in it, that the reference of the clone is one of these once it was fetched or
found to be current (`RevisionInv`), that a submodule being fetched belongs to the revision
being checked out (`RunInv`), and that the mark `.cargo-ok` is only on a checkout that is
whole, through resets that are interrupted (`CheckoutInv`). That a server which does not
hang up is offered every user name (`EveryUserTried`) is about the loop in
`with_authentication`: it goes on exactly when a key was asked for twice.

`RegistryProofs`, of `RegistryIndex`: `IndexFresh` (`AnswersAreFresh`, an action property),
for any crates, any number of concurrent queries and of commands one after the other.
`XInv` conjoins that one query loads a file at a time (`LoadInv`), that a cache file has the
versions its index version says (`CacheInv`), that an update asked for is still to be made
or the clone is recent enough (`UpdateInv`), that a file marked fresh is not loaded again
while its summaries are kept (`FreshInv`), and that what is in memory and in the hands of a
query has what the registry had at the start (`AnswerInv`). Hypothesis: cache files are
written whole. With one cut short and left by a killed cargo, `CacheInv` is false and so is
the theorem: the lines that are left parse, and the rest is missing.

`RegistryProofs`, of `HttpClient`: `HttpSlow` (`SlowOnlyWhenBusy`, an action property), for
any number of callers, retries and any timeout. `HInv` says that each caller that waits is
in the channel or with curl and in only one of them, and that the low speed window is no
older than the work (`WindowAge`): it starts again when the worker wakes from an idle wait.

`FixProofs`: `FixSafe` (`FixRight`), for any crates, files, suggestions, retries and deaths.
`FixInv` says who holds the lock at each stage of a process, what the diagnostic server
owes whom (`PostInv`), and how the code of a process's files differs from what it was: by
accepted suggestions only, with the original kept until the process ends (`CodeOf`).
Hypothesis `FailsAlone`: a crate either shares no file with another, or has no suggestion
that breaks its code. Without it the property is false, for the reason given above.

Only model-checked:

* liveness (`QueuesProgress`, `JobsEnd`, `Resolves`, `ServicesEnd`), which needs fairness and
  is out of the prover's reach;
* the modules whose definitions are recursive operators (`BuildScript`, `Config`, `Features`,
  `Fingerprint`, `Invocation`, `Lockfile`, `Profiles`, `Publish`, `Tree`, `UnitDeps`,
  `Workspace`): they compute fixpoints and walks, and what these compute needs induction over
  data;
* `Resolver`, `Rustfix`, `Editor` and `Manifest`, whose properties compare the result of a
  computation with a reference definition, for the same reason;
* `Install`, `CargoHome`, `Downloads`, `Messages`, `Outputs` and `RustcInfo`, for which no
  inductive invariant has been written down.

## What is not modelled

PROJECT.json says of each part what is left out. Worth knowing:

* `BuildDir`: mounts without file locks (cargo then runs unlocked), plain `cargo clean`
  (unlocked by intent).
* `CargoHome`: databases of git submodules are not tracked; uses that cannot be saved are
  forgotten (`recorded`); an explicit `cargo clean gc` may delete what is in use
  (`forced`); a `.crate` file cut short is taken for downloaded and fails to unpack until
  it is deleted.
* `Resolver`: error messages, errors of `[replace]` queries, the check for duplicates.
  `Lockfile`: `[replace]`, git sources, checksums, old formats, `--precise`; the file is
  written in place and without regard to who wrote it meanwhile (`ops/lockfile.rs:97`).
* `Fingerprint`: every stamp of the clock is distinct; deleted inputs and older mtimes are
  not noticed for build scripts without `rerun-if`; the JSON copy and the touch on use.
* `Invocation`: debuginfo, trim-paths, incremental, rpath, check-cfg, rustdoc.
  `BuildScript`: metabuild, `RUSTC_BOOTSTRAP`, several scripts. `Messages`: `--cap-lints`,
  which is no part of a fingerprint. `RustcInfo`: that a failure may be transient, though it
  is cached.
* `RegistryIndex`: offline with `config.json` missing removes a valid cache file.
  `HttpClient`: a run of short answers counts as too slow; a fatal error fails all requests
  outstanding. `GitSource`: a remote never deletes its reference; no shallow clones.
* `Install`: an error of saving a listing is swallowed. `Publish`: tokens,
  metadata checks; the check for uncommitted changes precedes reading the files.
* `Fix`: the death of the main cargo, unreadable files; shared files have only good
  suggestions. `Tree`: formatting, public edges. `Editor`: formatting; manifests are edited
  without a lock.
* Credentials, diagnostics, progress, timings, the command line, and path and directory
  sources: input and output only.
