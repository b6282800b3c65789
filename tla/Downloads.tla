----------------------------- MODULE Downloads ------------------------------
(***************************************************************************)
(* PackageSet and Downloads: which packages of a resolve a build needs,    *)
(* and how they are fetched, all at once, by futures polled on one thread. *)
(* Between two awaits a future runs undisturbed.                           *)
(*                                                                         *)
(* Progress messages and sizes are left out.  The package cache lock keeps *)
(* other processes away from the crate files.                              *)
(***************************************************************************)
EXTENDS Integers, FiniteSetsExt, Sequences

CONSTANTS DlWorlds,   \* resolves, requests and what is in CARGO_HOME
          NetRetry    \* the `net.retry` configuration

ASSUME RetryBound == NetRetry \in Nat

VARIABLES dlworld,   \* the resolve and the request
          requested, \* the ids given to get_many, one future for each
          future,    \* where each future is, and its failed attempts
          slot,      \* the package set's cells: ids with a package
          crates,    \* contents of the crate files in CARGO_HOME
          pending,   \* Downloads::pending
          dlresult   \* what get_many returned, or "panic"

dlvars == <<dlworld, requested, future, slot, crates, pending, dlresult>>

---------------------------------------------------------------------------
(* Which packages are needed.                                              *)

\* An artifact dependency's own target.
ArtifactKind(dep, kind) == IF dep.artifact = "target" THEN kind ELSE dep.artifact

dep_platform_activated(dep, kind) == dep.platform \in {"any", kind}

\* The dependencies of `id` that may be built for `kind`.
filter_deps(id, kind) ==
    {d \in dlworld.deps :
        /\ d.from = id
        /\ d.dep_kind = "dev" => dlworld.dev
        /\ \/ dlworld.force_all_targets
           \/ \E k \in {kind, "host"} : dep_platform_activated(d, k)}

\* One level further down, as the recursion goes.
UsedBy(pair) ==
    {<<d.to, pair[2]>> : d \in filter_deps(pair[1], pair[2])}
    \union {<<d.to, ArtifactKind(d, pair[2])>> :
               d \in {e \in dlworld.deps : /\ e.artifact # "none"
                                           /\ e.from = pair[1]
                                           /\ e.to \in {f.to : f \in filter_deps(pair[1], pair[2])}}}

collect_used_deps[depth \in Nat] ==
    IF depth = 0 THEN dlworld.roots \X dlworld.kinds
    ELSE LET used == collect_used_deps[depth - 1] IN used \union UNION {UsedBy(p) : p \in used}

AnyOrder(set) == FoldSet(LAMBDA x, s : Append(s, x), <<>>, set)

\* The pairs, without bringing the kinds of one package together.
ToDownloadPairs ==
    LET pairs == AnyOrder(collect_used_deps[Cardinality(dlworld.ids)])
    IN  [i \in DOMAIN pairs |-> pairs[i][1]]

\* download_accessible: a package is asked for once, however many kinds it is built for.
ToDownload == AnyOrder({p[1] : p \in collect_used_deps[Cardinality(dlworld.ids)]})

---------------------------------------------------------------------------
(* The futures.                                                            *)

Start == [at |-> "start", failed |-> 0]

DownloadsInit ==
    /\ dlworld \in DlWorlds
    /\ requested = IF dlworld.request = <<>> THEN ToDownload ELSE dlworld.request
    /\ future = [i \in DOMAIN requested |-> Start]
    /\ slot = {}
    /\ crates = [id \in dlworld.ids |-> IF id \in dlworld.cached THEN "good" ELSE "none"]
    /\ pending = 0 /\ dlresult = "none"

Running == dlresult = "none"

\* run returns the first error; the other futures are dropped where they are.
FailWith(what) == dlresult' = what

\* get_package: the package is there already.
SlotFilled(i) ==
    /\ Running /\ future[i].at = "start" /\ requested[i] \in slot
    /\ future' = [future EXCEPT ![i].at = "done"]
    /\ UNCHANGED <<dlworld, requested, slot, crates, pending, dlresult>>

\* The package goes into its cell, which must be empty.
FillSlot(i) ==
    IF requested[i] \in slot
    THEN dlresult' = "panic" /\ UNCHANGED <<slot, future>>
    ELSE /\ slot' = slot \union {requested[i]} /\ future' = [future EXCEPT ![i].at = "done"]
         /\ UNCHANGED dlresult

\* source.download waits for the index entry that has the checksum.
AskIndex(i) ==
    /\ Running /\ future[i].at = "start" /\ requested[i] \notin slot
    /\ future' = [future EXCEPT ![i].at = "hash"]
    /\ UNCHANGED <<dlworld, requested, slot, crates, pending, dlresult>>

\* The crate file is in CARGO_HOME.
Ready(i) ==
    /\ Running /\ future[i].at = "hash" /\ crates[requested[i]] # "none"
    /\ FillSlot(i)
    /\ UNCHANGED <<dlworld, requested, crates, pending>>

\* The loop's first half: a request is sent.
Fetch(i) ==
    /\ Running
    /\ \/ future[i].at = "hash" /\ crates[requested[i]] = "none"
       \/ future[i].at = "delay"
    /\ future' = [future EXCEPT ![i].at = "fetch"]
    /\ pending' = pending + 1
    /\ UNCHANGED <<dlworld, requested, slot, crates, dlresult>>

\* Retry::try: a spurious error is tried again, as often as configured.
FetchFails(i, spurious) ==
    /\ Running /\ future[i].at = "fetch" /\ dlworld.faulty
    /\ pending' = pending - 1
    /\ IF spurious /\ future[i].failed < NetRetry
       THEN /\ future' = [future EXCEPT ![i] = [at |-> "delay", failed |-> @.failed + 1]]
            /\ UNCHANGED dlresult
       ELSE FailWith("error") /\ UNCHANGED future
    /\ UNCHANGED <<dlworld, requested, slot, crates>>

\* The contents came; finish_download then waits for the index again.
Fetched(i) ==
    /\ Running /\ future[i].at = "fetch"
    /\ pending' = pending - 1
    /\ \E body \in {"good"} \union (IF dlworld.faulty THEN {"bad"} ELSE {}) :
         future' = [future EXCEPT ![i].at = body]
    /\ UNCHANGED <<dlworld, requested, slot, crates, dlresult>>

\* The checksum is verified, the file written unless it has something in it,
\* and the package read from it.
FinishDownload(i) ==
    /\ Running /\ future[i].at \in {"good", "bad"}
    /\ IF future[i].at = "bad"
       THEN FailWith("error") /\ UNCHANGED <<future, slot, crates>>
       ELSE /\ crates' = [crates EXCEPT ![requested[i]] = IF @ = "none" THEN "good" ELSE @]
            /\ FillSlot(i)
    /\ UNCHANGED <<dlworld, requested, pending>>

\* All futures are done.
RunReturns ==
    /\ Running /\ \A i \in DOMAIN requested : future[i].at = "done"
    /\ dlresult' = "ok"
    /\ UNCHANGED <<dlworld, requested, future, slot, crates, pending>>

\* The command goes on with the packages it builds, named by two
\* specifications each: they are there.
GetMany ==
    /\ dlresult = "ok" /\ dlworld.request = <<>>
    /\ \A i \in DOMAIN requested : requested[i] \in dlworld.roots => Len(requested) # 2
    /\ \E r \in dlworld.roots : requested' = <<r, r>> /\ future' = [i \in 1 .. 2 |-> Start]
    /\ dlresult' = "none"
    /\ UNCHANGED <<dlworld, slot, crates, pending>>

DownloadsNext ==
    \/ GetMany
    \/ \E i \in DOMAIN requested :
         \/ SlotFilled(i)
         \/ AskIndex(i)
         \/ Ready(i)
         \/ Fetch(i)
         \/ FetchFails(i, TRUE)
         \/ FetchFails(i, FALSE)
         \/ Fetched(i)
         \/ FinishDownload(i)
    \/ RunReturns

---------------------------------------------------------------------------
(* Properties.                                                             *)

\* What the unit graph will ask for: a package and the platform it is built
\* for; build scripts, macros and what they depend on are built for the host.
Asks(pair) ==
    {<<d.to, IF d.artifact \notin {"none", "target"} THEN d.artifact
             ELSE IF d.artifact = "target" THEN pair[3]
             ELSE IF d.dep_kind = "build" \/ d.to \in dlworld.macros THEN "host" ELSE pair[2],
       IF d.artifact \in {"none", "target"} THEN pair[3] ELSE d.artifact>> :
        d \in {e \in dlworld.deps : /\ e.from = pair[1] /\ (e.dep_kind = "dev" => dlworld.dev)
                                    /\ dep_platform_activated(e, IF e.dep_kind = "build" THEN "host"
                                                                  ELSE pair[2])}}

Asked[depth \in Nat] ==
    IF depth = 0 THEN {<<r, k, k>> : r \in dlworld.roots, k \in dlworld.kinds}
    ELSE LET asked == Asked[depth - 1] IN asked \union UNION {Asks(p) : p \in asked}

\* Every package a build asks for was downloaded before: the kinds and the
\* platforms download_accessible looks at cover those of the unit graph.
NeededArePresent ==
    dlresult = "ok" /\ dlworld.request = <<>> =>
        {p[1] : p \in Asked[2 * Cardinality(dlworld.ids)]} \subseteq slot

\* A package is only ever read from a crate file whose checksum was right,
\* and get_many succeeds only with all that was asked for.
SlotsAreVerified ==
    /\ \A id \in slot : crates[id] = "good"
    /\ dlresult = "ok" => \A i \in DOMAIN requested : requested[i] \in slot

\* `pending` is the number of requests under way, whatever failed and was
\* tried again: it never wraps and ends at zero.
PendingIsExact ==
    dlresult \in {"none", "ok"} =>
        pending = Cardinality({i \in DOMAIN requested : future[i].at = "fetch"})

\* The assertion in get_package: a cell is filled by one future only.
FilledOnce == dlresult # "panic"

\* Downloads get all that a build needs, once each, and keep count.
DownloadsRight == NeededArePresent /\ SlotsAreVerified /\ PendingIsExact /\ FilledOnce
=============================================================================
