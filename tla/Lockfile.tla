------------------------------ MODULE Lockfile ------------------------------
(***************************************************************************)
(* Cargo.lock: how a resolution is written (resolver/encode.rs,            *)
(* ops/lockfile.rs), read back against the manifests of the moment, and    *)
(* used to hold the next resolution to the packages of the last            *)
(* (ops/resolve.rs, workspace/registry.rs, ops/cargo_update.rs).           *)
(*                                                                         *)
(* Manifests are edited, versions are published and yanked, and several    *)
(* cargos run and are killed meanwhile.  A source is the registry or the   *)
(* directory of a path package.  Each version is a semver major of its     *)
(* own, so candidates never conflict and the resolver takes the first      *)
(* candidate of every dependency: its search is in the module Resolver.    *)
(* [replace], `paths` overrides, git sources, checksums and formats before *)
(* 3 are left out.                                                         *)
(***************************************************************************)
EXTENDS Integers, FiniteSetsExt

CONSTANTS LkCargo,      \* the cargo processes
          Manifests,    \* the states the manifests may be edited to
          RegDeps,      \* name -> version -> dependencies of the registry's packages
          Published,    \* the versions in the registry at first
          Unpublished,  \* those that may be published later
          Commands,     \* what a cargo may be asked to do
          Budgets       \* the bounds of a behaviour, see `left`

ASSUME LockfileBounds ==
  \A b \in Budgets : /\ {b.edits, b.publishes, b.yanks, b.commands, b.kills} \subseteq Nat
                     /\ b.cargos \subseteq LkCargo /\ b.amid \in BOOLEAN

VARIABLES manifests,    \* [dirs, member, patch, format] on disk
          index,        \* the versions in the registry
          yanked,
          disk,         \* Cargo.lock: its packages, unused patches and format
          lk,           \* what each cargo does
          left          \* how many more edits, versions published, yanks, commands and
                        \* kills there may be, which cargos run, and whether the
                        \* manifests and the registry may change amid a command

lockvars == <<manifests, index, yanked, disk, lk, left>>

Registry == "registry"
IsPath(source) == source # Registry
PackageId(name, version, source) == [name |-> name, version |-> version, source |-> source]
PathPkg(m, dir) == PackageId(m.dirs[dir].name, m.dirs[dir].version, dir)
MatchesIgnoringSource(dep, id) == id.name = dep.name /\ id.version \in dep.req
MatchesId(dep, id) == MatchesIgnoringSource(dep, id) /\ id.source = dep.source
DependenciesOf(m, id) == IF IsPath(id.source) THEN m.dirs[id.source].deps ELSE RegDeps[id.name][id.version]

Absent == [state |-> "absent"]
Emptied == [state |-> "text", package |-> {}, unused |-> {}, format |-> 1]
NoResolve == [nodes |-> {}, edges |-> {}, unused |-> {}, format |-> 0]
Failed == [NoResolve EXCEPT !.format = -1]

-----------------------------------------------------------------------------
(* Writing: an entry names its dependencies by as little as tells them     *)
(* apart among the packages of the resolution; a path is never written.    *)

Omitted == "-"
EncodableSource(id) == IF IsPath(id.source) THEN Omitted ELSE id.source
SameVersion(r, id) == {p \in r.nodes : p.name = id.name /\ p.version = id.version}
VersionsOf(r, id) == {p.version : p \in {q \in r.nodes : q.name = id.name}}

EncodablePackageId(r, id) ==
  IF Cardinality(SameVersion(r, id)) > 1
  THEN [name |-> id.name, version |-> id.version, source |-> EncodableSource(id)]
  ELSE [name |-> id.name, source |-> Omitted,
        version |-> IF Cardinality(VersionsOf(r, id)) = 1 THEN 0 ELSE id.version]

EncodableNode(r, id) ==
  [name |-> id.name, version |-> id.version, source |-> EncodableSource(id),
   dependencies |-> {EncodablePackageId(r, e[2]) : e \in {x \in r.edges : x[1] = id}}]

Encode(r) ==
  [state |-> "text", format |-> r.format,
   package |-> {EncodableNode(r, id) : id \in r.nodes},
   unused |-> {[name |-> id.name, version |-> id.version, source |-> EncodableSource(id)] : id \in r.unused}]

-----------------------------------------------------------------------------
(* Reading: an entry without a source is a path package of that name, to   *)
(* be found from the members, the patches and what they depend on.         *)

DirsOf(deps) == {dep.source : dep \in {d \in deps : IsPath(d.source)}}

\* recursive over the depth of path dependencies
BelowDirs(m) ==
  LET Grow[n \in 0 .. Cardinality(DOMAIN m.dirs)] ==
        IF n = 0 THEN {m.member} \union DirsOf(m.patch)
        ELSE Grow[n - 1] \union UNION {DirsOf(m.dirs[d].deps) : d \in Grow[n - 1]}
  IN Grow[Cardinality(DOMAIN m.dirs)]

BuildPathDeps(m) == {PathPkg(m, d) : d \in BelowDirs(m)}

GetSourceId(m, entry) ==
  LET named == {p \in BuildPathDeps(m) : p.name = entry.name}
  IN IF Cardinality(named) = 1 THEN {p.source : p \in named}
     ELSE {p.source : p \in {q \in named : q.version = entry.version}}

\* the id of an entry, or nothing when its path package is gone
IdOf(m, entry) ==
  {PackageId(entry.name, entry.version, s) :
     s \in IF entry.source = Omitted THEN GetSourceId(m, entry) ELSE {entry.source}}

Only(S) == IF Cardinality(S) = 1 THEN S ELSE {}

LookupId(live, enc) ==
  LET named == {id \in live : id.name = enc.name}
      versions == {id.version : id \in named}
      those == IF enc.version # 0 THEN {id \in named : id.version = enc.version}
               ELSE IF Cardinality(versions) = 1 THEN named ELSE {}
      paths == {id \in those : IsPath(id.source)}
  IN IF enc.source # Omitted THEN {id \in those : id.source = enc.source}
     ELSE IF paths # {} THEN Only(paths) ELSE Only(those)

IntoResolve(text, m) ==
  LET live == UNION {IdOf(m, entry) : entry \in text.package}
  IN [nodes |-> live, format |-> text.format,
      edges |-> UNION {{<<id, to>> : id \in IdOf(m, entry), to \in LookupId(live, enc)} :
                         <<entry, enc>> \in {<<e, d>> \in text.package \X UNION {x.dependencies : x \in text.package} :
                                               d \in e.dependencies}},
      unused |-> UNION {IdOf(m, entry) : entry \in text.unused}]

-----------------------------------------------------------------------------
(* Resolving with what was locked before.                                  *)

RECURSIVE WithDeps(_, _)
WithDeps(r, ids) ==
  LET more == ids \union {e[2] : e \in {x \in r.edges : x[1] \in ids}}
  IN IF more = ids THEN ids ELSE WithDeps(r, more)

Lowest(ids) == {id \in ids : \A other \in ids : id.version <= other.version}
Highest(ids) == {id \in ids : \A other \in ids : other.version <= id.version}

\* register_patch_entries, PackageRegistry::patch and summary_for_patch
LockedPatch(kept, patch) ==
  {id \in kept : MatchesId(patch, id)}
PatchFails(m) == \E patch \in m.patch : ~MatchesId(patch, PathPkg(m, patch.source))
PatchIds(m) == {PathPkg(m, patch.source) : patch \in m.patch}
AvoidPatchIds(m, prev, kept) ==
  UNION {LET locked == LockedPatch(kept, patch)
         IN IF locked = {} \/ PathPkg(m, patch.source) \in locked THEN {}
            ELSE locked \union {id \in prev.nodes : MatchesIgnoringSource(patch, id) /\ id.source = Registry} :
           patch \in m.patch}

\* the packages of a source a changed dependency of a path package comes from
Poisoned(m, prev) ==
  {id \in prev.nodes :
     \E d \in BelowDirs([m EXCEPT !.patch = {}]) : \E dep \in m.dirs[d].deps :
       /\ ~IsPath(dep.source) /\ id.source = dep.source
       /\ \A other \in prev.nodes : ~MatchesIgnoringSource(dep, other)}

MovedOn(m, prev) ==
  {id \in prev.nodes : IsPath(id.source) /\ id.source \in DOMAIN m.dirs /\ PathPkg(m, id.source) # id}

AvoidLocking(m, prev, kept) ==
  WithDeps(prev, (prev.nodes \ kept) \union Poisoned(m, prev)) \union MovedOn(m, prev)

LocksOf(prev, ids) == [id \in ids |-> {e[2] : e \in {x \in prev.edges : x[1] = id}} \intersect ids]
RegisterPreviousLocks(m, prev, kept) == LocksOf(prev, (prev.nodes \intersect kept) \ AvoidLocking(m, prev, kept))

\* Mutant of LockDep: any locked package that matches, not first the package's own.
LockDepAny(locks, patched, id, dep) ==
  LET hit == Lowest({to \in DOMAIN locks : MatchesId(dep, to)})
  IN IF hit = {} THEN [dep |-> dep, locked |-> FALSE]
     ELSE [dep |-> [dep EXCEPT !.req = {to.version : to \in hit}], locked |-> TRUE]

\* a dependency of the package id, held to the version it was locked to
LockDep(locks, patched, id, dep) ==
  LET own == {to \in (IF id \in DOMAIN locks THEN locks[id] ELSE {}) :
                \/ MatchesId(dep, to)
                \/ MatchesIgnoringSource(dep, to) /\ ~IsPath(dep.source) /\ to \in patched}
      any == {to \in DOMAIN locks : MatchesId(dep, to)}
      hit == Lowest(IF own # {} THEN own ELSE any)
  IN IF hit = {} THEN [dep |-> dep, locked |-> FALSE]
     ELSE [dep |-> [dep EXCEPT !.req = {to.version : to \in hit}], locked |-> TRUE]

\* PackageRegistry::query and the filter of RegistryQueryer::query
QueriedIndex(m, idx, yanks, prefer, d) ==
  LET patches == {id \in PatchIds(m) : ~IsPath(d.dep.source) /\ MatchesIgnoringSource(d.dep, id)}
      listed == IF IsPath(d.dep.source) THEN {PathPkg(m, d.dep.source)}
                ELSE {id \in idx : id \notin yanks \/ id \in prefer}
      found == {id \in listed : MatchesId(d.dep, id) /\ \A p \in patches : p.version # id.version}
  IN IF d.locked /\ Cardinality(patches) = 1 THEN patches ELSE patches \union found

\* VersionPreferences::sort_summaries
FirstCandidate(ids, prefer) ==
  Highest(IF ids \intersect prefer # {} THEN ids \intersect prefer ELSE ids)

\* the candidates of every dependency of a package
Candidate(m, idx, yanks, locks, prefer, id) ==
  {QueriedIndex(m, idx, yanks, prefer, LockDep(locks, PatchIds(m), id, dep)) : dep \in DependenciesOf(m, id)}

ActivateAll(m, chosen, stuck, nodes, format) ==
  IF nodes \intersect stuck # {} THEN Failed
  ELSE [nodes |-> nodes, edges |-> {e \in chosen : e[1] \in nodes}, unused |-> PatchIds(m) \ nodes, format |-> format]

ResolveKept(m, idx, yanks, prev, locks, prefer) ==
  LET all == BuildPathDeps(m) \union idx
      chosen == UNION {{<<id, to>> : to \in UNION {FirstCandidate(ids, prefer) :
                                                    ids \in Candidate(m, idx, yanks, locks, prefer, id)}} : id \in all}
      stuck == {id \in all : {} \in Candidate(m, idx, yanks, locks, prefer, id)}
  IN ActivateAll(m, chosen, stuck, WithDeps([edges |-> chosen], {PathPkg(m, m.member)}),
                 IF prev.format > 0 THEN prev.format ELSE m.format)

KeepPrevious(prev, avoid) ==
  {id \in prev.nodes \union prev.unused : \A a \in avoid : a # id /\ (IsPath(a.source) => a.source # id.source)}

ResolveWithPrevious(m, idx, yanks, prev, avoid) ==
  LET previous == KeepPrevious(prev, avoid)
      kept == previous \ AvoidPatchIds(m, prev, previous)
  IN IF PatchFails(m) THEN Failed
     ELSE ResolveKept(m, idx, yanks, prev, RegisterPreviousLocks(m, prev, kept),
                      (prev.nodes \intersect kept) \union PatchIds(m))

-----------------------------------------------------------------------------
Idle == [at |-> "idle", cmd |-> [name |-> "none"], ws |-> [member |-> "none"],
         prev |-> NoResolve, resolve |-> NoResolve, out |-> Absent]

LockfileInit ==
  /\ manifests \in Manifests
  /\ index = Published /\ yanked = {}
  /\ disk = Absent
  /\ lk = [c \in LkCargo |-> Idle]
  /\ left \in Budgets

Cached(c) == c \in LkCargo /\ lk[c].at \notin {"idle", "done"} /\ lk[c].cmd.name = "update"
CacheFree(c) == \A other \in LkCargo \ {c} : ~Cached(other)
FileFree == \A other \in LkCargo : lk[other].at # "emptied"
Spend(what) == left[what] > 0 /\ left' = [left EXCEPT ![what] = @ - 1]
MayChange == left.amid \/ \A c \in LkCargo : lk[c].at \in {"idle", "done"}
Go(c, r) == lk' = [lk EXCEPT ![c] = r]

EditManifests(m) ==
  /\ MayChange /\ Spend("edits")
  /\ m # manifests /\ manifests' = m
  /\ UNCHANGED <<index, yanked, disk, lk>>

PublishVersion(id) ==
  /\ MayChange /\ Spend("publishes")
  /\ id \in Unpublished \ index
  /\ index' = index \union {id}
  /\ UNCHANGED <<manifests, yanked, disk, lk>>

Yank(id) ==
  /\ MayChange /\ Spend("yanks")
  /\ id \in index \ yanked
  /\ yanked' = yanked \union {id}
  /\ UNCHANGED <<manifests, index, disk, lk>>

\* The workspace is read; cargo update locks the package cache until it ends.
StartCommand(c, cmd) ==
  /\ lk[c].at \in {"idle", "done"} /\ c \in left.cargos
  /\ cmd.name = "update" => CacheFree(c)
  /\ Spend("commands")
  /\ Go(c, [Idle EXCEPT !.at = "load", !.cmd = cmd, !.ws = manifests])
  /\ UNCHANGED <<manifests, index, yanked, disk>>

LoadPkgLockfile(c) ==
  /\ lk[c].at = "load" /\ FileFree
  /\ Go(c, [lk[c] EXCEPT !.at = "resolve",
                         !.prev = IF disk = Absent THEN NoResolve ELSE IntoResolve(disk, lk[c].ws)])
  /\ UNCHANGED <<manifests, index, yanked, disk, left>>

Queries(r, name) == {id \in r.nodes : id.name = name}

\* what cargo update does not keep; a member is always kept
ToAvoid(r, cmd, m) ==
  IF cmd.name # "update" THEN {}
  ELSE IF cmd.spec = "all" THEN r.nodes \union r.unused
  ELSE ((IF cmd.recursive THEN WithDeps(r, Queries(r, cmd.spec)) ELSE Queries(r, cmd.spec))
          \union {id \in r.unused : id.name = cmd.spec})
         \ {id \in r.nodes \union r.unused : id.name = PathPkg(m, m.member).name /\ id.source = m.member}

BadSpec(c) ==
  LET cmd == lk[c].cmd
  IN /\ cmd.name = "update" /\ lk[c].prev.format > 0
     /\ cmd.spec # "all" /\ Cardinality(Queries(lk[c].prev, cmd.spec)) # 1

Finished(c) == Go(c, [Idle EXCEPT !.at = "done"])

ResolveLocked(c) ==
  /\ lk[c].at = "resolve" /\ CacheFree(c)
  /\ \E r \in {IF BadSpec(c) THEN Failed
               ELSE ResolveWithPrevious(lk[c].ws, index, yanked, lk[c].prev,
                                        ToAvoid(lk[c].prev, lk[c].cmd, lk[c].ws))} :
       IF r = Failed THEN Finished(c)
       ELSE Go(c, [lk[c] EXCEPT !.at = "compare", !.resolve = r])
  /\ UNCHANGED <<manifests, index, yanked, disk, left>>

\* are_equal_lockfiles: --locked compares what the texts mean, not the texts
SameLockfile(c, orig, out) ==
  \/ orig = out
  \/ /\ lk[c].cmd.name = "locked" /\ orig # Absent
     /\ [IntoResolve(orig, lk[c].ws) EXCEPT !.format = 0] = [IntoResolve(out, lk[c].ws) EXCEPT !.format = 0]

\* write_pkg_lockfile up to the opening of the file; a format older than the
\* manifests' default is raised once something is to be written
CompareLockfiles(c) ==
  LET r == lk[c].resolve
      newer == [r EXCEPT !.format = Max({@, lk[c].ws.format})]
  IN /\ lk[c].at = "compare" /\ FileFree
     /\ IF SameLockfile(c, disk, Encode(r)) \/ lk[c].cmd.name = "locked"
        THEN Finished(c)
        ELSE Go(c, [Idle EXCEPT !.at = "open", !.cmd = lk[c].cmd, !.out = Encode(newer)])
     /\ UNCHANGED <<manifests, index, yanked, disk, left>>

\* open_rw_exclusive_create and set_len(0)
TruncateLockfile(c) ==
  /\ lk[c].at = "open" /\ FileFree
  /\ disk' = Emptied
  /\ Go(c, [lk[c] EXCEPT !.at = "emptied"])
  /\ UNCHANGED <<manifests, index, yanked, left>>

WriteLockfile(c) ==
  /\ lk[c].at = "emptied"
  /\ disk' = lk[c].out
  /\ Finished(c)
  /\ UNCHANGED <<manifests, index, yanked, left>>

KillCargo(c) ==
  /\ lk[c].at \notin {"idle", "done"}
  /\ Spend("kills") /\ Finished(c)
  /\ UNCHANGED <<manifests, index, yanked, disk>>

LockfileNext ==
  \/ \E m \in Manifests : EditManifests(m)
  \/ \E id \in Unpublished : PublishVersion(id)
  \/ \E id \in index : Yank(id)
  \/ \E c \in LkCargo :
       \/ \E cmd \in Commands : StartCommand(c, cmd)
       \/ LoadPkgLockfile(c) \/ ResolveLocked(c) \/ CompareLockfiles(c)
       \/ TruncateLockfile(c) \/ WriteLockfile(c) \/ KillCargo(c)

-----------------------------------------------------------------------------
Resolved(c) == lk[c].at = "compare"

\* What is written is read back as the resolution it was written from, by the
\* workspace that wrote it: leaving out sources and versions that look
\* unambiguous (encodable_package_id) loses nothing, even with a path package
\* and a registry package of one name and version.
LockRoundTrip ==
  \A c \in LkCargo : Resolved(c) => IntoResolve(Encode(lk[c].resolve), lk[c].ws) = lk[c].resolve

\* the candidates of a dependency as if nothing were locked
Unheld(m, prev, dep) == QueriedIndex(m, index, yanked, prev.nodes, [dep |-> dep, locked |-> FALSE])

\* the previous resolution still answers every dependency, exactly
StillSolves(m, prev) ==
  LET root == PathPkg(m, m.member)
      Targets(id) == {e[2] : e \in {x \in prev.edges : x[1] = id}}
  IN /\ root \in prev.nodes /\ WithDeps(prev, {root}) = prev.nodes
     /\ ~PatchFails(m)
     /\ prev.unused = PatchIds(m) \ prev.nodes
     /\ \A id \in prev.nodes :
          /\ IsPath(id.source) => id.source \in DOMAIN m.dirs /\ PathPkg(m, id.source) = id
          /\ \A dep \in DependenciesOf(m, id) : Targets(id) \intersect Unheld(m, prev, dep) # {}
          /\ \A to \in Targets(id) : \E dep \in DependenciesOf(m, id) : to \in Unheld(m, prev, dep)

\* A build whose lock file still answers every dependency resolves to exactly
\* what is locked, whatever was published or yanked since and however the
\* manifests got where they are (register_previous_locks, lock): no edge of
\* the graph moves.
LockHonoured ==
  \A c \in LkCargo :
    Resolved(c) /\ lk[c].cmd.name # "update" /\ StillSolves(lk[c].ws, lk[c].prev)
      => lk[c].resolve = lk[c].prev

\* A package that was not locked before enters the resolution only where
\* nothing locked would do, where a patch puts it, or where cargo update was
\* asked for it: poisoning a whole registry after an edit leaves the rest
\* where it was (resolve.rs, "conservative updates").
OnlyNeededEnter ==
  \A c \in LkCargo : Resolved(c) =>
    LET prev == lk[c].prev
        kept == prev.nodes \ (ToAvoid(prev, lk[c].cmd, lk[c].ws) \union MovedOn(lk[c].ws, prev))
        m == lk[c].ws
    IN \A e \in lk[c].resolve.edges :
         e[2] \notin prev.nodes \union PatchIds(m) =>
           \E dep \in DependenciesOf(m, e[1]) :
             /\ MatchesId(dep, e[2])
             /\ Unheld(m, prev, dep) \intersect kept = {}

\* The lock file holds still: it is read as it was written, kept while it answers, and
\* changed no further than needed.
LockRight == LockRoundTrip /\ LockHonoured /\ OnlyNeededEnter
=============================================================================
