------------------------------- MODULE Publish -------------------------------
(***************************************************************************)
(* cargo package and cargo publish for the members of a workspace          *)
(* (ops/cargo_package, ops/registry/cargo_publish.rs): the tarballs are    *)
(* made in a scratch directory under file locks, verified against each     *)
(* other through a temporary registry, and uploaded in the order of their  *)
(* dependencies, each one when those it needs are seen in the index.       *)
(*                                                                         *)
(* A package is a number, its place in the order of package ids. What a    *)
(* tarball contains is the number of times its package was edited.         *)
(***************************************************************************)
EXTENDS Integers, SequencesExt

CONSTANTS
  Pkg,
  PubCargo,      \* processes
  PubWorkspaces, \* the workspaces and commands to consider
  Edits,         \* bound: edits of the sources
  Lost           \* bound: uploads whose answer is lost

ASSUME PubNatural == Pkg \subseteq Nat /\ Edits \in Nat /\ Lost \in Nat

\* deps: [Pkg -> SUBSET Pkg], the path dependencies that are published (with a version).
\* publish: [Pkg -> the registries of package.publish, or {AnyRegistry}].
\* select: [PubCargo -> SUBSET Pkg]; named: those whose packages are given by -p.
\* command: [PubCargo -> "package" | "publish" | "dry_run"].
\* registry: the --registry, "--index", or "none". verify: unless --no-verify is given.
\* lockfile: unless --exclude-lockfile is. published: what the registry has already.

VARIABLES
  pubws,     \* one of PubWorkspaces
  src,       \* [Pkg -> the edits of its sources]
  tarball,   \* [Pkg -> the package/tmp-crate/*.crate]: what is in it, and who locks it
  overlay,   \* package/tmp-registry: its lock, and its packages
  cratesio,  \* what was uploaded, by whom, and what the index shows
  pub,       \* [PubCargo -> the process]
  mishaps    \* edits and lost answers so far

pubvars == <<pubws, src, tarball, overlay, cratesio, pub, mishaps>>

AnyRegistry == "any"
CratesIo == "crates-io"
NoOne == "nobody"

NewPublish ==
  [at |-> "start", order |-> <<>>, made |-> {}, content |-> [p \in {} |-> 0], verified |-> {},
   target |-> "none", plan |-> [p \in {} |-> 0], ready |-> {}, to_confirm |-> {},
   listed |-> {}, uploads |-> {}]

PubInit ==
  /\ pubws \in PubWorkspaces
  /\ src = [p \in Pkg |-> 0]
  /\ tarball = [p \in Pkg |-> [content |-> -1, by |-> NoOne]]
  /\ overlay = [by |-> NoOne, pkgs |-> {}]
  /\ cratesio = [uploaded |-> pubws.published, index |-> pubws.published, content |-> [p \in Pkg |-> -1]]
  /\ pub = [c \in PubCargo |-> NewPublish]
  /\ mishaps = [edits |-> 0, lost |-> 0]
-----------------------------------------------------------------------------
(* Which packages, and which registry.                                     *)

IsPublish(c) == pubws.command[c] # "package"
DryRun(c) == pubws.command[c] = "dry_run"
Unpublishable(p) == pubws.publish[p] = {}

\* cargo publish leaves out what cannot be published, unless it was named.
PkgsSelected(c) ==
  IF IsPublish(c) THEN {p \in pubws.select[c] : ~Unpublishable(p)} ELSE pubws.select[c]
NamedUnpublishable(c) ==
  IsPublish(c) /\ c \in pubws.named /\ \E p \in pubws.select[c] : Unpublishable(p)

\* infer_registry: what package.publish says when all say the same and name one registry.
Ambiguous == "ambiguous"
InferRegistry(c) ==
  LET fields == {pubws.publish[p] : p \in {q \in PkgsSelected(c) : ~Unpublishable(q)}}
      field == CHOOSE f \in fields : TRUE
  IN  CASE fields = {} -> CratesIo
        [] Cardinality(fields) > 1 -> Ambiguous
        [] field = {AnyRegistry} -> CratesIo
        [] Cardinality(field) = 1 -> CHOOSE r \in field : TRUE
        [] OTHER -> Ambiguous

Target(c) == IF pubws.registry = "none" THEN InferRegistry(c) ELSE pubws.registry

\* validate_registry of cargo publish; get_registry of cargo package lets pass what is not
\* published anywhere.
Allowed(c) ==
  \/ Target(c) = "--index"
  \/ \A p \in PkgsSelected(c) :
       \/ pubws.publish[p] = {AnyRegistry} \/ Target(c) \in pubws.publish[p]
       \/ (~IsPublish(c) /\ Unpublishable(p))

\* LocalDependencies: the dependencies among the packages.
LocalDeps(c, p) == (pubws.deps[p] \intersect PkgsSelected(c)) \ {p}
HasDependencies(c) == \E p \in PkgsSelected(c) : LocalDeps(c, p) # {}

\* When do_package makes a TmpRegistry. cargo publish always packs a lock file, and passes on
\* the registry it inferred.
PacksLockfile(c) == IsPublish(c) \/ pubws.lockfile
NeedsOverlay(c) ==
  \/ HasDependencies(c) /\ (PacksLockfile(c) \/ pubws.verify)
  \/ pubws.registry # "none"
  \/ IsPublish(c) /\ \A p \in PkgsSelected(c) : pubws.publish[p] # {AnyRegistry}

\* Graph::sort: dependencies first, otherwise in order.
RECURSIVE SortVisit(_, _, _)
SortVisit(c, acc, p) ==
  IF p \in acc.marks THEN acc
  ELSE LET below == FoldLeft(LAMBDA a, q : SortVisit(c, a, q),
                             [acc EXCEPT !.marks = @ \union {p}],
                             SetToSortSeq(LocalDeps(c, p), <))
       IN  [below EXCEPT !.dst = Append(@, p)]
SortedPkgs(c) ==
  FoldLeft(LAMBDA a, p : SortVisit(c, a, p), [dst |-> <<>>, marks |-> {}],
           SetToSortSeq(PkgsSelected(c), <)).dst
-----------------------------------------------------------------------------
PubAt(c, at) == pub[c].at = at
PubStep(c, r) == pub' = [pub EXCEPT ![c] = r] /\ UNCHANGED pubws

\* The process ends and its locks go.
PubEnds(c, r, how) ==
  /\ PubStep(c, [r EXCEPT !.at = how])
  /\ tarball' = [p \in Pkg |-> IF tarball[p].by = c THEN [tarball[p] EXCEPT !.by = NoOne]
                               ELSE tarball[p]]
  /\ overlay' = IF overlay.by = c THEN [overlay EXCEPT !.by = NoOne] ELSE overlay

\* publish, up to do_package: package selection, registry, and nothing published yet.
Start(c) ==
  /\ PubAt(c, "start")
  /\ IF IsPublish(c) /\ PkgsSelected(c) = {} /\ ~NamedUnpublishable(c)
     THEN PubEnds(c, pub[c], "ok")
     ELSE IF \/ NamedUnpublishable(c)
             \/ ((IsPublish(c) \/ NeedsOverlay(c)) /\ (Target(c) = Ambiguous \/ ~Allowed(c)))
             \/ (pubws.command[c] = "publish" /\ PkgsSelected(c) \intersect cratesio.index # {})
          THEN PubEnds(c, pub[c], "error")
          ELSE /\ PubStep(c, [pub[c] EXCEPT !.at = IF NeedsOverlay(c) THEN "overlay" ELSE "tarball",
                                            !.target = Target(c), !.order = SortedPkgs(c)])
               /\ UNCHANGED <<tarball, overlay>>
  /\ UNCHANGED <<src, cratesio, mishaps>>

\* TmpRegistry::new locks the directory and empties its index.
LockOverlay(c) ==
  /\ PubAt(c, "overlay") /\ overlay.by = NoOne
  /\ overlay' = [by |-> c, pkgs |-> {}]
  /\ PubStep(c, [pub[c] EXCEPT !.at = "tarball"])
  /\ UNCHANGED <<src, tarball, cratesio, mishaps>>

\* Mutant: the tarball is written without its lock.
LockTarballNot(c) ==
  /\ PubAt(c, "tarball") /\ pub[c].order # <<>>
  /\ tarball' = [tarball EXCEPT ![Head(pub[c].order)].content = -1]
  /\ PubStep(c, [pub[c] EXCEPT !.at = "tar"])
  /\ UNCHANGED <<src, overlay, cratesio, mishaps>>

\* create_package locks the tarball, which it keeps locked, and truncates it.
LockTarball(c) ==
  /\ PubAt(c, "tarball") /\ pub[c].order # <<>>
  /\ tarball[Head(pub[c].order)].by = NoOne
  /\ tarball' = [tarball EXCEPT ![Head(pub[c].order)] = [content |-> -1, by |-> c]]
  /\ PubStep(c, [pub[c] EXCEPT !.at = "tar"])
  /\ UNCHANGED <<src, overlay, cratesio, mishaps>>

\* build_lock resolves the package to be published: what it needs is in the temporary registry,
\* or in the index.
Resolvable(c, p) ==
  \A d \in pubws.deps[p] : (overlay.by = c /\ d \in overlay.pkgs) \/ d \in cratesio.index

\* tar, and TmpRegistry::add_package.
Tar(c) ==
  /\ PubAt(c, "tar")
  /\ \E p \in {Head(pub[c].order)} :
       IF PacksLockfile(c) => Resolvable(c, p)
       THEN /\ tarball' = [tarball EXCEPT ![p].content = src[p]]
            /\ overlay' = IF overlay.by = c /\ ~Unpublishable(p)
                          THEN [overlay EXCEPT !.pkgs = @ \union {p}] ELSE overlay
            /\ PubStep(c, [pub[c] EXCEPT !.at = "tarball", !.order = Tail(@), !.made = @ \union {p}])
       ELSE PubEnds(c, pub[c], "error")
  /\ UNCHANGED <<src, cratesio, mishaps>>

\* run_verify: the tarball is unpacked and compiled, which may fail.
Verify(c, p) ==
  /\ PubAt(c, "tarball") /\ pub[c].order = <<>> /\ pubws.verify
  /\ p \in pub[c].made \ pub[c].verified
  /\ \/ /\ Resolvable(c, p)
        /\ PubStep(c, [pub[c] EXCEPT !.verified = @ \union {p},
                                     !.content = (p :> tarball[p].content) @@ @])
        /\ UNCHANGED <<tarball, overlay>>
     \/ PubEnds(c, pub[c], "error")
  /\ UNCHANGED <<src, cratesio, mishaps>>

Packaged(c) ==
  /\ PubAt(c, "tarball") /\ pub[c].order = <<>>
  /\ pubws.verify => pub[c].verified = pub[c].made
-----------------------------------------------------------------------------
(* The rest of cargo publish. *)

\* PublishPlan::cycle_members: what remains when those without dependencies are taken away.
RECURSIVE CycleMembers(_, _)
CycleMembers(c, remaining) ==
  LET free == {p \in remaining : LocalDeps(c, p) \intersect remaining = {}}
  IN  IF free = {} THEN remaining ELSE CycleMembers(c, remaining \ free)

\* PublishPlan::new.
MakePlan(c) ==
  /\ IsPublish(c) /\ Packaged(c)
  /\ IF CycleMembers(c, PkgsSelected(c)) # {}
     THEN PubEnds(c, pub[c], "error")
     ELSE /\ PubStep(c, [pub[c] EXCEPT !.at = "ready",
                !.plan = [p \in PkgsSelected(c) |-> Cardinality(LocalDeps(c, p))]])
          /\ UNCHANGED <<tarball, overlay>>
  /\ UNCHANGED <<src, cratesio, mishaps>>

\* cargo package copies the tarballs to where they belong, and is done.
PackageReturns(c) ==
  /\ ~IsPublish(c) /\ Packaged(c)
  /\ PubEnds(c, pub[c], "ok")
  /\ UNCHANGED <<src, cratesio, mishaps>>

WithoutPkg(plan, set) == [p \in DOMAIN plan \ set |-> plan[p]]

\* PublishPlan::take_ready.
TakeReady(c) ==
  /\ PubAt(c, "ready") /\ DOMAIN pub[c].plan # {}
  /\ \E ready \in {{p \in DOMAIN pub[c].plan : pub[c].plan[p] = 0}} :
       IF ready = {} /\ pub[c].to_confirm = {}
       THEN PubEnds(c, pub[c], "internal error")
       ELSE /\ PubStep(c, [pub[c] EXCEPT !.at = "upload", !.ready = ready,
                                         !.plan = WithoutPkg(@, ready)])
            /\ UNCHANGED <<tarball, overlay>>
  /\ UNCHANGED <<src, cratesio, mishaps>>

\* transmit: the registry takes what it does not have. The answer may be lost. Those not
\* published yet are listed with an error.
Upload(c, p) ==
  /\ PubAt(c, "upload") /\ p \in pub[c].ready /\ \A q \in pub[c].ready : p <= q
  /\ \E taken \in {~DryRun(c) /\ p \notin cratesio.uploaded},
        lost \in IF DryRun(c) \/ mishaps.lost = Lost THEN {FALSE} ELSE BOOLEAN :
     \E r \in {[pub[c] EXCEPT !.ready = @ \ {p}, !.uploads = IF taken THEN @ \union {p} ELSE @]} :
       /\ cratesio' = IF taken
                      THEN [cratesio EXCEPT !.uploaded = @ \union {p},
                                            !.content[p] = tarball[p].content]
                      ELSE cratesio
       /\ mishaps' = IF lost THEN [mishaps EXCEPT !.lost = @ + 1] ELSE mishaps
       /\ IF lost \/ (~DryRun(c) /\ ~taken)
          THEN PubEnds(c, [r EXCEPT !.listed = r.ready \union DOMAIN r.plan], "error")
          ELSE /\ PubStep(c, [r EXCEPT !.to_confirm = @ \union {p}])
               /\ UNCHANGED <<tarball, overlay>>
  /\ UNCHANGED src

Minus(n, k) == IF n > k THEN n - k ELSE 0

\* The packages wait_for_any_publish_confirmation reports, which it asks for one by one.
Confirmed(c, available) == IF DryRun(c) THEN pub[c].to_confirm ELSE available

\* PublishPlan::mark_confirmed.
Confirm(c) ==
  /\ PubAt(c, "upload") /\ pub[c].ready = {}
  /\ \E available \in SUBSET (pub[c].to_confirm \intersect cratesio.index) :
     \E confirmed \in {Confirmed(c, available)} \ {{}} :
       \E r \in {[pub[c] EXCEPT
            !.at = "ready", !.to_confirm = @ \ confirmed,
            !.plan = [p \in DOMAIN @ |-> Minus(@[p], Cardinality(LocalDeps(c, p) \intersect confirmed))]]} :
          IF DOMAIN r.plan = {} THEN PubEnds(c, r, "ok")
          ELSE PubStep(c, r) /\ UNCHANGED <<tarball, overlay>>
  /\ UNCHANGED <<src, cratesio, mishaps>>

\* The timeout: an error, unless everything is uploaded.
TimedOut(c) ==
  /\ PubAt(c, "upload") /\ pub[c].ready = {} /\ ~DryRun(c)
  /\ pub[c].to_confirm \intersect cratesio.index = {}
  /\ PubEnds(c, pub[c], IF DOMAIN pub[c].plan = {} THEN "ok" ELSE "error")
  /\ UNCHANGED <<src, cratesio, mishaps>>
-----------------------------------------------------------------------------
(* Everything else. *)

\* The registry puts an upload into its index.
Indexed(p) ==
  /\ p \in cratesio.uploaded \ cratesio.index
  /\ cratesio' = [cratesio EXCEPT !.index = @ \union {p}]
  /\ UNCHANGED <<pubws, src, tarball, overlay, pub, mishaps>>

EditSource(p) ==
  /\ mishaps.edits < Edits
  /\ src' = [src EXCEPT ![p] = @ + 1]
  /\ mishaps' = [mishaps EXCEPT !.edits = @ + 1]
  /\ UNCHANGED <<pubws, tarball, overlay, cratesio, pub>>

PubCargoStep(c) ==
  \/ Start(c) \/ LockOverlay(c) \/ LockTarball(c) \/ Tar(c) \/ MakePlan(c) \/ PackageReturns(c)
  \/ TakeReady(c) \/ Confirm(c) \/ TimedOut(c)
  \/ \E p \in Pkg : Verify(c, p) \/ Upload(c, p)

PubNext ==
  \/ \E c \in PubCargo : PubCargoStep(c)
  \/ \E p \in Pkg : Indexed(p) \/ EditSource(p)
-----------------------------------------------------------------------------
(* Properties. *)

\* What cargo publish uploaded is what it verified, though the sources are edited and another
\* cargo makes a tarball of the same name meanwhile, in a registry the package allows.
UploadedIsVerified ==
  \A c \in PubCargo : \A p \in pub[c].uploads :
    /\ pubws.verify => cratesio.content[p] = pub[c].content[p]
    /\ pub[c].target = "--index" \/ pubws.publish[p] = {AnyRegistry}
         \/ pub[c].target \in pubws.publish[p]

\* A package is uploaded once those it depends on are in the index, and the plan never gets
\* stuck; with an error, exactly the packages not uploaded are listed, but for the one that
\* failed.
DependenciesFirst ==
  \A c \in PubCargo :
    /\ \A p \in pub[c].uploads : LocalDeps(c, p) \subseteq cratesio.index
    /\ pub[c].at # "internal error"
    /\ pub[c].listed \intersect pub[c].uploads = {}
    /\ pub[c].listed # {} => Cardinality(PkgsSelected(c) \ (pub[c].listed \union pub[c].uploads)) <= 1

\* What is uploaded is right, and so is when.
PublishRight == UploadedIsVerified /\ DependenciesFirst

=============================================================================
