------------------------------ MODULE UnitDeps ------------------------------
(***************************************************************************)
(* From resolved features to the graph of units to build: the root units   *)
(* (ops/cargo_compile/unit_generator.rs), their dependencies               *)
(* (compiler/unit_dependencies.rs, with UnitFor of workspace/profiles.rs)  *)
(* and the sharing of units that turn out the same                         *)
(* (ops/cargo_compile/mod.rs).                                             *)
(*                                                                         *)
(* A workspace has in addition                                             *)
(*   targets : [Crate -> SUBSET {"lib", "bin", "test", "script"}];         *)
(*   required : [Crate -> the required-features of its binary];            *)
(*   links : SUBSET Crate, those with a links key; overridden: those for   *)
(*     which the configuration of a platform replaces the build script, as *)
(*     pairs of a crate and a triple;                                      *)
(*   intent : "build", "check", "test", "doc" (with dependencies);         *)
(*   only : the kinds of targets asked for, or {};                         *)
(*   abort : whether the profile says panic = "abort".                     *)
(***************************************************************************)
EXTENDS Features, FiniteSets

VARIABLES
  unit_dependencies,     \* a function from units to sets of unit dependencies
  visits,                \* the calls of deps_of to be made, the next one first
  dev_dependency_edges,
  roots,                 \* the root units
  stage                  \* "features", "deps", "links", "share" and "done" or "error"

unitvars == <<unit_dependencies, visits, dev_dependency_edges, roots, stage>>

Unhosted == "none"  \* no artifact target

IsMacro(p, t) == t = "lib" /\ p \in fworld.proc_macro
ForHost(p, t) == t = "script" \/ IsMacro(p, t)
\* CompileKind::for_target.
ForTarget(kind, p, t) == IF ForHost(p, t) THEN "host" ELSE kind

UnitInit ==
  /\ unit_dependencies = [u \in {} |-> {}]
  /\ visits = <<>> /\ dev_dependency_edges = {} /\ roots = {} /\ stage = "features"
-----------------------------------------------------------------------------
(* UnitFor. *)

NewNormal(root) ==
  [host |-> FALSE, host_features |-> FALSE, unwind |-> FALSE, root |-> root, art |-> Unhosted]
NewHost(host_features, root) ==
  [NewNormal(root) EXCEPT !.host = TRUE, !.host_features = host_features, !.unwind = TRUE]
NewTest(root) == [NewNormal(root) EXCEPT !.unwind = TRUE]
NewHostTest(root) == NewHost(TRUE, root)

WithDependency(uf, parent, p, t) ==
  [uf EXCEPT
     !.host = @ \/ ForHost(p, t),
     !.host_features = @ \/ parent.target = "script" \/ IsMacro(p, t),
     !.unwind = @ \/ ForHost(p, t),
     !.art = IF IsMacro(p, t) \/ parent.target = "script" THEN Unhosted ELSE @]

ForCustomBuild(uf) == [uf EXCEPT !.host = TRUE, !.unwind = TRUE]

\* ArtifactTarget::to_resolved_compile_kind, "plain" standing for no target.
ResolvedKind(artifact, root) == IF artifact = "target" THEN root ELSE artifact
TripleOf(kind) == IF kind \in {"host", "plain"} THEN Unhosted ELSE kind

MapToFeaturesFor(uf, artifact) ==
  LET t == IF artifact = "none" THEN uf.art ELSE TripleOf(ResolvedKind(artifact, uf.root))
  IN  IF t # Unhosted THEN ArtifactDep(t) ELSE IF uf.host_features THEN HostDep ELSE NormalOrDev
-----------------------------------------------------------------------------
(* Units. *)

NotFound == {"panic"}
ActivatedFeatures(p, fk) ==
  IF <<p, ApplyOpts(fk)>> \in DOMAIN activated_features
  THEN activated_features[<<p, ApplyOpts(fk)>>] ELSE NotFound
IsDepActivated(p, fk, name) == name \in At(activated_dependencies, <<p, ApplyOpts(fk)>>)

\* Profiles::get_profile: what of a profile differs between units. The debuginfo of what is
\* built for the host is deferred.
GetProfile(uf) ==
  [panic |-> IF uf.unwind \/ ~fworld.abort THEN "unwind" ELSE "abort", deferred |-> uf.host]
RunProfile(profile) == [panic |-> "unwind", deferred |-> profile.deferred]

NewUnitWith(p, t, uf, kind, mode, profile, artifact) ==
  LET fk == MapToFeaturesFor(uf, artifact)
      triples == {tr \in {HostTriple, "arm"} : fk = ArtifactDep(tr)}
  IN  [unit |-> [pkg |-> p, target |-> t, kind |-> kind, mode |-> mode, profile |-> profile,
                 features |-> ActivatedFeatures(p, fk), artifact |-> artifact # "none",
                 art |-> IF triples = {} THEN Unhosted ELSE CHOOSE tr \in triples : TRUE],
       unit_for |-> uf]
NewUnitDep(p, t, uf, kind, mode, artifact) ==
  NewUnitWith(p, t, uf, kind, mode, GetProfile(uf), artifact)

CheckOrBuildMode(mode, p, t) ==
  IF mode \in {"check", "doc"} /\ ~ForHost(p, t) THEN "check" ELSE "build"

AnyTest(mode) == mode \in {"test", "doctest"}

\* State::deps.
UnitDepsOf(u, uf) ==
  {d \in fworld.deps[u.pkg] :
     /\ (u.target = "script") = (d.kind = "build")
     /\ d.kind = "dev" => u.target = "test" \/ AnyTest(u.mode)
     /\ PlatformActivated(d, u.kind)
     /\ d.optional => IsDepActivated(u.pkg, MapToFeaturesFor(uf, "none"), d.name)}

\* artifact_targets_to_unit_deps, for the binary of a package.
ArtifactUnits(uf, kind, d) ==
  {NewUnitDep(d.crate, t, uf, kind, "build", d.artifact) : t \in fworld.targets[d.crate] \intersect {"bin"}}

\* calc_artifact_deps: the artifacts, unless for a build script, whose run needs them.
ArtifactDepsOf(u, uf, deps) ==
  IF u.target = "script" THEN {}
  ELSE UNION {ArtifactUnits([uf EXCEPT !.art = IF d.artifact = "target" THEN Unhosted ELSE TripleOf(d.artifact)],
                            IF d.artifact \in {"plain", "target"} THEN u.kind ELSE d.artifact, d)
              : d \in {e \in deps : e.artifact # "none"}}

\* The libraries among the dependencies: not those needed only as artifacts.
LibCrates(deps) ==
  {p \in {d.crate : d \in {e \in deps : e.lib \/ e.artifact = "none"}} : "lib" \in fworld.targets[p]}

LibUnit(u, uf, p, mode) ==
  NewUnitDep(p, "lib", WithDependency(uf, u, p, "lib"), ForTarget(u.kind, p, "lib"), mode, "none")
LibUnits(u, uf, deps) == {LibUnit(u, uf, p, CheckOrBuildMode(u.mode, p, "lib")) : p \in LibCrates(deps)}

\* dep_build_script: the run of the build script.
ScriptUnits(u, uf) ==
  {NewUnitWith(u.pkg, t, ForCustomBuild(uf), u.kind, "run", RunProfile(u.profile), "none")
     : t \in fworld.targets[u.pkg] \intersect {"script"}}

MaybeLib(u, uf) ==
  {LibUnit(u, uf, u.pkg, CheckOrBuildMode(u.mode, u.pkg, t)) : t \in fworld.targets[u.pkg] \intersect {"lib"}}

\* A test needs the binaries of its package whose required features are on.
TestBins(u, uf) ==
  {NewUnitDep(u.pkg, t, NewNormal(uf.root), ForTarget(u.kind, u.pkg, t), "build", "none")
     : t \in {b \in fworld.targets[u.pkg] :
                /\ b = "bin" /\ u.mode = "test" /\ u.target = "test"
                /\ fworld.required[u.pkg] \subseteq ActivatedFeatures(u.pkg, NormalOrDev)}}

\* links_overrides of the unit's platform.
LinksOverridden(u) ==
  u.pkg \in fworld.links /\ <<u.pkg, IF u.kind = "host" THEN HostTriple ELSE u.kind>> \in fworld.overridden

\* compute_deps_custom_build: the compiled script, and the artifacts it needs; nothing when the
\* script is overridden.
DepsCustomBuild(u, uf) ==
  IF LinksOverridden(u) THEN {} ELSE
  LET script_for == ForCustomBuild(uf)
      artifacts == {d \in UnitDepsOf(u, script_for) : d.kind = "build" /\ d.artifact # "none"}
  IN  {NewUnitDep(u.pkg, "script", script_for, "host", "build", "none")}
      \union UNION {LET kind == ResolvedKind(d.artifact, uf.root)
                    IN  ArtifactUnits([NewHost(TRUE, uf.root) EXCEPT !.art = TripleOf(kind)],
                                      IF kind = "plain" THEN "host" ELSE kind, d) : d \in artifacts}

DepsDoc(u, uf) ==
  LET deps == UnitDepsOf(u, uf) IN
  ArtifactDepsOf(u, uf, deps) \union LibUnits(u, uf, deps)
    \union {LibUnit(u, uf, p, "doc") : p \in LibCrates(deps)}
    \union ScriptUnits(u, uf)
    \union (IF u.target = "bin"
            THEN MaybeLib(u, uf) \union {LibUnit(u, uf, u.pkg, "doc") : t \in fworld.targets[u.pkg] \intersect {"lib"}}
            ELSE {})

ComputeDeps(u, uf) ==
  CASE u.mode = "run" -> DepsCustomBuild(u, uf)
    [] u.mode = "doc" -> DepsDoc(u, uf)
    [] OTHER ->
       LET deps == UnitDepsOf(u, uf)
           base == ArtifactDepsOf(u, uf, deps) \union LibUnits(u, uf, deps)
       IN  CASE u.target = "script" -> base
             [] u.target = "lib" /\ u.mode # "doctest" -> base \union ScriptUnits(u, uf)
             [] OTHER -> base \union ScriptUnits(u, uf) \union MaybeLib(u, uf) \union TestBins(u, uf)

\* The edges that come from development dependencies alone.
DevEdges(u, uf) ==
  IF u.mode \in {"run", "doc"} THEN {}
  ELSE LET deps == UnitDepsOf(u, uf)
           dev == {p \in LibCrates(deps) : \A d \in deps : d.crate = p => d.kind = "dev"}
       IN  {<<u, x.unit>> : x \in {y \in LibUnits(u, uf, deps) : y.unit.pkg \in dev}}
-----------------------------------------------------------------------------
(* The roots. *)

Tested == {"lib", "bin", "test"}
Proposed(p) ==
  LET default == CASE fworld.intent \in {"build", "check"} -> {"lib", "bin"}
                   [] fworld.intent = "doc" ->
                        IF "lib" \in fworld.targets[p] THEN {"lib"} ELSE {"lib", "bin"}
                   [] OTHER -> Tested
  IN  (IF fworld.only = {} THEN default ELSE fworld.only) \intersect (fworld.targets[p] \ {"script"})
ModeOf(t) == IF t = "test" /\ fworld.intent = "build" THEN "test" ELSE fworld.intent
Doctests(p) ==
  IF fworld.intent = "test" /\ fworld.only = {} THEN {t \in fworld.targets[p] : t = "lib" /\ p \notin fworld.proc_macro} ELSE {}

\* proposals_to_units leaves out a binary whose required features are off.
Available(p, t) == t = "bin" => fworld.required[p] \subseteq ActivatedFeatures(p, NormalOrDev)

\* Those asked for by name must have them.
Refused == fworld.only # {} /\ fworld.named
  /\ \E i \in 1..Len(fworld.members) :
       \E t \in Proposed(fworld.members[i]) : ~Available(fworld.members[i], t)

\* UnitGenerator::new_units, one per requested kind; the host is named by its triple until the
\* units are shared.
RootUnits(p, t, mode) ==
  {[pkg |-> p, target |-> t, kind |-> ForTarget(IF k = "host" THEN HostTriple ELSE k, p, t), mode |-> mode,
    profile |-> GetProfile(IF AnyTest(mode) \/ ForHost(p, t)
                           THEN NewTest(k) ELSE NewNormal(k)),
    features |-> ActivatedFeatures(p, IF IsMacro(p, t) THEN HostDep ELSE NormalOrDev),
    artifact |-> FALSE, art |-> Unhosted] : k \in fworld.kinds}

\* deps_of_roots.
RootFor(u) ==
  CASE AnyTest(u.mode) \/ fworld.intent = "test" ->
         IF IsMacro(u.pkg, u.target) THEN NewHostTest(u.kind) ELSE NewTest(u.kind)
    [] IsMacro(u.pkg, u.target) -> NewHost(TRUE, u.kind)
    [] OTHER -> NewNormal(u.kind)

AllRoots ==
  UNION {UNION {RootUnits(p, t, ModeOf(t)) : t \in {x \in Proposed(p) : Available(p, x)}}
           \union UNION {RootUnits(p, t, "doctest") : t \in Doctests(p)}
         : p \in ToSet(fworld.members)}

GenerateRoots ==
  /\ stage = "features" /\ FeaturesResolved
  /\ IF Refused
     THEN stage' = "error" /\ UNCHANGED <<roots, visits>>
     ELSE /\ stage' = "deps"
          /\ roots' = AllRoots
          /\ \E s \in {InSomeOrder(AllRoots)} :
               visits' = [i \in 1..Len(s) |-> [unit |-> s[i], unit_for |-> RootFor(s[i])]]
  /\ UNCHANGED <<featvars, unit_dependencies, dev_dependency_edges>>
-----------------------------------------------------------------------------
(* deps_of, and what follows. *)

deps_of ==
  /\ stage = "deps" /\ visits # <<>>
  /\ \E v \in {Head(visits)} :
       IF v.unit \in DOMAIN unit_dependencies
       THEN visits' = Tail(visits) /\ UNCHANGED <<unit_dependencies, dev_dependency_edges>>
       ELSE \E deps \in {ComputeDeps(v.unit, v.unit_for)} :
              /\ unit_dependencies' = (v.unit :> deps) @@ unit_dependencies
              /\ dev_dependency_edges' = dev_dependency_edges \union DevEdges(v.unit, v.unit_for)
              /\ visits' = InSomeOrder(deps) \o Tail(visits)
  /\ UNCHANGED <<featvars, roots, stage>>

\* validate_links: one package for each native library; here all with a links key name the same
\* one only in workspaces that say so.
SameLinks == fworld.clash /\ Cardinality({u.pkg : u \in DOMAIN unit_dependencies} \intersect fworld.links) > 1

ValidateLinks ==
  /\ stage = "deps" /\ visits = <<>>
  /\ stage' = IF SameLinks THEN "error" ELSE "links"
  /\ UNCHANGED <<featvars, unit_dependencies, visits, dev_dependency_edges, roots>>

UnitsOf(u) == {x.unit : x \in unit_dependencies[u]}

NotDev(parent, other) == <<parent, other>> \notin dev_dependency_edges

\* The other runs of build scripts that a run needs: those of the linkable packages with links
\* among the dependencies of the units that need this run.
RunsNeeded(u) ==
  UNION {UNION {{x \in unit_dependencies[other] : x.unit.mode = "run"} :
                  other \in {o \in UnitsOf(parent) :
                               /\ o.pkg # u.pkg /\ o.target = "lib" /\ o.pkg \in fworld.links
                               /\ NotDev(parent, o)}}
         : parent \in {q \in DOMAIN unit_dependencies : u \in UnitsOf(q)}}

connect_run_custom_build_deps ==
  /\ stage = "links"
  /\ unit_dependencies' = [u \in DOMAIN unit_dependencies |->
       IF u.mode = "run" THEN unit_dependencies[u] \union RunsNeeded(u) ELSE unit_dependencies[u]]
  /\ stage' = "share"
  /\ UNCHANGED <<featvars, visits, dev_dependency_edges, roots>>

\* remove_duplicate_doc: documentation for the host goes when nothing else is asked for.
DuplicateDocs ==
  {u \in DOMAIN unit_dependencies \ roots :
     /\ u.mode = "doc" /\ u.kind = "host" /\ fworld.kinds = {"host"}
     /\ \E v \in DOMAIN unit_dependencies \ {u} : v.mode = "doc" /\ v.pkg = u.pkg /\ v.target = u.target}

RECURSIVE Reached(_, _)
Reached(graph, units) ==
  LET more == UNION {{x.unit : x \in graph[u]} : u \in units}
  IN  IF more \subseteq units THEN units ELSE Reached(graph, units \union more)

Pruned ==
  LET graph == [u \in DOMAIN unit_dependencies \ DuplicateDocs |->
                  {x \in unit_dependencies[u] : x.unit \notin DuplicateDocs}]
  IN  IF fworld.intent = "doc" THEN [u \in Reached(graph, roots) |-> graph[u]] ELSE graph

Acyclic(graph) == \A u \in DOMAIN graph : u \notin Reached(graph, {x.unit : x \in graph[u]})

Canonical(kind) == IF "host" \in fworld.kinds /\ kind = HostTriple THEN "host" ELSE kind

\* Mutant: the unit looked for is for the host, as this one is.
ProbeOfHost(u) == [u EXCEPT !.profile.deferred = FALSE]

\* The unit of the target that the unit of the host would be the same as.
Probe(u) == [u EXCEPT !.kind = HostTriple, !.profile.deferred = FALSE]

\* Deferred debuginfo is weakened, unless the unit is there for the target too.
KeepsDebuginfo(graph, u, for_host) ==
  for_host /\ "host" \in fworld.kinds /\ u.profile.deferred /\ ~u.artifact => Probe(u) \in DOMAIN graph

\* traverse_and_share: a unit is replaced by one that does not say how it came about, but what
\* it depends on. s.memo holds the new units of those done, s.graph the new graph; the first of
\* the units that become one gives its dependencies.
RECURSIVE TraverseAndShare(_, _, _, _)
TraverseAndShare(graph, s, u, for_host) ==
  IF u \in DOMAIN s.memo THEN s
  ELSE LET below == FoldLeft(LAMBDA t, x : TraverseAndShare(graph, t, x.unit, x.unit_for.host),
                             s, InSomeOrder(graph[u]))
           new_deps == {[unit |-> below.memo[x.unit], unit_for |-> x.unit_for] : x \in graph[u]}
           new_unit == [pkg |-> u.pkg, target |-> u.target, kind |-> Canonical(u.kind), mode |-> u.mode,
                        panic |-> u.profile.panic, features |-> u.features, artifact |-> u.artifact,
                        debug |-> KeepsDebuginfo(graph, u, for_host),
                        dep_hash |-> {x.unit : x \in new_deps}]
       IN  [memo |-> below.memo @@ (u :> new_unit), graph |-> below.graph @@ (new_unit :> new_deps)]

rebuild_unit_graph_shared ==
  /\ stage = "share"
  /\ \E graph \in {Pruned} :
     \E s \in {FoldLeft(LAMBDA t, u : TraverseAndShare(graph, t, u, FALSE),
                         [memo |-> [u \in {} |-> u], graph |-> [u \in {} |-> {}]], InSomeOrder(roots))} :
       /\ unit_dependencies' = s.graph
       /\ roots' = {s.memo[u] : u \in roots}
  /\ stage' = "done"
  /\ UNCHANGED <<featvars, visits, dev_dependency_edges>>

UnitNext ==
  \/ (FeatureNext /\ UNCHANGED unitvars)
  \/ GenerateRoots \/ deps_of \/ ValidateLinks
  \/ connect_run_custom_build_deps \/ rebuild_unit_graph_shared
-----------------------------------------------------------------------------
(* Properties. *)

\* No unit is built with features that were not resolved for its purpose: the purposes the
\* feature resolver walks are those the unit graph asks for, and activated_features never panics.
FeaturesAreResolved ==
  \A u \in DOMAIN unit_dependencies : u.features # NotFound

\* The calls of deps_of there would be without the map.
RECURSIVE AllVisits(_)
AllVisits(vs) ==
  LET more == UNION {ComputeDeps(v.unit, v.unit_for) : v \in vs}
  IN  IF more \subseteq vs THEN vs ELSE AllVisits(vs \union more)

\* The map of dependencies does not include unit_for, and a unit that is met again is not looked
\* into again: whatever else it is needed for, it and all below it have the dependencies that
\* were computed the first time. (Not so for a procedural macro whose build script needs an
\* artifact for the target, built for two targets with -Zbindeps: the macro is one unit, and its
\* script finds the artifact of the target met first. No world of the runs has one.)
UnitForIrrelevant ==
  stage = "links" =>
    \A v \in AllVisits({[unit |-> u, unit_for |-> RootFor(u)] : u \in roots}) :
      /\ v.unit \in DOMAIN unit_dependencies
      /\ UnitsOf(v.unit) = {x.unit : x \in ComputeDeps(v.unit, v.unit_for)}

\* The graph has no cycle, though development dependencies may go back to the package and runs of
\* build scripts depend on each other.
UnitGraphAcyclic == stage \in {"share", "done"} => Acyclic(unit_dependencies)

\* Every unit has features that were resolved and one set of dependencies, in a graph without
\* cycles.
UnitsRight == FeaturesAreResolved /\ UnitForIrrelevant /\ UnitGraphAcyclic

DependsOn(test(_)) == \E c \in Crate : \E d \in fworld.deps[c] : test(d)
ForHostTriple(d) == d.artifact = HostTriple

\* What is needed for the host and for the target is built once: the shared graph has no two
\* units that differ in nothing but the debuginfo, which is weakened where nothing for the target
\* uses the unit. (Below an artifact for the triple of the host itself units are not found by the
\* probe, which has no artifact target, and may be built twice: those workspaces are left out
\* here.) And sharing does not depend on the way a unit is met first, which is what the
\* memo keeps: every way to it, as a root or as a dependency, gives it the same debuginfo.
SharedOnce ==
  /\ stage = "done" /\ ~DependsOn(ForHostTriple) =>
       \A n, m \in DOMAIN unit_dependencies : [n EXCEPT !.debug = m.debug] = m => n = m
  /\ stage = "share" =>
       LET graph == Pruned IN
       \A u \in DOMAIN graph : \A x \in graph[u] :
         /\ x.unit \in roots => KeepsDebuginfo(graph, x.unit, x.unit_for.host)
         /\ \A v \in DOMAIN graph : \A y \in graph[v] :
              x.unit = y.unit =>
                KeepsDebuginfo(graph, x.unit, x.unit_for.host) = KeepsDebuginfo(graph, y.unit, y.unit_for.host)
=============================================================================
