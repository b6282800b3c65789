------------------------------ MODULE Features ------------------------------
(***************************************************************************)
(* FeatureResolver (resolver/features.rs): which features and optional     *)
(* dependencies are on, for each package and each purpose it is built for. *)
(* A depth-first walk, kept here as the stack of the calls to be made.     *)
(*                                                                         *)
(* A workspace w of FeatureWorlds has                                      *)
(*   members; of the command line: requested, the features, and whether    *)
(*     default_features and all_features are wanted;                       *)
(*   proc_macro : SUBSET Crate;                                            *)
(*   features : [Crate -> [names -> Seq(feature values)]];                 *)
(*   deps : [Crate -> the dependencies], each one with its crate, the name *)
(*     and features it has in the manifest, whether it is optional, its    *)
(*     kind, platform and artifact ("none", "plain", "target" for the      *)
(*     target of the build, or a triple), and lib, whether also a library; *)
(*   kinds : the requested targets; opts : the FeatureOpts.                *)
(* A feature value is <<"feature", f>>, <<"dep", d>> or                    *)
(* <<"dep_feature", d, f, weak>>.                                          *)
(***************************************************************************)
EXTENDS Integers, SequencesExt

CONSTANTS Crate, FeatureWorlds

VARIABLES
  fworld,   \* one of FeatureWorlds
  calls,    \* the calls to be made, the next one first
  activated_features, activated_dependencies,  \* functions from keys to sets
  processed_deps, deferred_weak_dependencies

featvars == <<fworld, calls, activated_features, activated_dependencies, processed_deps,
              deferred_weak_dependencies>>

NormalOrDev == "normal"
HostDep == "host"
ArtifactDep(t) == "artifact " \o t
HostTriple == "x86"

ApplyOpts(fk) == IF fworld.opts.decouple_host_deps THEN fk ELSE NormalOrDev
TrackForHost == fworld.opts.decouple_host_deps \/ fworld.opts.ignore_inactive_targets

\* The platform of a dependency for a CompileKind, "host" or a triple.
PlatformActivated(d, kind) ==
  d.platform \in {"any", IF kind = "host" THEN HostTriple ELSE kind}

DepActive(d, fk) ==
  CASE d.kind = "build" \/ fk = HostDep -> PlatformActivated(d, "host")
    [] fk = NormalOrDev -> \E k \in fworld.kinds : PlatformActivated(d, k)
    [] OTHER -> \E t \in {HostTriple, "arm"} : fk = ArtifactDep(t) /\ PlatformActivated(d, t)

\* artifact_features_for: the purposes a dependency is built for.
ArtifactFeaturesFor(d, lib_fk) ==
  LET forced == CASE d.artifact \in {"none", "plain"} -> {}
                  [] d.artifact = "target" ->
                       {ArtifactDep(IF k = "host" THEN HostTriple ELSE k) : k \in fworld.kinds}
                  [] OTHER -> {ArtifactDep(d.artifact)}
  IN  forced \union (IF d.lib \/ d.artifact \in {"none", "plain"} THEN {lib_fk} ELSE {})

LibFk(d, fk) ==
  IF fk # HostDep /\ TrackForHost /\ (d.kind = "build" \/ d.crate \in fworld.proc_macro)
  THEN HostDep ELSE fk

InSomeOrder(set) == FoldSet(LAMBDA x, s : <<x>> \o s, <<>>, set)

\* FeatureResolver::deps, as pairs of a dependency and a purpose.
FeatureDeps(p, fk) ==
  UNION {{<<d, to>> : to \in ArtifactFeaturesFor(d, LibFk(d, fk))} :
           d \in {e \in fworld.deps[p] :
                    /\ e.platform # "any" /\ fworld.opts.ignore_inactive_targets => DepActive(e, fk)
                    /\ ~(fworld.opts.decouple_dev_deps /\ e.kind = "dev")}}

HasFeature(p, f) == f \in DOMAIN fworld.features[p]
DefaultFeature(p) == IF HasFeature(p, "default") THEN <<<<"feature", "default">>>> ELSE <<>>
FvsFromDependency(d) ==
  [i \in 1..Len(d.features) |-> <<"feature", d.features[i]>>]
    \o (IF d.uses_default THEN DefaultFeature(d.crate) ELSE <<>>)
FvsFromRequested(p) ==
  fworld.requested
    \o (IF fworld.default_features THEN DefaultFeature(p) ELSE <<>>)
    \o (IF fworld.all_features
        THEN InSomeOrder({<<"feature", f>> : f \in DOMAIN fworld.features[p]}) ELSE <<>>)

\* The calls of do_resolve.
MemberCalls(p) ==
  LET call(fk) == [fn |-> "pkg", p |-> p, fk |-> fk, arg |-> FvsFromRequested(p)]
  IN  IF TrackForHost /\ p \in fworld.proc_macro
      THEN <<call(NormalOrDev), call(HostDep)>> ELSE <<call(NormalOrDev)>>

FeatureInit ==
  /\ fworld \in FeatureWorlds
  /\ calls = FlattenSeq([i \in 1..Len(fworld.members) |-> MemberCalls(fworld.members[i])])
  /\ activated_features = [k \in {} |-> {}]
  /\ activated_dependencies = [k \in {} |-> {}]
  /\ processed_deps = {}
  /\ deferred_weak_dependencies = [k \in {} |-> {}]
-----------------------------------------------------------------------------
At(map, key) == IF key \in DOMAIN map THEN map[key] ELSE {}
With(map, key, set) == (key :> (At(map, key) \union set)) @@ map

\* The next call, if it is one of fn; it is replaced by the calls it makes.
Called(fn) == {c \in {calls[i] : i \in (1..Len(calls)) \intersect {1}} : c.fn = fn}
Calls(makes) == calls' = makes \o Tail(calls)

ActivateFv(p, fk, fv) == [fn |-> fv[1], p |-> p, fk |-> fk, arg |-> fv]
ActivatePkg(d, fk) == [fn |-> "pkg", p |-> d.crate, fk |-> fk, arg |-> FvsFromDependency(d)]

\* Mutant: a package without features gets no entry.
activate_pkgNoEntry ==
  \E c \in Called("pkg") :
    /\ Calls([i \in 1..Len(c.arg) |-> ActivateFv(c.p, c.fk, c.arg[i])]
                      \o <<[fn |-> "deps", p |-> c.p, fk |-> c.fk, arg |-> <<>>]>>)
    /\ UNCHANGED <<fworld, activated_features, activated_dependencies, processed_deps,
                   deferred_weak_dependencies>>

\* activate_pkg: the features asked for, then the dependencies.
activate_pkg ==
  \E c \in Called("pkg") :
    /\ Calls([i \in 1..Len(c.arg) |-> ActivateFv(c.p, c.fk, c.arg[i])]
                      \o <<[fn |-> "deps", p |-> c.p, fk |-> c.fk, arg |-> <<>>]>>)
    /\ activated_features' = With(activated_features, <<c.p, ApplyOpts(c.fk)>>, {})
    /\ UNCHANGED <<fworld, activated_dependencies, processed_deps, deferred_weak_dependencies>>

ProcessDeps ==
  \E c \in Called("deps") :
    /\ Calls(IF <<c.p, c.fk>> \in processed_deps THEN <<>>
         ELSE LET required == {x \in FeatureDeps(c.p, c.fk) : ~x[1].optional}
              IN  InSomeOrder({ActivatePkg(x[1], x[2]) : x \in required}))
    /\ processed_deps' = processed_deps \union {<<c.p, c.fk>>}
    /\ UNCHANGED <<fworld, activated_features, activated_dependencies, deferred_weak_dependencies>>

\* activate_rec: a feature, and what it enables.
activate_rec ==
  \E c \in Called("feature") : \E f \in {c.arg[2]}, key \in {<<c.p, ApplyOpts(c.fk)>>} :
    /\ Calls(IF f \in At(activated_features, key) \/ ~HasFeature(c.p, f) THEN <<>>
         ELSE LET fvs == fworld.features[c.p][f]
              IN  [i \in 1..Len(fvs) |-> ActivateFv(c.p, c.fk, fvs[i])])
    /\ activated_features' = With(activated_features, key, {f})
    /\ UNCHANGED <<fworld, activated_dependencies, processed_deps, deferred_weak_dependencies>>

\* activate_dependency: an optional dependency, with the features that waited for it.
activate_dependency ==
  \E c \in Called("dep") : \E waiting \in {<<c.p, c.fk, c.arg[2]>>} :
    /\ \E named \in {InSomeOrder({x \in FeatureDeps(c.p, c.fk) : x[1].name = c.arg[2]})} :
       \E fs \in {InSomeOrder(At(deferred_weak_dependencies, waiting))} :
         Calls(FlattenSeq([i \in 1..Len(named) |->
           [j \in 1..Len(fs) |-> ActivateFv(named[i][1].crate, named[i][2], <<"feature", fs[j]>>)]
             \o <<ActivatePkg(named[i][1], named[i][2])>>]))
    /\ activated_dependencies' =
         With(activated_dependencies, <<c.p, ApplyOpts(c.fk)>>, {c.arg[2]})
    /\ deferred_weak_dependencies' =
         [k \in DOMAIN deferred_weak_dependencies \ {waiting} |-> deferred_weak_dependencies[k]]
    /\ UNCHANGED <<fworld, activated_features, processed_deps>>

\* activate_dep_feature looks at the dependencies of that name one by one.
activate_dep_feature ==
  \E c \in Called("dep_feature") :
    /\ \E named \in {InSomeOrder({x \in FeatureDeps(c.p, c.fk) : x[1].name = c.arg[2]})} :
         Calls([i \in 1..Len(named) |-> [fn |-> "each", p |-> c.p, fk |-> c.fk,
                                     arg |-> <<named[i], c.arg[3], c.arg[4]>>]])
    /\ UNCHANGED <<fworld, activated_features, activated_dependencies, processed_deps,
                   deferred_weak_dependencies>>

\* The feature that waits for the dependency to be activated.
Defers(c) == <<c.arg[2]>>

EachDepFeature ==
  \E c \in Called("each") : \E d \in {c.arg[1][1]}, f \in {c.arg[2]}, weak \in {c.arg[3]} :
    /\ IF d.optional /\ weak
            /\ d.name \notin At(activated_dependencies, <<c.p, ApplyOpts(c.fk)>>)
       THEN /\ Calls(<<>>)
            /\ deferred_weak_dependencies' =
                 With(deferred_weak_dependencies, <<c.p, c.fk, d.name>>, ToSet(Defers(c)))
       ELSE /\ Calls((IF d.optional THEN <<ActivateFv(c.p, c.fk, <<"dep", d.name>>)>> ELSE <<>>)
                 \o (IF d.optional /\ ~weak /\ HasFeature(c.p, d.name)
                     THEN <<ActivateFv(c.p, c.fk, <<"feature", d.name>>)>> ELSE <<>>)
                 \o <<ActivateFv(d.crate, c.arg[1][2], <<"feature", f>>)>>)
            /\ UNCHANGED deferred_weak_dependencies
    /\ UNCHANGED <<fworld, activated_features, activated_dependencies, processed_deps>>

FeatureNext ==
  \/ activate_pkg \/ ProcessDeps \/ activate_rec \/ activate_dependency \/ activate_dep_feature
  \/ EachDepFeature

FeaturesResolved == calls = <<>>
-----------------------------------------------------------------------------
(* What the features are, whatever the order. *)

\* Facts are <<"pkg", p, fk>>, <<"on", p, fk, f>> and <<"dep", p, fk, name>>. What follows from
\* feature values of a package:
FromFv(facts, p, fk, fv) ==
  CASE fv[1] = "feature" -> {<<"on", p, fk, fv[2]>>}
    [] fv[1] = "dep" -> {<<"dep", p, fk, fv[2]>>}
    [] OTHER ->
       UNION {IF x[1].optional /\ fv[4] /\ <<"dep", p, fk, fv[2]>> \notin facts THEN {}
              ELSE {<<"on", x[1].crate, x[2], fv[3]>>}
                   \union (IF x[1].optional THEN {<<"dep", p, fk, fv[2]>>} ELSE {})
                   \union (IF x[1].optional /\ ~fv[4] /\ HasFeature(p, fv[2])
                           THEN {<<"on", p, fk, fv[2]>>} ELSE {})
              : x \in {y \in FeatureDeps(p, fk) : y[1].name = fv[2]}}

FromDep(facts, d, fk) ==
  {<<"pkg", d.crate, fk>>} \union UNION {FromFv(facts, d.crate, fk, fv) : fv \in ToSet(FvsFromDependency(d))}

\* What follows from a fact.
Follows(facts, x) ==
  CASE x[1] = "pkg" ->
         UNION {FromDep(facts, y[1], y[2]) : y \in {z \in FeatureDeps(x[2], x[3]) : ~z[1].optional}}
    [] x[1] = "on" ->
         IF HasFeature(x[2], x[4])
         THEN UNION {FromFv(facts, x[2], x[3], fv) : fv \in ToSet(fworld.features[x[2]][x[4]])}
         ELSE {}
    [] OTHER ->
         UNION {FromDep(facts, y[1], y[2]) : y \in {z \in FeatureDeps(x[2], x[3]) : z[1].name = x[4]}}

RECURSIVE Closure(_)
Closure(facts) ==
  LET more == UNION {Follows(facts, x) : x \in facts}
      asked == UNION {UNION {FromFv(facts, c.p, c.fk, fv) : fv \in ToSet(c.arg)} :
                        c \in UNION {ToSet(MemberCalls(fworld.members[i])) : i \in 1..Len(fworld.members)}}
  IN  IF more \union asked \subseteq facts THEN facts ELSE Closure(facts \union more \union asked)

Facts ==
  Closure({<<"pkg", c.p, c.fk>> :
             c \in UNION {ToSet(MemberCalls(fworld.members[i])) : i \in 1..Len(fworld.members)}})

\* In whatever order features, optional and weak dependencies are met, the features of a package
\* are those that follow from the manifests and the command line, and no others.
FeaturesFollow ==
  FeaturesResolved =>
    LET facts == Facts
        key(x) == <<x[2], ApplyOpts(x[3])>>
        has(kind, k) == {x[4] : x \in {y \in facts : y[1] = kind /\ key(y) = k}}
    IN  /\ DOMAIN activated_features = {key(x) : x \in {y \in facts : y[1] \in {"pkg", "on"}}}
        /\ \A k \in DOMAIN activated_features : activated_features[k] = has("on", k)
        /\ DOMAIN activated_dependencies = {key(x) : x \in {y \in facts : y[1] = "dep"}}
        /\ \A k \in DOMAIN activated_dependencies : activated_dependencies[k] = has("dep", k)
=============================================================================
