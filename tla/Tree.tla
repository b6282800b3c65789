-------------------------------- MODULE Tree --------------------------------
(***************************************************************************)
(* cargo tree (ops/cargo_tree): the graph of packages, and with            *)
(* -e features of features, and how it is printed.                         *)
(*                                                                         *)
(* A node has its package, features and kind, and the feature it stands    *)
(* for, or NoFeature when it stands for the package. The options have      *)
(* edges, the kinds of dependencies shown; features, for -e features;      *)
(* all, for --target all; no_proc_macro; invert and prune, sets of         *)
(* packages; duplicates; no_dedupe; and depth.                             *)
(***************************************************************************)
EXTENDS UnitDeps

CONSTANT TreeOptions

VARIABLES
  topts,         \* the options, once the command has begun
  graph,         \* its nodes, edges <<from, kind, to>> and dep_name_map; the roots to print
  visited_deps,
  print_calls,   \* the calls of print_node to be made, with the nodes above; the next one first
  printed,       \* what was printed below what, and the nodes with a star
  treeat         \* "idle", "begun", "graph", "print" and "done" or "panic"

treevars == <<topts, graph, visited_deps, print_calls, printed, treeat>>

NoFeature == ""
NewGraph == [nodes |-> {}, edges |-> {}, dep_name_map |-> {}, cli |-> {}, from |-> {}, panic |-> FALSE]

TreeInit ==
  /\ topts = CHOOSE o \in TreeOptions : TRUE
  /\ graph = NewGraph /\ visited_deps = {} /\ print_calls = <<>>
  /\ printed = [lines |-> {}, starred |-> {}] /\ treeat = "idle"
-----------------------------------------------------------------------------
(* The packages. *)

NodeKind(fk, kind) ==
  LET triples == {t \in {HostTriple, "arm"} : fk = ArtifactDep(t)}
  IN  CASE fk = HostDep -> "host"
        [] fk = NormalOrDev -> kind
        [] OTHER -> CHOOSE t \in triples : TRUE
PackageNode(p, fk, kind) ==
  [pkg |-> p, features |-> ActivatedFeatures(p, fk), kind |-> NodeKind(fk, kind), feature |-> NoFeature]

\* The dependencies of a package that are shown.
ShownDeps(p, fk, node_kind) ==
  {d \in fworld.deps[p] :
     /\ topts.all \/ PlatformActivated(d, IF d.kind = "build" THEN "host" ELSE node_kind)
     /\ d.kind \in topts.edges
     /\ ~(topts.no_proc_macro /\ d.crate \in fworld.proc_macro)
     /\ d.optional => IsDepActivated(p, fk, d.name)}

DepFeaturesFor(d, fk, kind) ==
  LET target == IF d.artifact \in {"none", "plain"} THEN Unhosted
                ELSE TripleOf(ResolvedKind(d.artifact, kind))
  IN  CASE target # Unhosted -> ArtifactDep(target)
        [] fk # NormalOrDev -> fk
        [] OTHER -> IF d.kind = "build" \/ d.crate \in fworld.proc_macro THEN HostDep ELSE fk

\* add_feature, for a feature of the package of a node.
FeatureNode(node, f) == [node EXCEPT !.feature = f]
add_feature(g, f, node, from) ==
  [g EXCEPT !.nodes = @ \union {FeatureNode(node, f)},
            !.edges = @ \union {<<FeatureNode(node, f), "feature", node>>}
                        \union {<<x[1], x[2], FeatureNode(node, f)>> : x \in from}]

\* The edges of a dependency: through the features asked for, when features are shown.
AddEdges(g, node, d, to) ==
  LET asked == {d.features[i] : i \in 1..Len(d.features)}
               \union (IF d.uses_default THEN {"default"} ELSE {})
      named == [g EXCEPT !.dep_name_map = @ \union {<<node, d.name, to, d.optional>>}]
  IN  IF topts.features /\ asked # {}
      THEN FoldSet(LAMBDA f, acc : add_feature(acc, f, to, {<<node, d.kind>>}), named, asked)
      ELSE [named EXCEPT !.edges = @ \union {<<node, d.kind, to>>}]

\* By package, in some order of them, and kind.
InOrder(deps) ==
  FlattenSeq(FoldSet(LAMBDA p, s : s \o [i \in 1..3 |->
      InSomeOrder({d \in deps : d.crate = p /\ d.kind = <<"normal", "dev", "build">>[i]})],
    <<>>, {d.crate : d \in deps}))

RECURSIVE add_pkg(_, _, _, _)
add_pkg(g, p, fk, kind) ==
  LET node == PackageNode(p, fk, kind) IN
  IF node \in g.nodes THEN g
  ELSE FoldLeft(LAMBDA acc, d :
                  AddEdges(add_pkg(acc, d.crate, DepFeaturesFor(d, fk, kind), kind), node, d,
                           PackageNode(d.crate, DepFeaturesFor(d, fk, kind), kind)),
                [g EXCEPT !.nodes = @ \union {node}], InOrder(ShownDeps(p, fk, node.kind)))
-----------------------------------------------------------------------------
(* The features. *)

MemberFor(p) == IF p \in fworld.proc_macro THEN HostDep ELSE NormalOrDev

\* add_cli_features: a feature of a dependency must have it in the graph, unless it is weak.
Connections(g, node, name) == {x \in g.dep_name_map : x[1] = node /\ x[2] = name}
AddCliFeature(g, node, fv) ==
  IF fv[1] = "feature"
  THEN [add_feature(g, fv[2], node, {}) EXCEPT !.cli = @ \union {FeatureNode(node, fv[2])}]
  ELSE LET found == Connections(g, node, fv[2])
           shown == UNION {{<<x[3], fv[3]>>} \union (IF x[4] THEN {<<node, fv[2]>>} ELSE {}) : x \in found}
       IN  IF found = {} THEN [g EXCEPT !.panic = @ \/ ~fv[4]]
           ELSE FoldSet(LAMBDA x, acc : [add_feature(acc, x[2], x[1], {}) EXCEPT
                                           !.cli = @ \union {FeatureNode(x[1], x[2])}], g, shown)
AddCliFeatures(g, node) ==
  FoldSet(LAMBDA fv, acc : AddCliFeature(acc, node, fv), g,
          ToSet(fworld.requested)
            \union (IF fworld.all_features THEN {<<"feature", f>> : f \in DOMAIN fworld.features[node.pkg]} ELSE {})
            \union (IF fworld.default_features THEN {<<"feature", "default">>} ELSE {}))

AddMember(g, p, kind) ==
  LET with == add_pkg(g, p, MemberFor(p), kind)
  IN  IF topts.features THEN AddCliFeatures(with, PackageNode(p, MemberFor(p), kind)) ELSE with

\* What a feature enables: features of its package, and of its dependencies.
EnabledBy(g, from, node, fv) ==
  CASE fv[1] = "feature" -> {<<node, fv[2]>>}
    [] fv[1] = "dep" -> {}
    [] OTHER -> UNION {{<<x[3], fv[3]>>} \union (IF x[4] /\ ~fv[4] THEN {<<node, fv[2]>>} ELSE {})
                       : x \in Connections(g, node, fv[2])}

\* add_feature_rec, for a feature of the package of a node.
RECURSIVE add_feature_rec(_, _, _)
add_feature_rec(g, f, node) ==
  LET from == FeatureNode(node, f)
      fvs == IF HasFeature(node.pkg, f) THEN ToSet(fworld.features[node.pkg][f]) ELSE {}
      enabled == UNION {EnabledBy(g, from, node, fv) : fv \in fvs}
  IN  FoldSet(LAMBDA x, acc :
                LET more == add_feature(acc, x[2], x[1], {<<from, "feature">>})
                IN  IF FeatureNode(x[1], x[2]) \in acc.nodes THEN more
                    ELSE add_feature_rec(more, x[2], x[1]),
              g, enabled)

add_internal_features(g) ==
  FoldSet(LAMBDA n, acc : add_feature_rec(acc, n.feature, [n EXCEPT !.feature = NoFeature]), g,
          {n \in g.nodes : n.feature # NoFeature})
-----------------------------------------------------------------------------
(* build_and_print. *)

\* The features resolved for the build are those build_and_print resolves with such options.
ResolvedAlike(o) ==
  /\ fworld.opts.decouple_host_deps => fworld.opts.decouple_dev_deps = ("dev" \notin o.edges)
  /\ fworld.opts.ignore_inactive_targets = (fworld.opts.decouple_host_deps /\ ~o.all)

TreeBegins(o) ==
  /\ treeat = "idle" /\ stage = "done" /\ ResolvedAlike(o)
  /\ topts' = o /\ treeat' = "begun"
  /\ UNCHANGED <<graph, visited_deps, print_calls, printed>>

BuildGraph ==
  /\ treeat = "begun"
  /\ \E g \in {FoldSet(LAMBDA x, acc : AddMember(acc, x[1], x[2]), NewGraph,
                       ToSet(fworld.members) \X fworld.kinds)} :
       /\ graph' = IF topts.features THEN add_internal_features(g) ELSE g
       /\ treeat' = IF g.panic \/ \E n \in g.nodes : n.features = NotFound THEN "panic" ELSE "graph"
  /\ UNCHANGED <<topts, visited_deps, print_calls, printed>>

RECURSIVE Reachable(_, _)
Reachable(edges, nodes) ==
  LET more == {e[3] : e \in {x \in edges : x[1] \in nodes}}
  IN  IF more \subseteq nodes THEN nodes ELSE Reachable(edges, nodes \union more)

from_reachable(g, from) ==
  LET nodes == Reachable(g.edges, from)
  IN  [g EXCEPT !.nodes = nodes, !.edges = {e \in @ : e[1] \in nodes}]

\* Two nodes of a package that differ in more than the kind.
find_duplicates(g) ==
  {n \in g.nodes : \E m \in g.nodes : m.pkg = n.pkg /\ m.features # n.features}

invert(g) == [g EXCEPT !.edges = {<<e[3], e[2], e[1]>> : e \in @}]

\* The call of print_node for a node below others.
PrintNode(node, above) == [node |-> node, above |-> above]

StartPrinting ==
  /\ treeat = "graph"
  /\ \E ids \in {IF topts.invert = {} THEN ToSet(fworld.members) ELSE topts.invert} :
     \E found \in {{n \in graph.nodes : n.feature = NoFeature /\ n.pkg \in ids}} :
     \E within \in {IF topts.duplicates THEN from_reachable(graph, found) ELSE graph} :
     \E first \in {IF topts.duplicates THEN find_duplicates(within) ELSE found} :
       /\ graph' = [IF topts.invert # {} \/ topts.duplicates THEN invert(within) ELSE within
                      EXCEPT !.from = first]
       /\ \E s \in {InSomeOrder(first)} : print_calls' = [i \in 1..Len(s) |-> PrintNode(s[i], <<>>)]
  /\ treeat' = "print"
  /\ UNCHANGED <<topts, visited_deps, printed>>

\* print_dependencies: what is printed below a node.
Below(node) == {e[3] : e \in {x \in graph.edges : x[1] = node /\ (x[3].feature # NoFeature \/ x[3].pkg \notin topts.prune)}}

\* Mutant: whatever is about to be printed counts as visited.
VisitedEarly(node) == {node} \union Below(node)

Visited(node) == {node}

print_node ==
  /\ treeat = "print" /\ print_calls # <<>>
  /\ \E c \in {Head(print_calls)} :
     \E again \in {~topts.no_dedupe /\ c.node \in visited_deps},
        in_cycle \in {c.node \in ToSet(c.above)},
        has_deps \in {\E e \in graph.edges : e[1] = c.node} :
       /\ visited_deps' = IF topts.no_dedupe THEN visited_deps ELSE visited_deps \union Visited(c.node)
       /\ printed' = [lines |-> printed.lines \union (IF c.above = <<>> THEN {} ELSE {<<Last(c.above), c.node>>}),
                      starred |-> IF (again \/ in_cycle) /\ has_deps
                                  THEN printed.starred \union {c.node} ELSE printed.starred]
       /\ print_calls' =
            (IF again \/ in_cycle \/ Len(c.above) + 1 > topts.depth THEN <<>>
             ELSE LET below == InSomeOrder(Below(c.node))
                  IN  [i \in 1..Len(below) |-> PrintNode(below[i], Append(c.above, c.node))])
            \o Tail(print_calls)
  /\ UNCHANGED <<topts, graph, treeat>>

TreeReturns ==
  /\ treeat = "print" /\ print_calls = <<>>
  /\ treeat' = "done"
  /\ UNCHANGED <<topts, graph, visited_deps, print_calls, printed>>

TreeStep == (\E o \in TreeOptions : TreeBegins(o)) \/ BuildGraph \/ StartPrinting \/ print_node \/ TreeReturns

TreeNext == (TreeStep /\ UNCHANGED <<featvars, unitvars>>) \/ (UnitNext /\ UNCHANGED treevars)
-----------------------------------------------------------------------------
(* Properties. *)

Shown == graph.from \union {x[2] : x \in printed.lines}

\* Without --target, an artifact for the target of the build has its features resolved for the
\* triple of the host, and add_pkg looks them up for the host.
ForTargetOfBuild(d) == d.artifact = "target" /\ ~d.lib
\* An artifact for a target of its own that is a library too: add_pkg shows the artifact only.
TwiceNeeded(d) == d.artifact \notin {"none", "plain"} /\ d.lib

WholeTree ==
  /\ topts.invert = {} /\ ~topts.duplicates /\ topts.prune = {} /\ ~topts.no_proc_macro
  /\ ~DependsOn(TwiceNeeded)

\* Whatever cargo builds is in the tree: every package, with at least the features it is built
\* with, though nodes do not say what a package is needed for and those alike are one; and no
\* features are asked for that were not resolved. The exceptions are two forms of unstable
\* artifact dependencies: of those needed twice only one is shown, and without --target the
\* command panics on an artifact for the target of the build.
TreeShowsUnits ==
  /\ treeat = "panic" => "host" \in fworld.kinds /\ DependsOn(ForTargetOfBuild)
  /\ treeat = "done" /\ WholeTree /\ (fworld.intent = "test" => "dev" \in topts.edges)
       /\ {"normal", "build"} \subseteq topts.edges =>
     \A u \in DOMAIN unit_dependencies :
       \E n \in Shown : n.feature = NoFeature /\ n.pkg = u.pkg /\ u.features \subseteq n.features

\* The dependencies of a package marked (*) are shown elsewhere in the tree.
StarredShownElsewhere ==
  treeat = "done" =>
    \A n \in printed.starred : \A m \in Below(n) : <<n, m>> \in printed.lines

\* -e features shows the features that are on: all of them, and no other one that the package has.
TreeFeatures ==
  treeat = "done" /\ topts.features =>
    /\ \A n \in Shown : n.feature # NoFeature /\ HasFeature(n.pkg, n.feature) => n.feature \in n.features
    /\ WholeTree => \A n \in Shown : n.feature = NoFeature =>
         \A f \in n.features : \E m \in graph.nodes : m.pkg = n.pkg /\ m.feature = f

\* Turned around, every path from a package leads to the members.
InvertedToMembers ==
  treeat = "done" /\ (topts.invert # {} \/ topts.duplicates) =>
    \A n \in Reachable(graph.edges, graph.from) :
      (\A e \in graph.edges : e[1] # n) =>
        n.pkg \in ToSet(fworld.members) \/ n \in graph.cli

TreeRight == TreeShowsUnits /\ StarredShownElsewhere /\ TreeFeatures /\ InvertedToMembers
=============================================================================
