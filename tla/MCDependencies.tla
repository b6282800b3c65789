--------------------------- MODULE MCDependencies ---------------------------
(***************************************************************************)
(* Dependencies, written, locked, downloaded and kept: four components     *)
(* side by side.  They share no state in these models: a behaviour is one  *)
(* of one component, and the others stay where they begin.                 *)
(***************************************************************************)
EXTENDS Editor, Lockfile, Downloads, CargoHome

-----------------------------------------------------------------------------
(* cargo add and cargo remove. *)

EditPackage(name, version, features, rust) ==
    [name |-> name, version |-> version, features |-> features, rust |-> rust]

EditIndex == {EditPackage("foo", 1, {"f"}, 1), EditPackage("foo", 2, {"f", "g"}, 2),
              EditPackage("bar", 1, {}, 1), EditPackage("x-y", 1, {"f"}, 1)}

EditPlaces == ("dir" :> {EditPackage("foo", 3, {"f"}, 1)})
              @@ ("git" :> {EditPackage("foo", 3, {"f"}, 1), EditPackage("x-y", 3, {}, 1)})
              @@ ("self" :> {EditPackage("me", 1, {}, 1)})
              @@ ("bardir" :> {EditPackage("bar", 4, {}, 1)})

V(version) == "version" :> version
Nothing == <<>>

\* What the manifest may say of foo in a section.
FooItems == {V(1), V(1) @@ ("optional" :> TRUE), V(1) @@ ("features" :> {"f"}),
             ("path" :> "dir") @@ V(3), ("path" :> "dir") @@ ("optional" :> TRUE),
             ("git" :> "git") @@ ("default-features" :> FALSE), "workspace" :> TRUE,
             ("workspace" :> TRUE) @@ ("optional" :> TRUE) @@ ("features" :> {"f"})}

Tables == {[normal |-> n, dev |-> Nothing, build |-> Nothing, target |-> Nothing] :
             n \in {Nothing} \union {"foo" :> i : i \in FooItems}}
          \union
          {[normal |-> "foo" :> n, dev |-> Nothing, build |-> "foo" :> (V(1) @@ ("optional" :> TRUE)),
            target |-> Nothing] : n \in {V(1), "workspace" :> TRUE}}
          \union
          {[normal |-> nt[1], dev |-> d, build |-> Nothing, target |-> nt[2]] :
             nt \in {<<Nothing, "foo" :> V(2)>>, <<"x-y" :> V(1), Nothing>>,
                     <<"foo" :> (V(1) @@ ("package" :> "bar")), Nothing>>},
             d \in {"foo" :> ("path" :> "dir"), "x-y" :> ("git" :> "git")}}

Fv(kind, name) == <<kind, name, IF kind \in {"depfeature", "weak"} THEN "f" ELSE "">>

FeatureTables ==
    {Nothing,
     "default" :> {Fv("feature", "foo")},
     ("default" :> {Fv("feature", "foo")}) @@ ("foo" :> {Fv("dep", "foo")}),
     "default" :> {Fv("dep", "foo"), Fv("weak", "foo")},
     "all" :> {Fv("depfeature", "foo"), Fv("feature", "foo")},
     "all" :> {Fv("depfeature", "foo")},
     ("all" :> {Fv("weak", "foo")}) @@ ("foo" :> {Fv("dep", "foo"), Fv("depfeature", "foo")})}

WsRoots == {[deps |-> Nothing, profile |-> {}, patch |-> {}],
            [deps |-> "foo" :> V(1), profile |-> {"foo", "bar"}, patch |-> {"foo"}],
            [deps |-> ("foo" :> V(2)) @@ ("bar" :> ("path" :> "bardir")), profile |-> {"bar"}, patch |-> {"bar"}]}

Other(key) == [New(key) EXCEPT !.source = {SourceAt("workspace", {}, "")}]

EditWorld(tables, features, root, others, members, namespaced, rust) ==
    [index |-> EditIndex, places |-> EditPlaces, members |-> members, others |-> others,
     namespaced |-> namespaced, rust |-> rust, wsroot |-> root,
     manifest |-> [deps |-> tables, features |-> features]]

MembersOf == {{}, {[name |-> "bar", version |-> 4, at |-> "bardir"]}}

AllWorlds(tables, features) ==
    {EditWorld(t, f, r, o, m, n, rust) :
        t \in tables, f \in features, r \in WsRoots, o \in {{}, {Other("foo")}}, m \in MembersOf,
        n \in BOOLEAN, rust \in 1 .. 2}

\* The manifests parse, and a package whose rust-version precedes `dep:`
\* does not use it; members that inherit, and members that may be added,
\* come with one workspace each.
Consistent(w) ==
    /\ Parses(w.manifest, w.wsroot)
    /\ w.others = {} <=> "bar" \notin DOMAIN w.wsroot.deps
    /\ w.members = {} <=> DOMAIN w.wsroot.deps # {}
    /\ w.namespaced <=> w.rust = 2
    /\ w.namespaced \/ \A v \in Values(w.manifest) : v[1] \in {"feature", "depfeature"}

MCEditWorlds == {w \in AllWorlds(Tables, FeatureTables) : Consistent(w)}

Arg == [name |-> {}, version |-> {}, rename |-> {}, optional |-> {}, default_features |-> {},
        features |-> {}, registry |-> {}, path |-> {}, git |-> {}]
Named(name) == [Arg EXCEPT !.name = {name}]

EditArgs == {Named("foo"), [Named("foo") EXCEPT !.version = {2}],
             [Named("foo") EXCEPT !.optional = {TRUE}],
             [Named("foo") EXCEPT !.optional = {FALSE}, !.default_features = {TRUE}],
             [Named("foo") EXCEPT !.default_features = {FALSE}, !.features = {{"f"}}],
             [Named("foo") EXCEPT !.path = {"dir"}, !.optional = {TRUE}],
             [Arg EXCEPT !.path = {"dir"}], [Named("foo") EXCEPT !.git = {"git"}],
             [Named("bar") EXCEPT !.rename = {"foo"}], Named("bar"), Named("x_y"), Named("x-y"),
             [Named("x_y") EXCEPT !.git = {"git"}, !.features = {{"f"}}],
             [Named("me") EXCEPT !.path = {"self"}]}

AddCommand(section, args, mode) ==
    [kind |-> "add", section |-> section, args |-> args, mode |-> mode, key |-> ""]

MCEditCommands ==
    {c \in {AddCommand("normal", <<a>>, "write") : a \in EditArgs}
            \union {AddCommand("dev", <<a>>, "write") : a \in {b \in EditArgs : b.rename = {}}}
            \union {AddCommand(s, <<a>>, "write") : s \in {"build", "target"},
                      a \in {Named("foo"), [Named("foo") EXCEPT !.optional = {TRUE}]}}
            \union {AddCommand("normal", <<Named("foo")>>, m) : m \in {"dry_run", "locked"}}
            \union {AddCommand(s, <<Named("x_y"), [Named("foo") EXCEPT !.optional = {TRUE}]>>, "write") :
                      s \in {"normal", "build"}} :
        c.section = "dev" => \A i \in DOMAIN c.args : c.args[i].optional = {}}
    \union {[kind |-> "remove", section |-> s, args |-> <<>>, mode |-> "", key |-> k] :
              s \in Sections, k \in {"foo", "x-y"}}
-----------------------------------------------------------------------------
(* Cargo.lock: a workspace with a path package, a registry of two crates and a patch. *)

RegDep(name, req, source) == [name |-> name, req |-> req, source |-> source]
Reg(name, version) == PackageId(name, version, Registry)

\* b is used by two versions of a; a2 takes newer ones
MCRegDeps == [a |-> <<{RegDep("b", {1, 2}, Registry)}, {RegDep("b", {2, 3}, Registry)}>>,
              b |-> <<{}, {}, {}>>]
MCPublished == {Reg("a", 1), Reg("b", 1)}
MCUnpublished == {Reg("a", 2), Reg("b", 2), Reg("b", 3)}

Tree(version, rootdeps, below, patch, format) ==
  [member |-> "root", patch |-> patch, format |-> format,
   dirs |-> [root |-> [name |-> "m", version |-> 1, deps |-> rootdeps],
             near |-> [name |-> "b", version |-> version, deps |-> below]]]

OnA == RegDep("a", {1, 2}, Registry)
MCManifests ==
  {Tree(1, {OnA}, {}, {}, 3),                                             \* a alone
   Tree(1, {OnA, RegDep("b", {2, 3}, Registry)}, {}, {}, 4),                 \* a newer b as well
   Tree(1, {OnA, RegDep("b", {1}, Registry)}, {}, {}, 4),                    \* an older b as well
   Tree(1, {OnA, RegDep("b", {1}, "near")}, {}, {}, 4),                      \* a path package named b
   Tree(2, {OnA, RegDep("b", {1, 2}, "near")}, {}, {}, 3),                   \* of a newer version
   Tree(1, {OnA}, {}, {RegDep("b", {1}, "near")}, 4),                        \* b patched
   Tree(2, {OnA}, {}, {RegDep("b", {1, 2}, "near")}, 4)}                     \* the patch moves on

\* one package asks for b twice, under two names
Overlapping == {Tree(1, {RegDep("b", {1, 2}, Registry), RegDep("b", {1}, Registry)}, {}, {}, 4)}

MCCommands ==
  {[name |-> "build"], [name |-> "locked"],
   [name |-> "update", spec |-> "all", recursive |-> FALSE],
   [name |-> "update", spec |-> "a", recursive |-> FALSE],
   [name |-> "update", spec |-> "a", recursive |-> TRUE],
   [name |-> "update", spec |-> "b", recursive |-> FALSE]}

CONSTANTS c1, c2

Budget(cargos, amid, edits, publishes, yanks, commands, kills) ==
  [cargos |-> cargos, amid |-> amid, edits |-> edits, publishes |-> publishes, yanks |-> yanks,
   commands |-> commands, kills |-> kills]

\* one cargo after another, and two at once
MCBudgets ==
  {Budget({c1}, FALSE, 1, 1, 1, 3, 1),
   Budget({c1, c2}, TRUE, 1, 1, 0, 2, 1)}
-----------------------------------------------------------------------------
(* Downloads. *)

Dep(from, to, kind, platform, artifact) ==
    [from |-> from, to |-> to, dep_kind |-> kind, platform |-> platform, artifact |-> artifact]

Edges(from, to) ==
    {Dep(from, to, k, p, "none") : k \in {"normal", "build", "dev"}, p \in {"any", "host", "wasm", "arm"}}
    \union {Dep(from, to, "normal", "any", a) : a \in {"target", "wasm"}}
    \union {Dep(from, to, "build", "any", "target")}

Below(from, to) == {e \in Edges(from, to) : e.dep_kind # "dev"}

World(deps, macros, kinds, dev, force, cached, request, faulty) ==
    [ids |-> {1, 2, 3}, roots |-> {1}, deps |-> deps, macros |-> macros, kinds |-> kinds, dev |-> dev,
     force_all_targets |-> force, cached |-> cached, request |-> request, faulty |-> faulty]

\* Chains of two edges, on a good network.
Chains == {World({d, e}, m, ks, dev, force, {1, 3}, <<>>, FALSE) :
             d \in Edges(1, 2), e \in Below(2, 3), m \in {{}, {2}}, ks \in {{"host"}, {"arm"}, {"host", "arm"}},
             dev \in BOOLEAN, force \in {FALSE}}

\* Two edges to one package, and a network that fails.
Faulty == {World({d, e}, {}, {"arm"}, FALSE, force, c, <<>>, TRUE) :
             d \in {Dep(1, 2, "normal", "any", "none"), Dep(1, 2, "normal", "any", "wasm")},
             e \in {Dep(1, 3, "build", "host", "none"), Dep(2, 3, "normal", "wasm", "none")},
             force \in BOOLEAN, c \in {{1}, {1, 2}, {}}}

MCDlWorlds == Chains \union Faulty

-----------------------------------------------------------------------------
(* Two builds and a cargo clean gc in one CARGO_HOME. *)

CONSTANTS p1, p2, p3

const_Process == {p1, p2, p3}
const_Kind == [p \in const_Process |-> IF p = p3 THEN "clean" ELSE "build"]
const_MaxAge == [t \in Table |-> IF t \in {"src", "co"} THEN 2 ELSE 3]

None == [t \in Table \union SizeOpt |-> Unset]
const_CleanOpts == {[None EXCEPT !["index"] = 0, !["download_size"] = 1]}
-----------------------------------------------------------------------------
(* Side by side. *)

VARIABLE component

AnyOf(S) == CHOOSE x \in S : TRUE

\* Where the others stay does not matter: in one of their initial states.
Others ==
  /\ IF component = "editor" THEN TRUE ELSE edworld = AnyOf(EditWorlds) /\ EditInit
  /\ IF component = "lockfile" THEN TRUE ELSE manifests = AnyOf(Manifests) /\ left = AnyOf(Budgets) /\ LockfileInit
  /\ IF component = "downloads" THEN TRUE ELSE dlworld = AnyOf(DlWorlds) /\ DownloadsInit
  /\ IF component = "home" THEN TRUE ELSE files = [i \in Item |-> "absent"] /\ CHInit

Init ==
  /\ component \in {"editor", "lockfile", "downloads", "home"}
  /\ Others
  /\ CASE component = "editor" -> EditInit
       [] component = "lockfile" -> LockfileInit
       [] component = "downloads" -> DownloadsInit
       [] component = "home" -> CHInit

Editing == component = "editor" /\ UNCHANGED <<component, lockvars, dlvars, chvars>>
Locking == component = "lockfile" /\ UNCHANGED <<component, editvars, dlvars, chvars>>
Downloading == component = "downloads" /\ UNCHANGED <<component, editvars, lockvars, chvars>>
Keeping == component = "home" /\ UNCHANGED <<component, editvars, lockvars, dlvars>>

Next ==
  \/ Editing /\ EditNext
  \/ Locking /\ LockfileNext
  \/ Downloading /\ DownloadsNext
  \/ Keeping /\ CHNext
=============================================================================
