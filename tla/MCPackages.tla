----------------------------- MODULE MCPackages -----------------------------
(***************************************************************************)
(* What a package is, and where it goes: the components that read          *)
(* manifests and configuration, publish and install, side by side.  They   *)
(* share no state in these models: a behaviour is one of one component,    *)
(* and the others stay where they begin.                                   *)
(***************************************************************************)
EXTENDS Workspace, Manifest, Profiles, Config, Publish, Install, Fingerprint

-----------------------------------------------------------------------------
(* Workspaces: a root r with packages a and a/b below it and x beside it. *)

R == <<"r">>
A == <<"r", "a">>
B == <<"r", "a", "b">>
X == <<"x">>

Package(name, inherits, pointer, deps) ==
  [kind |-> "member", name |-> name, members |-> <<>>, exclude |-> {},
   default_members |-> <<NoDir>>, pointer |-> pointer, inherits |-> inherits, deps |-> deps]

WsRoots ==
  {[kind |-> kind, name |-> "r", members |-> ms, exclude |-> ex, default_members |-> def,
    pointer |-> NoDir, inherits |-> FALSE, deps |-> IF kind = "root" THEN deps ELSE <<>>] :
     kind \in {"virtual", "root"},
     ms \in {<<>>, <<B>>, <<<<"r", "*">>, B>>, <<A, <<"r", "..", "x">>>>, <<A, <<"r", "a", "*">>>>},
     ex \in {{}, {A, X}, {B}},
     def \in {<<NoDir>>, <<A>>},
     deps \in {<<A>>, <<X, B>>}}

As == {Package("a", i, NoDir, deps) : i \in BOOLEAN, deps \in {<<>>, <<B>>, <<X>>}}

\* b may be named as x, or point to x
Bs == {Package("b", FALSE, NoDir, <<>>), Package("x", TRUE, NoDir, <<X>>), Package("b", FALSE, X, <<>>)}

Xs == {Package("x", FALSE, NoDir, <<A>>), Package("x", TRUE, R, <<>>),
       [Package("x", FALSE, NoDir, <<>>) EXCEPT !.kind = "root"]}

Worlds(roots, as, bs, xs, present) ==
  {[manifests |-> [d \in p |-> CASE d = R -> r [] d = A -> a [] d = B -> b [] d = X -> x],
    dirs |-> {R, A, B, X}, packaged |-> {}, home |-> <<"h">>, start |-> s] :
     r \in roots, a \in as, b \in bs, x \in xs, p \in present, s \in {R, A, B, X}}

Present == {{R, A, X}, {R, A, B}, {R, A, B, X}, {A, B}}

\* an excluded package has no workspace to inherit from: its manifest is not valid
ExcludedInheritsNot(manifests) ==
  R \in DOMAIN manifests /\ A \in manifests[R].exclude => ~manifests[A].inherits

Valid(worlds) ==
  {w \in worlds : w.start \in DOMAIN w.manifests /\ ExcludedInheritsNot(w.manifests)}

\* each manifest varies with those it meets
MCWsWorlds ==
  {Valid(Worlds({r}, As, Bs, {CHOOSE x \in Xs : x.kind = "root"}, {{R, A, B, X}})) : r \in WsRoots}
    \union
  {Valid(Worlds({r}, {a \in As : a.inherits \/ a.deps = <<X>>}, {b \in Bs : b.name = "b"}, Xs, Present)) :
     r \in {r \in WsRoots : r.default_members = <<NoDir>> /\ r.exclude # {B}}}
    \union
  {{[w EXCEPT !.home = home, !.packaged = {A, R} \ {home}, !.start = B] :
      w \in Worlds({r \in WsRoots : r.exclude = {} /\ r.members = <<B>>}, As, Bs, Xs, {{R, A, B}})} :
     home \in {A, R}}

-----------------------------------------------------------------------------
(* Selection: a depends on b and optionally on d, which is no member. *)

\* a depends on b and optionally on d, which is no member; both have the
\* feature f
MCMembers ==
  [a |-> [version |-> 1, features |-> {"f"}, optional |-> {"d"}, deps |-> {"b", "d"}],
   b |-> [version |-> 1, features |-> {"f", "g"}, optional |-> {}, deps |-> {}]]

SpecOf(name, version) == [name |-> name, version |-> version]

Cases(kinds, ids) ==
  [members : {MCMembers}, current : {"", "a", "b"}, default : {{"a"}, {"a", "b"}}, resolver : 1 .. 2,
   flags : [kind : kinds, ids : SUBSET ids, globs : {<<>>, <<{"z"}>>, <<{"a", "b"}, {"b"}>>}],
   cli : [features : {{}, {<<"", "f">>}, {<<"b", "g">>}, {<<"d", "f">>, <<"", "z">>}, {<<"", "f">>, <<"b", "g">>, <<"d", "f">>}},
          all : BOOLEAN, default : BOOLEAN]]

MCSelectionCases ==
  Cases({"default", "all", "opt_out", "packages"}, {SpecOf("a", 0), SpecOf("b", 1), SpecOf("d", 0)})

-----------------------------------------------------------------------------
(* Manifests. *)

MCNameRank == [unset |-> 0, a |-> 1, main |-> 2, p |-> 3]

TargetAt(name, path) == [name |-> name, path |-> path]

Files == {LibRs, <<"src", "p">>, MainRs, <<"src/bin", "a">>, <<"src/bin", "a", "main">>, BuildRs}

Libs == {<<>>, <<TargetAt(Unset, NoPath)>>, <<TargetAt("p", <<"src", "p">>)>>}

Bins == {<<>>, <<TargetAt("a", NoPath)>>, <<TargetAt("a", NoPath), TargetAt("p", MainRs)>>,
         <<TargetAt("a", <<"src/bin", "a">>)>>, <<TargetAt("p", NoPath), TargetAt("a", MainRs)>>}

TargetTomls(edition, bin) ==
  [edition : {edition}, name : {"p"}, autolib : {Unset, "false"}, autobins : {Unset, "true", "false"},
   autotests : {Unset}, lib : Libs, bin : {bin}, test : {<<>>}, build : {NoPath, BuildRs},
   links : {FALSE}, default_run : {Unset, "a"}, deps : {{}}, features : {<<>>}]

TestTomls ==
  [edition : {2015, 2018}, name : {"p"}, autolib : {Unset}, autobins : {"true"},
   autotests : {Unset, "true", "false"}, lib : {<<>>}, bin : {<<>>},
   test : {<<>>, <<TargetAt("a", NoPath)>>, <<TargetAt("p", <<"tests", "a">>)>>, <<TargetAt(Unset, LibRs)>>},
   build : {<<"false">>, <<"true">>}, links : BOOLEAN, default_run : {Unset}, deps : {{}}, features : {<<>>}]

TargetWorlds ==
  {[toml : TargetTomls(edition, bin), ws : {<<>>}, files : SUBSET Files,
    left_out : {{{}, {MainRs}, {BuildRs, <<"src/bin", "a">>}, {LibRs}}}] :
     edition \in {2015, 2018}, bin \in Bins}
    \union
  {[toml : TestTomls, ws : {<<>>},
    files : {{LibRs, BuildRs} \union fs : fs \in SUBSET {MainRs, <<"tests", "a">>, <<"tests", "a", "main">>, <<"tests", "p">>}},
    left_out : {{{}, {BuildRs}, {<<"tests", "a">>}}}]}

----------------------------------------------------------------------------
Dep(name, kind, inherits, source, version, default, features, optional) ==
  [name |-> name, kind |-> kind, inherits |-> inherits, source |-> source, version |-> version,
   default |-> default, features |-> features, optional |-> optional]

Ds == {Dep("d", "normal", i, s, v, "true", {}, o) :
         i \in BOOLEAN, s \in {"registry", "path"}, v \in BOOLEAN, o \in BOOLEAN}

\* an inherited one leaves the workspace to say where it is from
DevDs == {Dep("d", "dev", FALSE, "path", v, Unset, {"x"}, FALSE) : v \in BOOLEAN}
           \union {Dep("d", "dev", TRUE, "path", FALSE, df, {"x"}, FALSE) : df \in {Unset, "true", "false"}}

E == {Dep("e", "dev", FALSE, "path", v, Unset, {}, FALSE) : v \in BOOLEAN}

DepSets == {{d, e} : d \in Ds \union DevDs, e \in E} \union {{d, v} : d \in Ds, v \in DevDs}

Value(kind, name) == [kind |-> kind, name |-> name]

FeatureTables ==
  {[f \in {"f", "g"} |-> IF f = "f" THEN vs ELSE {Value("depfeature", "e")}] :
     vs \in SUBSET {Value("feature", "d"), Value("dep", "d"), Value("depfeature", "d"), Value("weak", "d")}}
    \union {[f \in {"d"} |-> {Value("dep", "d")}], <<>>}

WsDeps == [d : {[version |-> v, source |-> s, default |-> df, features |-> {"y"}] :
                  v \in BOOLEAN, s \in {"registry", "path"}, df \in {Unset, "true", "false"}}]
            \union {<<>>}

DepTomls(edition) ==
  [edition : {edition}, name : {"p"}, autolib : {Unset}, autobins : {Unset}, autotests : {Unset},
   lib : {<<>>}, bin : {<<>>}, test : {<<>>}, build : {NoPath}, links : {FALSE},
   default_run : {Unset}, deps : DepSets, features : FeatureTables]

DependencyWorlds ==
  {[toml : DepTomls(edition), ws : WsDeps, files : {{LibRs}}, left_out : {{{}}}] : edition \in {2018, 2024}}

MCManifestWorlds == TargetWorlds \union DependencyWorlds
-----------------------------------------------------------------------------
(* Profiles: p and q, in the manifest, the configuration or both. *)

\* Profiles p and q, each in the manifest, the configuration or both; what they inherit.
Inherits == {NoProfile, "dev", "p", "q", "test"}
Places(n) == {"manifest", "config"} \X {n} \X Layer \X {"opt_level"}
AtMostTwo(n1, n2) == {{x, y} : x \in Places(n1), y \in Places(n1) \union Places(n2)}

MCProfileWorlds ==
  {[manifest |-> m, config |-> c, set |-> s, requested |-> r] :
     m \in {"p" :> i : i \in Inherits} \union {"p" :> i @@ "dev" :> NoProfile : i \in {"dev", "q"}},
     c \in {"q" :> i : i \in Inherits} \union {"q" :> "p" @@ "p" :> "dev", "dev" :> NoProfile, "dev" :> "p"},
     s \in AtMostTwo("p", "q") \union AtMostTwo("p", "dev"), r \in {"p", "q"}}

-----------------------------------------------------------------------------
(* Configuration. *)

Jobs == <<"build", "jobs">>
Flags == <<"build", "flags">>
Browser == <<"doc", "browser">>
Token == <<"registry", "token">>

BrowserFirst == <<Browser, Jobs, Flags, Offline, Token>>
BrowserLast == <<Jobs, Flags, Offline, Token, Browser>>

One(key, type) == [k \in {key} |-> type]
Pair(a, s, b, t) == [k \in {a, b} |-> IF k = a THEN s ELSE t]
Nothing == [k \in {} |-> "list"]

Own == <<"project", "config.toml">>
Parents == <<"parent", "config">>
Hidden == <<"parent", "config.toml">>
Homes == <<"home", "config.toml">>
Extra1 == <<"extra", "1.toml">>
Extra2 == <<"extra", "2.toml">>
Creds == <<"home", "credentials.toml">>

Include(path, optional) == [path |-> path, optional |-> optional]
File(has, include) == [has |-> has, include |-> include]

Includes == {<<>>, <<Include(Extra1, FALSE)>>, <<Include(Extra2, TRUE), Include(Extra1, FALSE)>>,
             <<Include(Extra1, FALSE), Include(Extra2, FALSE)>>}
Has2(a, s, b, t) == {Nothing, One(a, s), Pair(a, s, b, t)}

FilesWith(own, parents, homes, one, two, include1, include2, more) ==
  [f \in {Own, Parents, Hidden, Homes, Extra1} \union more |->
     CASE f = Own -> File(own, include1)
       [] f = Parents -> File(parents, <<>>)
       [] f = Hidden -> File(Pair(Jobs, "list", Browser, "scalar"), <<>>)
       [] f = Homes -> File(homes, <<>>)
       [] f = Extra1 -> File(one, include2)
       [] f = Creds -> File(One(Token, "scalar"), <<>>)
       [] OTHER -> File(two, <<>>)]

Argument(has) == [is_file |-> FALSE, name |-> <<"argument">>, has |-> has, include |-> <<>>]
Including(path) == [Argument(One(Flags, "list")) EXCEPT !.include = <<Include(path, FALSE)>>]
FileArgument(name) == [is_file |-> TRUE, name |-> name, has |-> Nothing, include |-> <<>>]

World(files, dirs, reload, cli, env, order) ==
  [files |-> files, dirs |-> dirs, reload_dirs |-> reload, home |-> "home", cli |-> cli, env |-> env,
   order |-> order, keys |-> ToSet(order)]

Tables == UNION {Has2(a, "scalar", Flags, "list") : a \in {Jobs}} \union {One(Browser, "list"), Pair(Browser, "list", Flags, "list")}

Precedence(own, order) ==
  {World(FilesWith(own, parents, homes, one, own, include, <<>>, more), <<"project", "parent">>, <<>>, cli, env, order) :
     parents \in Tables, homes \in {Nothing, Pair(Browser, "list", Flags, "list")}, one \in {One(Flags, "list"), One(Jobs, "scalar")},
     include \in Includes, more \in {{}, {Extra2}},
     cli \in {<<>>, <<Argument(One(Jobs, "scalar"))>>, <<Argument(One(Browser, "list"))>>, <<FileArgument(Extra1), Including(Extra1)>>},
     env \in {{}, {Jobs, Flags, Browser}}}

\* includes that meet or go round, and keys of two types
Broken ==
  {World(FilesWith(own, One(Jobs, "list"), Nothing, one, One(Flags, "list"), include1, include2, {Extra2}),
         <<"project", "parent">>, <<>>, cli, {}, BrowserFirst) :
     own \in Tables, one \in {Nothing, One(Flags, "scalar")}, include1 \in Includes,
     include2 \in {<<Include(Own, FALSE)>>, <<Include(Extra2, FALSE)>>, <<Include(<<"no", "where">>, FALSE)>>,
                   <<Include(<<"no", "where">>, TRUE)>>},
     cli \in {<<>>, <<FileArgument(Extra1), FileArgument(Extra1)>>, <<Argument(One(Token, "scalar"))>>}}

\* from elsewhere, and with credentials
Reloading(homes) ==
  {World(FilesWith(own, parents, homes, one, Nothing, include, <<>>, {Creds}), <<"project", "parent">>,
         reload, cli, env, BrowserFirst) :
     own \in Tables, parents \in {One(Token, "scalar"), One(Jobs, "scalar")}, one \in {One(Jobs, "scalar")}, include \in Includes,
     reload \in {<<"home">>, <<"parent", "home">>}, cli \in {<<>>, <<Argument(One(Flags, "list"))>>},
     env \in {{}, {Token}, {Offline}}}

MCConfigWorlds ==
  {Precedence(own, BrowserFirst) : own \in Tables} \union {Broken}
    \union {Reloading(homes) : homes \in {One(Flags, "list"), One(Token, "scalar"), One(Offline, "scalar")}}

\* a table that is merged before the one with the list in it
BrowserNotFirst ==
  {{w \in Precedence(Pair(Jobs, "scalar", Browser, "list"), BrowserLast) : w.cli = <<>>}}

-----------------------------------------------------------------------------
(* cargo package and cargo publish. *)

CONSTANTS c1, c2

\* Three packages: 1 depends on 2 and 3; or the chain 1, 2, 3; or a cycle of 1 and 2 (by a
\* development dependency with a version). Package 2 may be unpublishable.
Needs(s1, s2, s3) == 1 :> s1 @@ 2 :> s2 @@ 3 :> s3

Workspaces ==
  [deps : {Needs({2, 3}, {}, {}), Needs({2}, {3}, {}), Needs({2}, {1}, {}), Needs({}, {}, {})},
   publish : {[p \in 1..3 |-> {AnyRegistry}], [p \in 1..3 |-> {"alt"}],
              [p \in 1..3 |-> IF p = 2 THEN {} ELSE {AnyRegistry}],
              [p \in 1..3 |-> IF p = 2 THEN {"alt", CratesIo} ELSE {"alt"}]},
   select : {c1 :> 1..3 @@ c2 :> {2}, c1 :> {1, 2} @@ c2 :> {2, 3}},
   named : {{}, {c1, c2}},
   command : {c1 :> "publish" @@ c2 :> "publish", c1 :> "publish" @@ c2 :> "package",
              c1 :> "dry_run" @@ c2 :> "package"},
   registry : {"none", CratesIo, "alt", "--index"},
   verify : BOOLEAN, lockfile : BOOLEAN,
   published : {{}, {1, 2}}]

Tree == Needs({2, 3}, {}, {})
PublishWorkspaces ==
  {w \in Workspaces :
     /\ w.publish = [p \in 1..3 |-> {AnyRegistry}] => w.registry \in {"none", "--index"} /\ w.named = {}
     /\ w.publish = [p \in 1..3 |-> {"alt"}] => w.deps = Tree /\ w.named = {}
     /\ w.publish[2] = {} => w.registry = "none" /\ w.deps \in {Tree, Needs({}, {}, {})}
     /\ w.publish[2] = {"alt", CratesIo} => w.deps = Tree /\ w.named = {}
     /\ ~w.verify => w.deps = Tree
     /\ ~w.lockfile => w.command[c2] = "package" /\ w.named = {} /\ w.publish[2] = {}
     /\ w.published # {} => w.deps = Needs({2}, {1}, {}) /\ w.command[c1] = "dry_run"}

-----------------------------------------------------------------------------
(* cargo install and cargo uninstall. *)

x1 == [name |-> "x", version |-> 1, path |-> FALSE, bins |-> {1, 2}]
x2 == [name |-> "x", version |-> 2, path |-> FALSE, bins |-> {2, 3}]
y == [name |-> "y", version |-> 1, path |-> TRUE, bins |-> {2}]
const_Crate == {x1, x2, y}

Plainly(c, bins, opts) == [op |-> "install", crate |-> c, bins |-> bins, opts |-> opts,
                     force |-> FALSE, no_track |-> FALSE, dry_run |-> FALSE]
Away(c, bins) == [op |-> "uninstall", crate |-> c, bins |-> bins]

const_Command ==
  {Plainly(x1, {1, 2}, 0), Plainly(x1, {1, 2}, 1), Plainly(x1, {1}, 1), Plainly(x2, {2, 3}, 0),
   [Plainly(y, {2}, 0) EXCEPT !.force = TRUE],
   [Plainly(y, {2}, 0) EXCEPT !.force = TRUE, !.no_track = TRUE],
   [Plainly(x2, {2, 3}, 0) EXCEPT !.dry_run = TRUE],
   Away(x1, {}), Away(x1, {2})}

\* Installing all executables of a crate or one of them, with other options.
PartsOfOne == {Plainly(x1, {1, 2}, 0), Plainly(x1, {1, 2}, 1), Plainly(x1, {1}, 1)}

const_OldListing == {<<>>, [c \in {x1} |-> {1}]}
-----------------------------------------------------------------------------
(***************************************************************************)
(* What is rebuilt: unit graphs of two or three units.                     *)
(*   kind, deps, order (units, those below first), roots: the unit graph;  *)
(*   source: the files, home: those in the cargo home, reads: what each    *)
(*   compiled unit reads; local: units of path packages; env: units whose  *)
(*   source names the variable; prints: the directives of build.rs, by     *)
(*   the parity of its contents; checksum: -Zchecksum-freshness;           *)
(*   envs, settings, forced: what a build may be started with.             *)
(***************************************************************************)

Quiet == [changed |-> {}, env |-> FALSE]
Inputs1 == [changed |-> {"input"}, env |-> FALSE]
Both == [changed |-> {"input"}, env |-> TRUE]
Loud(a, b) == (0 :> a) @@ (1 :> b)

Scripted(kind, a, b) ==
  [kind |-> [script |-> "bin", run |-> "run", lib |-> kind],
   deps |-> [script |-> {}, run |-> {"script"}, lib |-> {"run"}],
   order |-> <<"script", "run", "lib">>, roots |-> {"lib"},
   source |-> {"build.rs", "input", "lib.rs"}, home |-> {},
   reads |-> [script |-> {"build.rs"}, lib |-> {"lib.rs"}],
   local |-> {"script", "run", "lib"}, env |-> {},
   prints |-> Loud(a, b), checksum |-> FALSE,
   envs |-> {"x"}, settings |-> {"s"}, forced |-> {FALSE}]

Piped ==
  [kind |-> [dep |-> "lib", lib |-> "lib", bin |-> "bin"],
   deps |-> [dep |-> {}, lib |-> {"dep"}, bin |-> {"lib"}],
   order |-> <<"dep", "lib", "bin">>, roots |-> {"dep", "bin"},
   source |-> {"dep.rs", "main.rs"}, home |-> {},
   reads |-> [dep |-> {"dep.rs"}, lib |-> {}, bin |-> {"main.rs"}],
   local |-> {"dep", "lib", "bin"}, env |-> {},
   prints |-> Loud(Quiet, Quiet), checksum |-> FALSE,
   envs |-> {"x"}, settings |-> {"s"}, forced |-> {FALSE}]

\* `shared` is read by both units; `vendored` belongs to a registry package.
Checks(kind, checksum) ==
  [kind |-> [dep |-> "check", lib |-> kind],
   deps |-> [dep |-> {}, lib |-> {"dep"}],
   order |-> <<"dep", "lib">>, roots |-> {"dep", "lib"},
   source |-> {"shared", "vendored"}, home |-> {"vendored"},
   reads |-> [dep |-> {"shared", "vendored"}, lib |-> {"shared"}],
   local |-> {"dep", "lib"}, env |-> {"lib"} \ {u \in {"lib"} : kind = "doc"},
   prints |-> Loud(Quiet, Quiet), checksum |-> checksum,
   envs |-> {"x", "y"}, settings |-> {"s"}, forced |-> BOOLEAN]

Overrides ==
  [kind |-> [run |-> "override", lib |-> "lib"],
   deps |-> [run |-> {}, lib |-> {"run"}],
   order |-> <<"run", "lib">>, roots |-> {"lib"},
   source |-> {"lib.rs"}, home |-> {},
   reads |-> [lib |-> {"lib.rs"}], local |-> {}, env |-> {},
   prints |-> Loud(Quiet, Quiet), checksum |-> FALSE,
   envs |-> {"x"}, settings |-> {"s", "t"}, forced |-> {FALSE}]

const_Projects ==
  {Scripted("lib", Quiet, Inputs1), Scripted("check", Both, Quiet), Piped,
   Checks("check", FALSE), Checks("doc", TRUE), Checks("check", TRUE)}
    \union {[Overrides EXCEPT !.home = {"lib.rs"}]}
-----------------------------------------------------------------------------
(* Side by side. *)

VARIABLE component

AnyOf(S) == CHOOSE x \in S : TRUE
AnyWorld(families) == AnyOf(AnyOf(families))

\* Where the others stay does not matter: in one of their initial states.
Others ==
  /\ IF component = "workspace" THEN TRUE ELSE wsworld = AnyWorld(WsWorlds) /\ WorkspaceInit
  /\ IF component = "selection" THEN TRUE ELSE case = AnyOf(SelectionCases) /\ SelectionInit
  /\ IF component = "manifest" THEN TRUE ELSE mfworld = AnyWorld(ManifestWorlds) /\ ManifestInit
  /\ IF component = "profiles" THEN TRUE ELSE pworld = AnyOf(ProfileWorlds) /\ ProfileInit
  /\ IF component = "config" THEN TRUE ELSE cfworld = AnyWorld(ConfigWorlds) /\ ConfigInit
  /\ IF component = "publish" THEN TRUE ELSE pubws = AnyOf(PubWorkspaces) /\ PubInit
  /\ IF component = "install" THEN TRUE ELSE dst = <<>> /\ IInit
  /\ IF component = "fingerprint" THEN TRUE ELSE project = AnyOf(Projects) /\ FInit

Init ==
  /\ component \in {"workspace", "selection", "manifest", "profiles", "config", "publish", "install", "fingerprint"}
  /\ Others
  /\ CASE component = "workspace" -> WorkspaceInit
       [] component = "selection" -> SelectionInit
       [] component = "manifest" -> ManifestInit
       [] component = "profiles" -> ProfileInit
       [] component = "config" -> ConfigInit
       [] component = "publish" -> PubInit
       [] component = "install" -> IInit
       [] component = "fingerprint" -> FInit

Finding == component = "workspace" /\ UNCHANGED <<component, selvars, mfvars, profvars, confvars, pubvars, ivars, fvars>>
Selecting == component = "selection" /\ UNCHANGED <<component, wsvars, mfvars, profvars, confvars, pubvars, ivars, fvars>>
Reading == component = "manifest" /\ UNCHANGED <<component, wsvars, selvars, profvars, confvars, pubvars, ivars, fvars>>
Profiling == component = "profiles" /\ UNCHANGED <<component, wsvars, selvars, mfvars, confvars, pubvars, ivars, fvars>>
Configuring == component = "config" /\ UNCHANGED <<component, wsvars, selvars, mfvars, profvars, pubvars, ivars, fvars>>
Publishing == component = "publish" /\ UNCHANGED <<component, wsvars, selvars, mfvars, profvars, confvars, ivars, fvars>>
Installing == component = "install" /\ UNCHANGED <<component, wsvars, selvars, mfvars, profvars, confvars, pubvars, fvars>>
Building == component = "fingerprint" /\ UNCHANGED <<component, wsvars, selvars, mfvars, profvars, confvars, pubvars, ivars>>

Next ==
  \/ Finding /\ WorkspaceNext
  \/ Selecting /\ SelectionNext
  \/ Reading /\ ManifestNext
  \/ Profiling /\ ProfileNext
  \/ Configuring /\ ConfigNext
  \/ Publishing /\ PubNext
  \/ Installing /\ INext
  \/ Building /\ FNext

vars == <<component, wsvars, selvars, mfvars, profvars, confvars, pubvars, ivars, fvars>>

\* The packages of a workspace are found consistently, and the flags select among them and
\* their features as they say.
WorkspaceRight == WorkspaceConsistent /\ FlagsApplied
=============================================================================
