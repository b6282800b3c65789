---------------------------- MODULE MCCompilation ---------------------------
(***************************************************************************)
(* From resolved features to rustc: the components that plan and run the   *)
(* compilation, side by side.  They share no state in these models: a      *)
(* behaviour is one of one component, and the others stay where they begin.*)
(***************************************************************************)
EXTENDS Tree, Outputs, Invocation, BuildScript, Messages, RustcInfo

-----------------------------------------------------------------------------
(* The features and the units of four packages. *)

Dep(c) == [crate |-> c, name |-> c, features |-> <<>>, optional |-> FALSE, uses_default |-> TRUE,
           kind |-> "normal", platform |-> "any", artifact |-> "none", lib |-> FALSE]
V1 == [decouple_host_deps |-> FALSE, decouple_dev_deps |-> FALSE, ignore_inactive_targets |-> FALSE]
V2 == [decouple_host_deps |-> TRUE, decouple_dev_deps |-> TRUE, ignore_inactive_targets |-> TRUE]

MCCrate == {"r", "a", "b", "m"}
Base ==
  [members |-> <<"r">>, requested |-> <<>>, default_features |-> TRUE, all_features |-> FALSE, proc_macro |-> {"m"},
   features |-> "r" :> ("default" :> <<>>) @@ "a" :> ("x" :> <<>>) @@ "b" :> ("y" :> <<>> @@ "z" :> <<>>) @@ "m" :> [n \in {} |-> <<>>],
   deps |-> "r" :> {} @@ "a" :> {} @@ "b" :> {} @@ "m" :> {},
   kinds |-> {"host"}, opts |-> V2,
   targets |-> "r" :> {"lib", "bin", "test"} @@ "a" :> {"lib", "script"} @@ "b" :> {"lib", "script"} @@ "m" :> {"lib"},
   required |-> [c \in MCCrate |-> {}], links |-> {}, overridden |-> {}, clash |-> FALSE, intent |-> "build", only |-> {},
   named |-> FALSE, abort |-> FALSE]

Weak(d, f) == <<"dep_feature", d, f, TRUE>>
Strong(d, f) == <<"dep_feature", d, f, FALSE>>
On(f) == <<"feature", f>>

\* Features: weak and strong dependency features, optional dependencies, in every order.
FeatureSide ==
  {[Base EXCEPT
      !.features["r"] = "default" :> d @@ "f" :> f @@ "a" :> <<<<"dep", "a">>>>,
      !.features["a"] = "x" :> x @@ "default" :> ad,
      !.deps["r"] = {[Dep("a") EXCEPT !.optional = TRUE, !.kind = k], [Dep("b") EXCEPT !.optional = bo, !.features = <<"y">>, !.kind = bk]},
      !.deps["a"] = {[Dep("b") EXCEPT !.optional = TRUE]},
      !.deps["m"] = {[Dep("b") EXCEPT !.features = <<"z">>]},
      !.opts = o, !.intent = "check"] :
     d \in {<<On("f"), <<"dep", "a">>>>, <<Weak("a", "x"), On("f")>>, <<Weak("a", "x"), Strong("b", "y")>>},
     f \in {<<>>, <<Strong("a", "x")>>, <<<<"dep", "a">>, Weak("b", "z")>>},
     x \in {<<Weak("b", "y")>>, <<Strong("b", "y")>>},
     ad \in {<<>>, <<On("x")>>, <<<<"dep", "b">>>>},
     k \in {"normal", "build"}, bo \in BOOLEAN, bk \in {"normal", "build"}, o \in {V1, V2}}

\* The same with --all-features and --no-default-features.
FlagSide ==
  {[Base EXCEPT
      !.features["r"] = "default" :> d @@ "f" :> f @@ "a" :> <<<<"dep", "a">>>>,
      !.deps["r"] = {[Dep("a") EXCEPT !.optional = TRUE], [Dep("b") EXCEPT !.optional = TRUE]},
      !.default_features = flags[1], !.all_features = flags[2], !.requested = req] :
     d \in {<<>>, <<Weak("a", "x"), Strong("b", "y")>>}, f \in {<<Strong("a", "x")>>, <<Weak("b", "z")>>},
     flags \in {<<FALSE, FALSE>>, <<FALSE, TRUE>>, <<TRUE, TRUE>>}, req \in {<<>>, <<On("f")>>}}

\* Units: what is built for the host and for the target, with build scripts, procedural macros,
\* links and development dependencies that go back.
UnitSide ==
  {[Base EXCEPT
      !.deps["r"] = {[Dep("a") EXCEPT !.features = <<"x">>], [Dep(rm) EXCEPT !.kind = rk, !.features = IF rm = "a" THEN <<"x">> ELSE <<>>],
                     [Dep("b") EXCEPT !.kind = rb, !.features = IF rb = "build" THEN <<"z">> ELSE <<>>]},
      !.deps["a"] = {[Dep("b") EXCEPT !.kind = ab, !.features = <<"y">>]},
      !.deps["b"] = bd, !.deps["m"] = {[Dep("b") EXCEPT !.features = mf]},
      !.targets["r"] = @ \union (IF rk = "build" \/ rb = "build" THEN {"script"} ELSE {}), !.links = {"a", "b"},
      !.members = IF bd = {} THEN <<"r">> ELSE <<"r", "b">>,
      !.kinds = ki[1], !.intent = ki[2], !.abort = ab = "build", !.opts = [o EXCEPT !.decouple_dev_deps = @ /\ ki[2] # "test"]] :
     rm \in {"m", "a"}, rk \in {"normal", "build"}, rb \in {"normal", "dev", "build"},
     ab \in {"normal", "build"}, bd \in {{}, {[Dep("a") EXCEPT !.kind = "dev"]}},
     mf \in {<<>>, <<"z">>},
     ki \in {<<{"host"}, "build">>, <<{"host"}, "test">>, <<{"host"}, "doc">>, <<{"x86"}, "build">>,
             <<{"arm", "x86"}, "test">>, <<{"arm", "x86"}, "doc">>}, o \in {V1, V2}}

\* Development dependencies that come back to the package.
CycleSide ==
  {[Base EXCEPT
      !.deps["r"] = {[Dep("a") EXCEPT !.kind = "dev"]} \union rb,
      !.deps["a"] = {Dep("r")} \union ab, !.deps["b"] = bd,
      !.targets["r"] = {"lib", "test", "script"}, !.links = {"r", "a", "b"},
      !.members = IF bd = {} THEN <<"r">> ELSE <<"r", "b">>,
      !.overridden = over, !.intent = i, !.opts = [o EXCEPT !.decouple_dev_deps = FALSE]] :
     over \in {{}, {<<"a", HostTriple>>}}, rb \in {{}, {Dep("b")}}, ab \in {{}, {Dep("b")}}, bd \in {{}, {[Dep("a") EXCEPT !.kind = "dev"]}},
     i \in {"build", "test"}, o \in {V1, V2}}

\* Artifact dependencies, for the target of the build or another one.
ArtifactSide(pm) ==
  {[Base EXCEPT
      !.deps["r"] = {[Dep("a") EXCEPT !.kind = rk, !.artifact = art, !.lib = lib, !.features = <<"x">>],
                     [Dep("b") EXCEPT !.kind = rb, !.features = IF art = "x86" THEN <<"y">> ELSE <<"z">>]},
      !.deps["a"] = {[Dep("b") EXCEPT !.platform = ap, !.optional = ao, !.features = <<"y">>]},
      !.features["a"] = "x" :> <<Weak("b", "y")>> @@ "default" :> <<Strong("b", "y")>>,
      !.targets["r"] = {"lib", "bin", "script"}, !.targets["a"] = {"lib", "bin"},
      !.proc_macro = pm, !.kinds = k, !.intent = i] :
     <<rk, art>> \in ({"normal", "build"} \X {"plain", "arm", "x86"}) \union {<<"build", "target">>}, lib \in BOOLEAN,
     rb \in {"normal", "build"}, ap \in {"any", "arm"}, ao \in BOOLEAN,
     k \in {{"host"}, {"arm"}, {"arm", "x86"}}, i \in {"build", "doc"}}

\* What is refused: missing features of a named binary, and packages that link the same library.
RefusedSide ==
  {[Base EXCEPT !.only = only, !.named = TRUE, !.required["r"] = {f}, !.links = {"a", "b"}, !.clash = TRUE,
                !.deps["r"] = {Dep("a")}, !.deps["a"] = d, !.requested = <<On("g")>>] :
     only \in {{"bin"}, {"lib"}, {"test"}}, f \in {"f", "g"}, d \in {{}, {Dep("b")}}}

MCFeatureWorlds == FeatureSide \union FlagSide \union UnitSide \union CycleSide \union ArtifactSide({"m"}) \union RefusedSide

-----------------------------------------------------------------------------
(* cargo tree. *)

TreeDefaults ==
  [edges |-> {"normal", "build"}, features |-> FALSE, all |-> FALSE, no_proc_macro |-> FALSE,
   invert |-> {}, prune |-> {}, duplicates |-> FALSE, no_dedupe |-> FALSE, depth |-> 100]
WithDev == [TreeDefaults EXCEPT !.edges = @ \union {"dev"}]

MCTreeOptions ==
  {TreeDefaults, WithDev, [TreeDefaults EXCEPT !.features = TRUE], [WithDev EXCEPT !.invert = {"b"}],
   [WithDev EXCEPT !.duplicates = TRUE], [TreeDefaults EXCEPT !.no_dedupe = TRUE, !.prune = {"a"}],
   [TreeDefaults EXCEPT !.no_proc_macro = TRUE, !.features = TRUE, !.invert = {"b"}]}

-----------------------------------------------------------------------------
(* LTO: four units, two of them roots. *)

Lib == {"rlib"}
MCLtoWorlds ==
  {[roots |-> r, lto |-> l, host |-> h,
    deps |-> 1 :> d1 @@ 2 :> d2 @@ 3 :> d3 @@ 4 :> <<>>,
    types |-> 1 :> t1 @@ 2 :> t2 @@ 3 :> t3 @@ 4 :> t4] :
     r \in {<<1, 2>>, <<2, 1>>}, l \in {"true", "false", "off"}, h \in {{}, {2}},
     d1 \in {<<3, 4>>, <<4, 3>>, <<2, 3>>, <<3>>}, d2 \in {<<>>, <<3>>, <<4>>, <<4, 3>>}, d3 \in {<<>>, <<4>>},
     t1 \in {{"bin"}, Lib}, t2 \in {{"bin"}, {"cdylib"}, {"dylib"}, Lib}, t3 \in {Lib, {"rlib", "cdylib"}, {"dylib"}},
     t4 \in {Lib, {"dylib"}}}
-----------------------------------------------------------------------------
(* Outputs: every two different units, over a third that is built twice. *)

P == [name |-> "p", is_path |-> TRUE]
Q == [name |-> "q", is_path |-> FALSE]

Target(kind, name) == [kind |-> kind, name |-> name]

Variants(pkgs, targets, modes, kinds, flags, deps) ==
  [pkg : pkgs, target : targets, profile : {"dev", "opt"}, kind : kinds, mode : modes,
   features : {{}, {"f"}}, artifact : {FALSE}, rustflags : flags, deps : deps]

First ==
  Variants({P}, {Target(k, "a") : k \in {"lib", "dylib", "bin"}}, {"build", "test", "check", "doc"}, {"host"}, {"host"}, {{}})
    \union
  Variants({P}, {Target("build", "build")}, {"build", "run-custom-build"}, {"host"}, {"host"}, {{}})

Second(u) ==
  {[v EXCEPT !.profile = p, !.features = f, !.kind = k, !.rustflags = r, !.artifact = a] :
     v \in ({u} \union {[u EXCEPT !.pkg = Q], [u EXCEPT !.mode = "doc"], [u EXCEPT !.mode = "test"],
                        [u EXCEPT !.target.kind = "bin"]}),
     p \in {"dev", "opt"}, f \in {{}, {"f"}}, k \in {"host", "target"}, r \in {"host", "other"}, a \in BOOLEAN}

\* a run of a build script is not a test, and a build script is not documented
Sensible(v) ==
  /\ v.target.kind = "build" => v.mode \in {"build", "run-custom-build"}
  /\ v.mode = "run-custom-build" => v.target.kind = "build"
  /\ v.artifact => v.target.kind = "bin" /\ v.mode = "build"

\* two units differ, and not in what is not part of a unit of this build
Pairs(u, artifacts) ==
  {v \in Second(u) : v # u /\ Sensible(v) /\ (v.artifact => artifacts)
                     /\ ([v EXCEPT !.artifact = FALSE] = u => artifacts)}

Worlds(u, artifacts, options) ==
  {[units |-> <<u, v>>, roots |-> rs, options |-> o] :
     v \in {v \in Pairs(u, artifacts) : v.rustflags = "other" => v.kind = "target"},
     rs \in {{1}, {1, 2}}, o \in options}
    \union
  {[units |-> <<u, v>>, roots |-> {1, 2}, options |-> o \ {"target_applies_to_host"}] :
     v \in Pairs(u, artifacts), o \in options}

\* one unit over two builds of another
Above(u, options) ==
  {[units |-> <<u, v, [w EXCEPT !.deps = {1}], [w EXCEPT !.deps = {2}]>>, roots |-> {3, 4}, options |-> o] :
     v \in {v \in Pairs(u, FALSE) : v.kind = "host" /\ v.rustflags = "host" /\ v.target = u.target},
     w \in (IF u.target.kind = "build" THEN {[u EXCEPT !.mode = "run-custom-build"]}
            ELSE {[u EXCEPT !.pkg = p, !.target.kind = k, !.target.name = "b"] : p \in {P, Q}, k \in {"lib", "bin"}}),
     o \in options}

Options == {o \union {"target_applies_to_host"} :
              o \in {{}, {"new_layout"}, {"msvc"}, {"remap"}, {"new_layout", "msvc", "export"}, {"export", "remap"}}}

MCOutputWorlds ==
  {Worlds(u, TRUE, Options) : u \in {u \in First : u.features = {} /\ u.profile = "dev"}}
    \union {Above(u, {{"target_applies_to_host"}, {"new_layout"}}) : u \in {u \in First : u.mode = "build"}}

-----------------------------------------------------------------------------
(* Invocations: three units in every shape, and one with every profile. *)

Dev == [opt |-> "0", debug_assertions |-> TRUE, overflow_checks |-> TRUE, panic |-> "unwind",
        strip |-> "none", lto |-> "object", units |-> "default", rustflags |-> <<>>]

UnitTypes == {{"lib"}, {"dylib"}, {"proc-macro"}, {"bin"}, {"lib", "cdylib"}, {"cdylib"}}

\* proc macros and what is behind them are built for the host
InvUnit(t, d, macros, shape) ==
  LET hosted == "proc-macro" \in t \/ macros
  IN  [types |-> t, deps |-> d, profile |-> Dev, rustflags |-> <<>>,
       kind |-> IF shape.cross /\ ~hosted THEN "target" ELSE "host",
       mode |-> IF hosted \/ shape.mode = "test" THEN "build" ELSE shape.mode]

InvShapes == [mode : {"build", "check", "test"}, cross : BOOLEAN, embed : BOOLEAN, new : BOOLEAN]

Graph(shape, t1, t2, t3, d2, d3) ==
  LET macro == "proc-macro" \in t3
      behind == macro \/ (1 \in d2 /\ "proc-macro" \in t2)
      top == InvUnit(t3, d3, FALSE, shape)
  IN  [units |-> <<InvUnit(t1, {}, behind, shape), InvUnit(t2, d2, macro, shape),
                   [top EXCEPT !.mode = shape.mode]>>,
       embed |-> shape.embed, new_layout |-> shape.new, extra |-> <<>>]

\* a unit behind a macro is not also used beside it: it would be another unit
Sound(t2, d2, d3) == "proc-macro" \in t2 /\ 1 \in d2 => 1 \notin d3

Graphs3 == {Graph(g.shape, g.t1, g.t2, g.t3, g.d2, g.d3) :
            g \in {h \in [shape : InvShapes, t1 : {{"lib"}, {"dylib"}, {"proc-macro"}}, t2 : UnitTypes \ {{"bin"}},
                          t3 : UnitTypes, d2 : {{}, {1}}, d3 : {{1}, {2}, {1, 2}}] :
                     Sound(h.t2, h.d2, h.d3)}}

InvFlags == {<<>>, <<<<"codegen-units", "1">>>>, <<<<"codegen-units", "2">>>>, <<<<"strip", "debuginfo">>>>,
             <<<<"debug-assertions", "on">>>>, <<<<"opt-level", "3">>, <<"overflow-checks", "off">>>>}

InvProfiles(panics, ltos, flags) ==
  [opt : {"0", "3"}, debug_assertions : BOOLEAN, overflow_checks : BOOLEAN, panic : panics,
   strip : {"none", "symbols"}, lto : ltos, units : {"default", "4"}, rustflags : flags]

SingleUnit(p, f, e) ==
  [units |-> <<[types |-> {"lib"}, deps |-> {}, profile |-> p, rustflags |-> f, kind |-> "host", mode |-> "build"]>>,
   embed |-> TRUE, new_layout |-> FALSE, extra |-> e]

Single ==
  {SingleUnit(p, <<>>, <<>>) : p \in InvProfiles({"unwind", "abort"}, {"run", "off", "bitcode", "object", "both"}, {<<>>})}
    \union {SingleUnit(p, f, e) : p \in InvProfiles({"unwind"}, {"object"}, InvFlags), f \in InvFlags, e \in InvFlags}

InvWorlds == {Graphs3, Single}
-----------------------------------------------------------------------------
(* Build scripts: 3 needs 2 and may need 1, 2 may need 1. *)

Package(normal, build, script, links, override, macro, bin, cdylib) ==
  [normal |-> normal, build |-> build, script |-> script, links |-> links, override |-> override,
   macro |-> macro, bin |-> bin, cdylib |-> cdylib]

Chain(first, second, third, edits, kills, dest) ==
  [packages |-> <<first, second, third>>, editions |-> 0..edits, kills |-> kills, dest |-> dest]

Native(override) == Package({}, {}, "prints", TRUE, override, FALSE, TRUE, FALSE)
Plain == Package({1}, {}, "none", FALSE, FALSE, FALSE, TRUE, FALSE)
Middle(macro) == Package({1}, {}, "prints", TRUE, FALSE, macro, TRUE, FALSE)
Top(normal, build, script, cdylib, bin) == Package(normal, build, script, FALSE, FALSE, FALSE, bin, cdylib)

MCScriptWorlds ==
  {{Chain(Native(override), Middle(macro), Top(normal, {}, "none", TRUE, TRUE), 1, TRUE, "around") :
      override \in BOOLEAN, macro \in BOOLEAN, normal \in {{2}, {1, 2}}},
   {Chain(Native(FALSE), Middle(TRUE), Top({2}, {2}, "prints", FALSE, TRUE), 0, FALSE, dest) :
      dest \in {"around", "apart", "none"}},
   {Chain(Native(FALSE), Plain, Top(normal, {2}, script, FALSE, bin), 1, FALSE, "around") :
      normal \in {{2}, {1}}, script \in {"prints", "unknown key", "error", "exit code"}, bin \in BOOLEAN}}
-----------------------------------------------------------------------------
(* Messages of one unit. *)

Line == {"text", "warning", "error", "summary", "rmeta", "artifact", "future", "externs", "timing", "json"}
MCTexts == {<<>>} \union {<<l>> : l \in Line \ {"json"}} \union {<<l, k>> : l \in {"warning", "text"}, k \in {"summary", "rmeta", "future", "warning"}}
             \union {<<"error", "warning", "summary">>, <<"rmeta", "warning", "text">>, <<"json", "externs">>}
MCCommands == [format : {"human", "json", "json-rendered"}, verbose : BOOLEAN, hidden : BOOLEAN]
-----------------------------------------------------------------------------
(* rustc: every configuration, and two cargos that share the file. *)

FlagLists == {<<>>, <<"a">>}
CfgTable(cond, flag, linker) == [cond |-> cond, flags |-> <<flag>>, linker |-> linker]
CfgTables == {<<>>, <<CfgTable("H", "c", "none")>>,
              <<CfgTable("H", "c", "lc"), CfgTable("c", "d", "lc")>>,
              <<CfgTable("X", "c", "lc"), CfgTable("a", "d", "la")>>}
Once == [runs |-> 1, failures |-> 0, kills |-> 0, changes |-> 0]

Configurations ==
  [applies : BOOLEAN, requested : {"host", "X", "H"}, env_flags : {<<>>, <<<<>>>>, <<<<"e">>>>},
   target_flags : [{"H", "X"} -> FlagLists], cfg_tables : CfgTables, host_flags : {<<>>, <<"h">>},
   build_flags : {<<>>, <<"b">>}, rustup : {"none"}, json : {FALSE}, budget : {Once},
   linkers : {[host |-> "none", H |-> "lt", X |-> "none"], [host |-> "lh", H |-> "none", X |-> "lx"]}]

Sharing ==
  [applies : {TRUE}, requested : {"X"}, env_flags : {<<>>}, target_flags : {[H |-> <<>>, X |-> <<>>]},
   cfg_tables : {<<CfgTable("X", "c", "none")>>}, host_flags : {<<>>}, build_flags : {<<>>},
   rustup : {"none", "proxied", "unknown"}, json : {FALSE},
   budget : {[runs |-> 3, failures |-> 1, kills |-> 1, changes |-> 1]},
   linkers : {[host |-> "none", H |-> "none", X |-> "none"]}]

Specified == {[w EXCEPT !.json = TRUE] : w \in {w \in Sharing : w.rustup = "proxied"}}

InfoFamilies == {Configurations, Sharing, Specified}
-----------------------------------------------------------------------------
(* Side by side. *)

VARIABLE component

Components == {"units", "lto", "outputs", "rustc", "scripts", "messages", "info"}

AnyOf(S) == CHOOSE x \in S : TRUE

AnyWorld(families) == AnyOf(AnyOf(families))

\* Where the others stay does not matter: in one of their initial states.
Others ==
  /\ IF component = "units" THEN TRUE
     ELSE fworld = AnyOf(RefusedSide) /\ FeatureInit /\ UnitInit /\ TreeInit
  /\ IF component = "lto" THEN TRUE ELSE ltoworld = AnyOf(LtoWorlds) /\ LtoInit
  /\ IF component = "outputs" THEN TRUE ELSE outworld = AnyWorld(OutputWorlds) /\ OutputsInit
  /\ IF component = "rustc" THEN TRUE ELSE invworld = AnyWorld(InvocationWorlds) /\ InvocationInit
  /\ IF component = "scripts" THEN TRUE
     ELSE bsworld = AnyWorld(ScriptWorlds) /\ place = AnyOf(Places) /\ ScriptInit
  /\ IF component = "messages" THEN TRUE ELSE lines = AnyOf(Texts) /\ local = TRUE /\ MessagesInit
  /\ IF component = "info" THEN TRUE ELSE riworld = AnyWorld(InfoWorlds) /\ RustcInfoInit

Init ==
  /\ component \in Components
  /\ Others
  /\ CASE component = "units" -> FeatureInit /\ UnitInit /\ TreeInit
       [] component = "lto" -> LtoInit
       [] component = "outputs" -> OutputsInit
       [] component = "rustc" -> InvocationInit
       [] component = "scripts" -> ScriptInit
       [] component = "messages" -> MessagesInit
       [] component = "info" -> RustcInfoInit

vars == <<component, featvars, unitvars, treevars, ltovars, outvars, invvars, scriptvars, msgvars, infovars>>

Uniting == component = "units"
             /\ UNCHANGED <<component, ltovars, outvars, invvars, scriptvars, msgvars, infovars>>
Linking == component = "lto"
             /\ UNCHANGED <<component, featvars, unitvars, treevars, outvars, invvars, scriptvars, msgvars, infovars>>
Naming == component = "outputs"
            /\ UNCHANGED <<component, featvars, unitvars, treevars, ltovars, invvars, scriptvars, msgvars, infovars>>
Calling == component = "rustc"
             /\ UNCHANGED <<component, featvars, unitvars, treevars, ltovars, outvars, scriptvars, msgvars, infovars>>
Scripting == component = "scripts"
               /\ UNCHANGED <<component, featvars, unitvars, treevars, ltovars, outvars, invvars, msgvars, infovars>>
Replaying == component = "messages"
               /\ UNCHANGED <<component, featvars, unitvars, treevars, ltovars, outvars, invvars, scriptvars, infovars>>
Asking == component = "info"
            /\ UNCHANGED <<component, featvars, unitvars, treevars, ltovars, outvars, invvars, scriptvars, msgvars>>

Next ==
  \/ Uniting /\ TreeNext
  \/ Linking /\ LtoNext
  \/ Naming /\ OutputsNext
  \/ Calling /\ InvocationNext
  \/ Scripting /\ ScriptNext
  \/ Replaying /\ MessagesNext
  \/ Asking /\ RustcInfoNext

\* The features that are resolved and the units made of them agree.
UnitGraphRight == FeaturesFollow /\ UnitsRight

\* What rustc is run with: objects of the kind that LTO needs, outputs that nobody else
\* writes, and the dependencies it was promised.
RustcRunsRight == LtoSupplied /\ OutputsApart /\ CallsRight
=============================================================================
