----------------------------- MODULE Invocation -----------------------------
(***************************************************************************)
(* How cargo calls rustc (src/src/compiler/mod.rs, compilation.rs): the    *)
(* arguments of every unit are put together from its profile, its crate    *)
(* types and its dependencies when the build is planned, and the calls are *)
(* made later, as soon as the artifacts they wait for exist.  A command is *)
(* abstracted to what it emits, the files it names with --extern, the      *)
(* directories it names with -L and the -C options in their order.         *)
(***************************************************************************)
EXTENDS Integers, SequencesExt, Naturals, Sequences, TLC

CONSTANT InvocationWorlds   \* units, their dependencies, options and flags

VARIABLES
  invworld,   \* the unit graph and the options, fixed during a build
  commands,   \* unit -> the command prepared for it, or <<>>
  produced,   \* files that exist: <<unit, "rmeta">>, <<unit, crate type>>
  compiling   \* unit -> "planned", "running", "metadata", "done"

invvars == <<invworld, commands, produced, compiling>>

Units == DOMAIN invworld.units
Types(u) == invworld.units[u].types
Mode(u) == invworld.units[u].mode
DepsOf(u) == invworld.units[u].deps
IsProcMacro(u) == "proc-macro" \in Types(u)

\* CrateType::is_linkable, Target::is_linkable
Linkable == {"lib", "dylib", "proc-macro"}
IsLinkable(u) == Types(u) \intersect Linkable # {}

\* Unit::requires_upstream_objects
NeedsObjects(u) == Mode(u) = "test" \/ Types(u) \ {"lib"} # {}

\* Unit::benefits_from_no_embed_metadata
SplitsMetadata(u) == Mode(u) = "build" /\ Types(u) \intersect {"lib", "dylib"} # {}

\* BuildRunner::only_requires_rmeta
OnlyRmeta(u, d) == /\ ~NeedsObjects(u) /\ Mode(u) = "build"
                   /\ ~NeedsObjects(d) /\ Mode(d) = "build"

-----------------------------------------------------------------------------
(* The arguments                                                           *)

\* A plausible bug: the list of emitted kinds ignores what dependents wait for.
EmitNoMetadata(u) == CASE Mode(u) = "check"     -> {"metadata"}
                       [] ~invworld.embed       -> {"link"}
                       [] OTHER                 -> {"metadata", "link"}

\* The --emit part of build_base_args.
Emit(u) ==
  CASE Mode(u) = "check"  -> {"metadata"}
    [] ~invworld.embed    -> IF SplitsMetadata(u) THEN {"metadata", "link"} ELSE {"link"}
    [] OTHER              -> IF NeedsObjects(u) THEN {"link"} ELSE {"metadata", "link"}

\* TargetInfo::rustc_outputs: the files cargo expects of a unit.
Outputs(u) ==
  CASE Mode(u) = "check" -> {"rmeta"}
    [] Mode(u) = "test"  -> {"bin"}
    [] OTHER -> Types(u) \union
                (IF IF invworld.embed THEN ~NeedsObjects(u)
                                      ELSE SplitsMetadata(u) \/ ~NeedsObjects(u)
                 THEN {"rmeta"} ELSE {})

\* link_to in extern_args: which of a dependency's files are named.
ExternOf(u, d) ==
  IF OnlyRmeta(u, d) \/ Mode(d) = "check" THEN {"rmeta"} \intersect Outputs(d)
  ELSE (Outputs(d) \intersect Linkable)
       \union (IF invworld.embed THEN {} ELSE Outputs(d) \intersect {"rmeta"})

ExternArgs(u) == {<<d, f>> : d \in {e \in DepsOf(u) : IsLinkable(e)},
                             f \in {"rmeta"} \union Linkable}
                 \intersect UNION {{d} \X ExternOf(u, d) : d \in DepsOf(u)}

\* CompilationFiles::deps_dir: one directory per unit in the new layout, one per
\* platform in the old one.
DirOn(kind, u) == <<kind, IF invworld.new_layout THEN u ELSE 0>>
DepsDir(u) == DirOn(invworld.units[u].kind, u)

\* add_dep_arg: the units whose directories are searched in the new layout.
RECURSIVE DepArgs(_)
DepArgs(us) ==
  LET more == UNION {DepsOf(u) : u \in {v \in us : ~IsProcMacro(v)}} \ us
  IN  IF more = {} THEN us ELSE DepArgs(us \union more)

SearchPaths(u) ==
  (IF invworld.new_layout THEN {DepsDir(d) : d \in DepArgs(DepsOf(u))} ELSE {DepsDir(u)})
  \union (IF invworld.units[u].kind = "host" THEN {} ELSE {DirOn("host", u)})

\* The debug-assertions and overflow-checks part of build_base_args: only what
\* differs from rustc's defaults is said.
CheckArgs(p) ==
  IF p.opt # "0"
  THEN IF p.debug_assertions
       THEN <<<<"debug-assertions", "on">>>>
            \o (IF p.overflow_checks THEN <<>> ELSE <<<<"overflow-checks", "off">>>>)
       ELSE IF p.overflow_checks THEN <<<<"overflow-checks", "on">>>> ELSE <<>>
  ELSE IF ~p.debug_assertions
       THEN <<<<"debug-assertions", "off">>>>
            \o (IF p.overflow_checks THEN <<<<"overflow-checks", "on">>>> ELSE <<>>)
       ELSE IF p.overflow_checks THEN <<>> ELSE <<<<"overflow-checks", "off">>>>

\* lto_args
LtoArgs(lto) == CASE lto = "run"        -> <<<<"lto", "on">>>>
                  [] lto = "off"        -> <<<<"lto", "off">>, <<"embed-bitcode", "no">>>>
                  [] lto = "bitcode"    -> <<<<"linker-plugin-lto", "on">>>>
                  [] lto = "object"     -> <<<<"embed-bitcode", "no">>>>
                  [] OTHER              -> <<>>

Option(key, value, default) == IF value = default THEN <<>> ELSE <<<<key, value>>>>

\* build_base_args and the flags prepare_rustc adds after the dependencies.
CodegenArgs(u) ==
  LET p == invworld.units[u].profile
  IN  Option("opt-level", p.opt, "0") \o Option("panic", p.panic, "unwind") \o LtoArgs(p.lto)
      \o Option("codegen-units", p.units, "default") \o p.rustflags \o CheckArgs(p)
      \o Option("strip", p.strip, "none") \o invworld.extra \o invworld.units[u].rustflags

-----------------------------------------------------------------------------
(* The build                                                               *)

InvocationInit == /\ \E family \in InvocationWorlds : invworld \in family
                  /\ commands = [u \in Units |-> <<>>]
                  /\ produced = {}
                  /\ compiling = [u \in Units |-> "planned"]

\* prepare_rustc, when the unit's job is made.
PrepareRustc(u) ==
  /\ commands[u] = <<>>
  /\ commands' = [commands EXCEPT ![u] =
       <<[emit |-> Emit(u), externs |-> ExternArgs(u), paths |-> SearchPaths(u),
          codegen |-> CodegenArgs(u)]>>]
  /\ UNCHANGED <<invworld, produced, compiling>>

RECURSIVE Everything(_)
Everything(us) == LET more == UNION {DepsOf(u) : u \in us} \ us
                  IN  IF more = {} THEN us ELSE Everything(us \union more)

\* JobQueue::enqueue: the artifacts a job waits for.
WaitsFor(u) == IF NeedsObjects(u) THEN Everything(DepsOf(u))
               ELSE {d \in DepsOf(u) : ~OnlyRmeta(u, d)}

Start(u) ==
  /\ \A v \in Units : commands[v] # <<>>
  /\ compiling[u] = "planned"
  /\ \A d \in DepsOf(u) : compiling[d] \in {"metadata", "done"}
  /\ \A d \in WaitsFor(u) : compiling[d] = "done"
  /\ compiling' = [compiling EXCEPT ![u] = "running"]
  /\ UNCHANGED <<invworld, commands, produced>>

\* rustc reports its metadata, and the job passes it on when a dependent waits.
MetadataReady(u) ==
  /\ compiling[u] = "running"
  /\ "metadata" \in commands[u][1].emit
  /\ \E v \in Units : u \in DepsOf(v) /\ OnlyRmeta(v, u)
  /\ produced' = produced \union {<<u, "rmeta">>}
  /\ compiling' = [compiling EXCEPT ![u] = "metadata"]
  /\ UNCHANGED <<invworld, commands>>

Finish(u) ==
  /\ compiling[u] \in {"running", "metadata"}
  /\ LET emit == commands[u][1].emit
     IN  produced' = produced \union
           {<<u, f>> : f \in (IF "metadata" \in emit THEN {"rmeta"} ELSE {})
                             \union (IF "link" \notin emit THEN {}
                                     ELSE IF Mode(u) = "test" THEN {"bin"} ELSE Types(u))}
  /\ compiling' = [compiling EXCEPT ![u] = "done"]
  /\ UNCHANGED <<invworld, commands>>

InvocationNext == \E u \in Units : PrepareRustc(u) \/ Start(u) \/ MetadataReady(u) \/ Finish(u)

-----------------------------------------------------------------------------
(* What rustc makes of a command                                           *)

\* The last occurrence of a -C option counts.
LastOf(args, key, default) ==
  LET said == SelectSeq(args, LAMBDA a : a[1] = key)
  IN  IF said = <<>> THEN default ELSE Last(said)[2]

\* rustc's defaults: assertions follow the optimization, overflow checks follow
\* the assertions.
Effective(args) ==
  LET opt == LastOf(args, "opt-level", "0")
      assertions == LastOf(args, "debug-assertions", IF opt = "0" THEN "on" ELSE "off")
  IN  [opt |-> opt, panic |-> LastOf(args, "panic", "unwind"),
       debug_assertions |-> assertions, strip |-> LastOf(args, "strip", "none"),
       overflow_checks |-> LastOf(args, "overflow-checks", assertions)]

OnOff(b) == IF b THEN "on" ELSE "off"

\* The crates rustc loads: those named, and those behind them, except behind
\* procedural macros.
RECURSIVE LoadedBy(_)
LoadedBy(us) ==
  LET more == {d \in UNION {DepsOf(u) : u \in {v \in us : ~IsProcMacro(v)}} : IsLinkable(d)} \ us
  IN  IF more = {} THEN us ELSE LoadedBy(us \union more)

NamedBy(u) == {d \in DepsOf(u) : IsLinkable(d)}

\* Files of d the call of u can see: those named for a direct dependency, those in
\* the searched directories for the others.
Seen(u, d) ==
  LET cmd == commands[u][1]
  IN  {f \in produced : f[1] = d /\ IF d \in NamedBy(u) THEN f \in cmd.externs
                                                        ELSE DepsDir(d) \in cmd.paths}

\* A library holds metadata unless it was split off.
HoldsMetadata(f) == \/ f[2] = "rmeta"
                    \/ f[2] \in Linkable /\ (invworld.embed \/ ~SplitsMetadata(f[1]))

(* From the moment it is started a call of rustc finds every crate it loads,   *)
(* directly or through others, with its metadata, and every file named with    *)
(* --extern exists (extern_args, lib_search_paths and --emit agree with each   *)
(* other although each is decided from one unit's point of view).              *)
ExternsFound ==
  \A u \in Units : compiling[u] # "planned" =>
    /\ commands[u][1].externs \subseteq produced
    /\ \A d \in LoadedBy(NamedBy(u)) : \E f \in Seen(u, d) : HoldsMetadata(f)

(* A call of rustc that links finds an object file or library of every crate   *)
(* it loads: pipelining never lets it start when only metadata is there.       *)
ObjectsFound ==
  \A u \in Units : compiling[u] # "planned" /\ NeedsObjects(u) /\ Mode(u) # "check" =>
    \A d \in LoadedBy(NamedBy(u)) : \E f \in Seen(u, d) : f[2] \in Linkable

Mentions(args, key) == \E i \in DOMAIN args : args[i][1] = key

(* Without flags of the user, what rustc does by default plus what             *)
(* build_base_args says is exactly the profile. RUSTFLAGS win over the         *)
(* arguments of cargo rustc, and both over whatever the profile says. The      *)
(* profile's own rustflags win over its opt-level, panic and codegen-units,    *)
(* which come before them; its strip, debug-assertions and overflow-checks     *)
(* come after them, but only where they are not what rustc does anyway, and    *)
(* win where they do.                                                          *)
ProfileTaken ==
  \A u \in Units : commands[u] # <<>> =>
    LET p == invworld.units[u].profile
        user == invworld.extra \o invworld.units[u].rustflags
        args == commands[u][1].codegen
        got == Effective(args)
        wins(flags, key) == Mentions(flags, key) => LastOf(args, key, "") = LastOf(flags, key, "")
    IN  /\ \A key \in {"opt-level", "panic", "codegen-units", "strip", "debug-assertions", "overflow-checks"} :
             wins(user, key)
        /\ user = <<>> =>
             /\ p.rustflags = <<>> => got = [opt |-> p.opt, panic |-> p.panic, strip |-> p.strip,
                                             debug_assertions |-> OnOff(p.debug_assertions),
                                             overflow_checks |-> OnOff(p.overflow_checks)]
             /\ \A key \in {"opt-level", "panic", "codegen-units"} : wins(p.rustflags, key)
             /\ p.strip # "none" => got.strip = p.strip
             /\ p.debug_assertions # (p.opt = "0") => got.debug_assertions = OnOff(p.debug_assertions)
             /\ p.overflow_checks # p.debug_assertions => got.overflow_checks = OnOff(p.overflow_checks)

CallsRight == ExternsFound /\ ObjectsFound /\ ProfileTaken

-----------------------------------------------------------------------------
(***************************************************************************)
(* What each unit produces when binaries are optimised at link time        *)
(* (compiler/lto.rs): object code, bitcode or both. A walk from the roots  *)
(* that comes back to a unit when more is asked of it; kept as the stack   *)
(* of calls of calculate to be made.                                       *)
(*                                                                         *)
(* A world has roots : Seq(units), deps : [units -> Seq(units)],           *)
(* types : [units -> the crate types] (of a test, {"bin"}), host : the     *)
(* units whose target is for the host, and lto, the profile's setting.     *)
(***************************************************************************)
CONSTANTS LtoWorlds

VARIABLES
  ltoworld,
  roots_left, \* the roots generate has not come to
  walk,       \* calls of calculate, the next one first
  ltomap      \* from the units met to what they produce

ltovars == <<ltoworld, roots_left, walk, ltomap>>

CanLto == {"bin", "staticlib", "cdylib"}
Dynamic == {"dylib", "cdylib", "proc-macro"}

NeedsObject(types) == types \intersect (CanLto \union Dynamic) # {}
LtoWhenNeedsObject(types) == IF types = {"dylib"} THEN "OnlyObject" ELSE "ObjectAndBitcode"

RootLto(unit) ==
  LET types == ltoworld.types[unit] IN
  CASE ltoworld.lto = "false" -> "OnlyObject"
    [] ltoworld.lto = "off" -> "Off"
    [] unit \in ltoworld.host -> "OnlyObject"
    [] NeedsObject(types) -> LtoWhenNeedsObject(types)
    [] OTHER -> "OnlyBitcode"

OwnLto(unit, parent_lto) ==
  LET types == ltoworld.types[unit] IN
  CASE unit \in ltoworld.host -> "OnlyObject"
    [] types \subseteq CanLto ->
         IF ltoworld.lto = "false" THEN "OnlyObject" ELSE IF ltoworld.lto = "off" THEN "Off" ELSE "Run"
    [] parent_lto = "Run" /\ ~NeedsObject(types) -> "OnlyBitcode"
    [] parent_lto \in {"Run", "OnlyBitcode"} /\ NeedsObject(types) -> LtoWhenNeedsObject(types)
    [] OTHER -> parent_lto

MergeLto(lto, old) ==
  CASE "Run" \in {lto, old} -> "Run"
    [] "Off" \in {lto, old} -> "Off"
    [] lto = old -> lto
    [] OTHER -> "ObjectAndBitcode"

LtoInit ==
  /\ ltoworld \in LtoWorlds
  /\ roots_left = ltoworld.roots /\ walk = <<>> /\ ltomap = [u \in {} |-> "Off"]

generate ==
  /\ walk = <<>> /\ roots_left # <<>>
  /\ walk' = <<[unit |-> Head(roots_left), parent_lto |-> RootLto(Head(roots_left))]>>
  /\ roots_left' = Tail(roots_left)
  /\ UNCHANGED <<ltoworld, ltomap>>

calculate ==
  /\ walk # <<>>
  /\ \E unit \in {Head(walk).unit} : \E lto \in {OwnLto(unit, Head(walk).parent_lto)} :
     \E result \in {IF unit \in DOMAIN ltomap THEN MergeLto(lto, ltomap[unit]) ELSE lto} :
       IF unit \in DOMAIN ltomap /\ result = ltomap[unit]
       THEN walk' = Tail(walk) /\ UNCHANGED ltomap
       ELSE /\ ltomap' = unit :> result @@ ltomap
            /\ walk' = [i \in 1..Len(ltoworld.deps[unit]) |->
                          [unit |-> ltoworld.deps[unit][i], parent_lto |-> result]] \o Tail(walk)
  /\ UNCHANGED <<ltoworld, roots_left>>

LtoNext == generate \/ calculate
-----------------------------------------------------------------------------
HasObject(lto) == lto \in {"OnlyObject", "ObjectAndBitcode", "Off"}
HasBitcode(lto) == lto \in {"OnlyBitcode", "ObjectAndBitcode"}

\* Linked into its parent: not a host tool, nor an artifact of its own.
Linked(unit) == unit \notin ltoworld.host /\ ~(ltoworld.types[unit] \subseteq CanLto)

\* Whatever the order of the roots and of the dependencies, every library shared by units that
\* run LTO and units that do not has the bitcode and the object code that those that link it need.
LtoSupplied ==
  walk = <<>> =>
    \A p \in DOMAIN ltomap : \A i \in 1..Len(ltoworld.deps[p]) :
      LET d == ltoworld.deps[p][i] IN
      Linked(d) =>
        /\ ltomap[p] \in {"OnlyObject", "ObjectAndBitcode", "Off"} => HasObject(ltomap[d])
        /\ ltomap[p] \in {"Run", "OnlyBitcode", "ObjectAndBitcode"} /\ ltoworld.types[d] # {"dylib"}
             => HasBitcode(ltomap[d])
=============================================================================
