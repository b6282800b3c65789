------------------------------ MODULE RustcInfo ------------------------------
(***************************************************************************)
(* What cargo learns from rustc about a platform and which flags and       *)
(* linkers follow from it (src/src/compiler/build_context/target_info.rs,  *)
(* compilation.rs), with the answers of rustc kept in .rustc_info.json     *)
(* between and shared by the cargos of a workspace (src/src/util/rustc.rs).*)
(* The file is read and written without a lock.                            *)
(*                                                                         *)
(* An edition of rustc or of its wrapper is what rustc_fingerprint hashes  *)
(* of it, its path, length and times: an old executable that is put back   *)
(* has times of its own and is a new edition.  A specification is hashed   *)
(* by its contents; that one is edited while rustc reads it, and later     *)
(* edited back, is left out.                                               *)
(***************************************************************************)
EXTENDS Integers, SequencesExt

CONSTANTS InfoCargo,    \* the cargos that use one target directory
          InfoWorlds    \* configuration, requested platform and budgets

VARIABLES
  riworld,    \* the configuration
  rustc,      \* [compiler |-> n, wrapper |-> n, spec |-> n]: the editions of rustc, of
              \* RUSTC_WRAPPER and of the target's specification
  info_file,  \* .rustc_info.json: <<>> (none or not JSON) or <<[fp |-> ..., outputs |-> ...]>>
  learner,    \* cargo -> what it holds
  rileft      \* how often things may still change or fail

infovars == <<riworld, rustc, info_file, learner, rileft>>

RustcHost == "H"
Away == [at |-> "away", kinds |-> <<>>, fp |-> <<>>, outputs |-> {}, dirty |-> FALSE, turn |-> 0,
         flags |-> <<>>, asked |-> <<>>, infos |-> {}, linkers |-> <<>>,
         since |-> [compiler |-> 0, wrapper |-> 0, spec |-> 0]]

-----------------------------------------------------------------------------
(* Flags: extra_args and its sources                                       *)

Triple(kind) == IF kind = "host" THEN RustcHost ELSE kind

\* host_artifact_uses_only_host_config
OnlyHostConfig(kind) == kind = "host" /\ ~(riworld.applies /\ riworld.requested = "host")

\* CfgExpr::matches_key, with the cfgs not known yet nothing matches.
Matching(cfgs, known) == SelectSeq(riworld.cfg_tables, LAMBDA t : known /\ t.cond \in cfgs)

\* rustflags_from_target
FlagsFromTarget(kind, cfgs, known) ==
  riworld.target_flags[Triple(kind)]
  \o FlattenSeq([i \in DOMAIN Matching(cfgs, known) |-> Matching(cfgs, known)[i].flags])

\* extra_args: the first source that says something is the only one.
ExtraArgs(kind, cfgs, known) ==
  IF OnlyHostConfig(kind) THEN riworld.host_flags
  ELSE IF riworld.env_flags # <<>> THEN riworld.env_flags[1]
  ELSE IF FlagsFromTarget(kind, cfgs, known) # <<>> THEN FlagsFromTarget(kind, cfgs, known)
  ELSE riworld.build_flags

-----------------------------------------------------------------------------
(* The cache of rustc's answers                                            *)

\* rustc itself: a flag may switch on the cfg of its name; every platform has its own.
CfgOf(kind, flags) == {Triple(kind)} \union {flags[i] : i \in DOMAIN flags}

\* A plausible bug: behind rustup only the proxy is looked at.
RustcFingerprintProxy ==
  IF riworld.rustup = "none" THEN <<rustc.compiler, rustc.wrapper>> ELSE <<0, rustc.wrapper>>

\* rustc_fingerprint: the executable, or what the rustup proxy will run, and the wrapper;
\* <<>> when it cannot be told, which disables the cache.
RustcFingerprint == IF riworld.rustup = "unknown" THEN <<>> ELSE <<rustc.compiler, rustc.wrapper>>

\* process_fingerprint with CompileKind::fingerprint_hash: a target named by a
\* specification file is hashed by its contents.
ProcessFingerprint(kind, flags) ==
  <<kind, flags, IF riworld.json /\ kind # "host" THEN rustc.spec ELSE 0>>

RustcInfoInit == /\ \E family \in InfoWorlds : riworld \in family
                 /\ rustc = [compiler |-> 1, wrapper |-> 1, spec |-> 1]
                 /\ info_file = <<>>
                 /\ learner = [p \in InfoCargo |-> Away]
                 /\ rileft = riworld.budget

To(p, state) == learner' = [learner EXCEPT ![p] = state]

\* RustcTargetData::new: the host, and the platforms built for; the host a second time,
\* as a target, when the [target] tables do not apply to host tools.
KindsToLearn == IF riworld.requested # "host" THEN <<"host", riworld.requested>>
                ELSE IF riworld.applies THEN <<"host">> ELSE <<"host", RustcHost>>

\* Cache::load in Rustc::new.
LoadCache(p) ==
  /\ learner[p].at = "away"
  /\ rileft.runs > 0
  /\ rileft' = [rileft EXCEPT !.runs = @ - 1]
  /\ LET fp == RustcFingerprint
         same == fp # <<>> /\ info_file # <<>> /\ info_file[1].fp = fp
     IN  To(p, [Away EXCEPT !.at = "version", !.fp = fp, !.dirty = ~same /\ fp # <<>>, !.since = rustc,
                            !.outputs = IF same THEN info_file[1].outputs ELSE {},
                            !.kinds = KindsToLearn])
  /\ UNCHANGED <<riworld, rustc, info_file>>

Key(p) == LET l == learner[p]
          IN  IF l.at = "version" THEN <<"-vV", <<>>, 0>> ELSE ProcessFingerprint(Head(l.kinds), l.flags)

\* What follows an answer: the loop of TargetInfo::new, then the next platform.
Learnt(l, out) ==
  LET more == IF l.at = "version" THEN l.kinds ELSE Tail(l.kinds)
      next == [l EXCEPT !.at = IF more = <<>> THEN "building" ELSE "target", !.kinds = more, !.turn = 0,
                        !.flags = IF more = <<>> THEN <<>> ELSE ExtraArgs(Head(more), {}, FALSE)]
      kind == Head(l.kinds)
      cfgs == CfgOf(kind, out.flags)
      flags == ExtraArgs(kind, cfgs, TRUE)
  IN  IF ~out.success THEN [l EXCEPT !.at = "failed"]
      ELSE IF l.at = "version" THEN next
      ELSE IF flags # l.flags /\ l.turn = 0 THEN [l EXCEPT !.turn = 1, !.flags = flags]
      ELSE [next EXCEPT !.infos = @ \union {[kind |-> kind, flags |-> l.flags, cfg |-> cfgs, out |-> out,
                                             warned |-> flags # l.flags]}]

\* Cache::cached_output when the answer is known ...
CacheHit(p) ==
  LET l == learner[p]
      known == {o \in l.outputs : o.key = Key(p)}
  IN  /\ l.at \in {"version", "target"}
      /\ l.asked = <<>>
      /\ known # {}
      /\ \E o \in known : To(p, Learnt(l, o.out))
      /\ UNCHANGED <<riworld, rustc, info_file, rileft>>

\* ... and when it is not: the key is computed first, then rustc runs.
CacheMiss(p) ==
  LET l == learner[p]
  IN  /\ l.at \in {"version", "target"}
      /\ l.asked = <<>>
      /\ \A o \in l.outputs : o.key # Key(p)
      /\ To(p, [l EXCEPT !.asked = <<Key(p)>>])
      /\ UNCHANGED <<riworld, rustc, info_file, rileft>>

RunRustc(p) ==
  LET l == learner[p]
  IN  /\ l.asked # <<>>
      /\ \E success \in {TRUE} \union (IF rileft.failures > 0 THEN {FALSE} ELSE {}) :
           LET out == [success |-> success, from |-> rustc, flags |-> l.flags]
               has == [l EXCEPT !.asked = <<>>, !.dirty = l.fp # <<>>,
                                !.outputs = @ \union {[key |-> l.asked[1], out |-> out]}]
           IN  /\ To(p, Learnt(has, out))
               /\ rileft' = [rileft EXCEPT !.failures = IF success THEN @ ELSE @ - 1]
      /\ UNCHANGED <<riworld, rustc, info_file>>

-----------------------------------------------------------------------------
(* The linker of a unit (Compilation::new, add_codegen_linker)             *)

\* The cfg tables with a linker that match, of which target_linker takes one at most.
CfgLinkers(cfgs) == SelectSeq(Matching(cfgs, TRUE), LAMBDA t : t.linker # "none")

\* target_linker: the [host] or [target.x] table, then the cfg table that matches.
TargetLinker(kind, cfgs) ==
  LET said == IF kind = "host" /\ ~riworld.applies THEN riworld.linkers["host"]
              ELSE riworld.linkers[Triple(kind)]
      tables == CfgLinkers(cfgs)
  IN  IF said # "none" \/ (kind = "host" /\ ~riworld.applies) THEN said
      ELSE IF Len(tables) > 1 THEN "several"
      ELSE IF tables = <<>> THEN "none" ELSE tables[1].linker

\* Compilation::new looks up the linker of every platform it knows.
NewCompilation(p) ==
  LET l == learner[p]
      kinds == {i.kind : i \in l.infos}
      linkers == [k \in kinds |-> TargetLinker(k, (CHOOSE i \in l.infos : i.kind = k).cfg)]
  IN  /\ l.at = "building"
      /\ To(p, IF \E k \in kinds : linkers[k] = "several" THEN [l EXCEPT !.at = "failed"]
               ELSE [l EXCEPT !.at = "compiling", !.linkers = linkers])
      /\ UNCHANGED <<riworld, rustc, info_file, rileft>>

\* add_codegen_linker: Compilation::host_linker or Compilation::target_linker.
LinkerOf(linkers, kind, for_host) ==
  LET of == IF kind = "host" /\ ~riworld.applies /\ ~for_host THEN RustcHost
            ELSE IF for_host /\ ~riworld.applies THEN "host" ELSE kind
  IN  IF of \in DOMAIN linkers THEN linkers[of] ELSE "none"

-----------------------------------------------------------------------------
(* The end of a cargo                                                      *)

\* Cache::drop: nothing to write, or the file is truncated and then written.
EndClean(p) ==
  /\ learner[p].at \in {"compiling", "failed"} /\ ~learner[p].dirty
  /\ To(p, Away)
  /\ UNCHANGED <<riworld, rustc, info_file, rileft>>

EndTruncate(p) ==
  /\ learner[p].at \in {"compiling", "failed"} /\ learner[p].dirty
  /\ To(p, [learner[p] EXCEPT !.at = "writing"])
  /\ info_file' = <<>>
  /\ UNCHANGED <<riworld, rustc, rileft>>

\* When another cargo wrote in between, the two texts overlap: the file is this
\* cargo's text, or that followed by the rest of a longer one, which is not JSON.
EndWrite(p) ==
  /\ learner[p].at = "writing"
  /\ info_file' \in {<<[fp |-> learner[p].fp, outputs |-> learner[p].outputs]>>}
                    \union (IF info_file = <<>> THEN {} ELSE {<<>>})
  /\ To(p, Away)
  /\ UNCHANGED <<riworld, rustc, rileft>>

KillCargo(p) ==
  /\ learner[p].at # "away"
  /\ rileft.kills > 0
  /\ rileft' = [rileft EXCEPT !.kills = @ - 1]
  /\ To(p, Away)
  /\ UNCHANGED <<riworld, rustc, info_file>>

\* Somebody installs another rustc or wrapper, or edits the target's specification.
Upgrade == \E part \in {"compiler", "wrapper", "spec"} :
  /\ rileft.changes > 0
  /\ part = "spec" => riworld.json
  /\ rileft' = [rileft EXCEPT !.changes = @ - 1]
  /\ rustc' = [rustc EXCEPT ![part] = @ + 1]
  /\ UNCHANGED <<riworld, info_file, learner>>

RustcInfoNext == \/ \E p \in InfoCargo :
                      \/ LoadCache(p) \/ CacheHit(p) \/ CacheMiss(p) \/ RunRustc(p)
                      \/ NewCompilation(p) \/ EndClean(p) \/ EndTruncate(p) \/ EndWrite(p) \/ KillCargo(p)
                 \/ Upgrade

-----------------------------------------------------------------------------
(* Properties                                                              *)

(* Nothing a cargo learns is older than the cargo itself: an answer comes from   *)
(* a compiler, a wrapper and a target specification that were in place after it   *)
(* was started (rustc_fingerprint and process_fingerprint tell every change apart, *)
(* a file that was cut short, overwritten or written by another cargo in between  *)
(* is either right or not used).                                                  *)
InfoCurrent ==
  \A p \in InfoCargo : \A i \in learner[p].infos :
    /\ i.out.from.compiler >= learner[p].since.compiler
    /\ i.out.from.wrapper >= learner[p].since.wrapper
    /\ riworld.json /\ i.kind # "host" => i.out.from.spec >= learner[p].since.spec

(* The flags a platform is built with are the ones its configuration asks for,   *)
(* judged with the cfgs those very flags give, unless cargo warned that the two  *)
(* depend on each other; of several sources only one is used, and RUSTFLAGS never *)
(* reach host tools when platforms are told apart.                               *)
FlagsSettled ==
  \A p \in InfoCargo : \A i \in learner[p].infos :
    LET sources == <<riworld.env_flags,
                     LET t == riworld.target_flags[Triple(i.kind)]
                              \o FlattenSeq([k \in DOMAIN riworld.cfg_tables |->
                                   IF riworld.cfg_tables[k].cond \in i.cfg
                                   THEN riworld.cfg_tables[k].flags ELSE <<>>])
                     IN  IF t = <<>> THEN <<>> ELSE <<t>>,
                     <<riworld.build_flags>>>>
        said == SelectSeq(sources, LAMBDA s : s # <<>>)
    IN  /\ i.cfg = CfgOf(i.kind, i.flags)
        /\ IF i.kind = "host" /\ (riworld.requested # "host" \/ ~riworld.applies)
           THEN i.flags = riworld.host_flags
           ELSE i.warned \/ i.flags = Head(said)[1]

(* In a build that starts, what is built for a platform is linked by the linker   *)
(* of its [target] table, or else of the one cfg table that matches the cfgs      *)
(* settled for that very platform, and never by the one of [host]; with           *)
(* target-applies-to-host = false build scripts and macros are linked by the one   *)
(* of [host] only.  Two matching tables never silently give one linker.           *)
LinkersApart ==
  \A p \in InfoCargo : learner[p].at = "compiling" =>
    LET l == learner[p]
    IN  /\ ~riworld.applies => LinkerOf(l.linkers, "host", TRUE) = riworld.linkers["host"]
        /\ \A i \in l.infos : i.kind # "host" \/ riworld.applies =>
             LET kind == IF i.kind = RustcHost /\ riworld.requested = "host" THEN "host" ELSE i.kind
                 own == riworld.linkers[Triple(i.kind)]
                 given == IF own # "none" THEN {own}
                          ELSE {t.linker : t \in {t \in ToSet(riworld.cfg_tables) : t.cond \in i.cfg}}
             IN  {LinkerOf(l.linkers, kind, FALSE)} \ {"none"} = given \ {"none"}

InfoRight == InfoCurrent /\ FlagsSettled /\ LinkersApart
=============================================================================
