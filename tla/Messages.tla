------------------------------ MODULE Messages ------------------------------
(***************************************************************************)
(* What the compiler says (on_stderr_line): each line is shown, counted or *)
(* acted upon, and kept in the unit's message cache, from which a later    *)
(* cargo that finds the unit fresh shows it again (replay_output_cache).   *)
(*                                                                         *)
(* A line is its class: "text", "warning", "error", "summary" (of warnings *)
(* or errors), "rmeta" and "artifact" (notifications), "future" (a report  *)
(* of future incompatibility, with one warning), "externs", "timing" or    *)
(* "json" (anything else).  The source may change between runs.  A command *)
(* is `hidden` when it needs the unit to scrape examples.                  *)
(***************************************************************************)
EXTENDS Integers, SequencesExt

CONSTANTS Texts,        \* what rustc says of a source, a set of sequences of lines
          MsgCommands   \* records [format, verbose, hidden]

VARIABLES lines,    \* what rustc says of the source as it is
          local,    \* Unit::is_local
          cache,    \* the message cache: a sequence of lines, or NoCache
          valid,    \* the unit's fingerprint: the source it is for (and, not part of it, the
                    \* warnings rustc was allowed), or NoText
          msgrun    \* the cargo that runs: its command, mode, what it reads, shows, counts

msgvars == <<lines, local, cache, valid, msgrun>>

NoCache == <<"no cache">>
NoText == <<>>
Idle == [mode |-> "none", left |-> <<>>, shown |-> <<>>, warnings |-> 0, errors |-> 0,
         made |-> 0, cmd |-> [format |-> "human", verbose |-> FALSE, hidden |-> FALSE]]

ShowWarnings(cmd) == local \/ cmd.verbose

\* compute_cap_lints: rustc has no warnings to give for a foreign package
Said(cmd) == IF ShowWarnings(cmd) THEN lines ELSE SelectSeq(lines, LAMBDA l : l # "warning")

\* show_diagnostics, of OutputOptions::for_fresh and for_dirty
ShowDiagnostics(run) ==
  IF run.mode = "fresh" THEN ShowWarnings(run.cmd) ELSE ~(run.cmd.hidden /\ ~run.cmd.verbose)

Count(run, line) ==
  [run EXCEPT !.warnings = @ + (IF line \in {"warning", "future"} THEN 1 ELSE 0), !.errors = @ + (IF line = "error" THEN 1 ELSE 0)]

Show(run, line, how) == [run EXCEPT !.shown = Append(@, <<line, how>>)]

\* on_stderr_line_inner: the run after the line
Handled(run, line) ==
  LET diagnostic == line \in {"warning", "error", "summary"}
      shows == ShowDiagnostics(run)
  IN CASE line = "text" -> Show(run, line, "stderr")
       [] line = "future" -> Show(Count(run, line), line, "report")
       [] line = "timing" -> run
       [] diagnostic /\ run.cmd.format \in {"human", "json-rendered"} ->
            IF line # "summary" /\ shows THEN Show(Count(run, line), line, "rendered") ELSE run
       [] line = "rmeta" -> [run EXCEPT !.made = @ + 1]
       [] line = "artifact" -> run
       [] line = "externs" -> Show(run, line, "unused")
       [] OTHER -> IF ~shows \/ line = "summary" THEN run ELSE Show(Count(run, line), line, "json")

\* what on_stderr_line_inner returns: whether the line is worth keeping
Cached(line) == line \notin {"timing", "rmeta", "artifact"}

----------------------------------------------------------------------------
MessagesInit ==
  /\ lines \in Texts /\ local \in BOOLEAN
  /\ cache = NoCache /\ valid = NoText
  /\ msgrun = Idle

ForDirtyKeepsCache(cmd) ==
  /\ valid' = NoText /\ UNCHANGED cache
  /\ msgrun' = [Idle EXCEPT !.mode = "dirty", !.left = Said(cmd), !.cmd = cmd]

\* prepare_target, then OutputOptions::for_dirty: the cache is removed
ForDirty(cmd) ==
  /\ valid' = NoText /\ cache' = NoCache
  /\ msgrun' = [Idle EXCEPT !.mode = "dirty", !.left = Said(cmd), !.cmd = cmd]

ForFresh(cmd) ==
  /\ msgrun' = [Idle EXCEPT !.mode = "fresh", !.left = IF cache = NoCache THEN <<>> ELSE cache, !.cmd = cmd]
  /\ UNCHANGED <<cache, valid>>

\* compile: is the unit fresh?  Whether warnings were capped is not asked.
PrepareUnit ==
  /\ msgrun.mode = "none"
  /\ \E cmd \in MsgCommands : IF valid # NoText /\ valid[1] = lines THEN ForFresh(cmd) ELSE ForDirty(cmd)
  /\ UNCHANGED <<lines, local>>

OnStderrLine ==
  /\ msgrun.mode = "dirty" /\ msgrun.left # <<>>
  /\ LET line == Head(msgrun.left)
     IN /\ msgrun' = Handled([msgrun EXCEPT !.left = Tail(@)], line)
        /\ cache' = IF Cached(line) THEN Append(IF cache = NoCache THEN <<>> ELSE cache, line) ELSE cache
  /\ UNCHANGED <<lines, local, valid>>

\* rustc exits: with an error the job fails and there is no fingerprint
RustcExits ==
  /\ msgrun.mode = "dirty" /\ msgrun.left = <<>>
  /\ valid' = IF "error" \in ToSet(lines) THEN NoText ELSE <<lines, ShowWarnings(msgrun.cmd)>>
  /\ msgrun' = [msgrun EXCEPT !.mode = "ran"]
  /\ UNCHANGED <<lines, local, cache>>

ReplayLine ==
  /\ msgrun.mode = "fresh" /\ msgrun.left # <<>>
  /\ msgrun' = Handled([msgrun EXCEPT !.left = Tail(@)], Head(msgrun.left))
  /\ UNCHANGED <<lines, local, cache, valid>>

ReplayEnds ==
  /\ msgrun.mode = "fresh" /\ msgrun.left = <<>>
  /\ msgrun' = [msgrun EXCEPT !.mode = "replayed"]
  /\ UNCHANGED <<lines, local, cache, valid>>

\* cargo ends, or is killed
CargoGone ==
  /\ msgrun.mode # "none"
  /\ msgrun' = Idle
  /\ UNCHANGED <<lines, local, cache, valid>>

EditSource ==
  /\ msgrun.mode = "none"
  /\ lines' \in Texts \ {lines}
  /\ UNCHANGED <<local, cache, valid, msgrun>>

MessagesNext ==
  PrepareUnit \/ OnStderrLine \/ RustcExits \/ ReplayLine \/ ReplayEnds \/ CargoGone \/ EditSource

----------------------------------------------------------------------------
\* How the lines are put before the reader of this command's output, who sees
\* the diagnostics or not.
Rendered(cmd, said, diagnostics) ==
  LET how(l) == CASE l = "text" -> "stderr" [] l = "future" -> "report" [] l = "externs" -> "unused"
                  [] l \in {"warning", "error"} /\ cmd.format # "json" -> "rendered" [] OTHER -> "json"
      worth == SelectSeq(said, LAMBDA l : l \notin {"timing", "rmeta", "artifact", "summary"})
      seen == SelectSeq(worth, LAMBDA l : diagnostics \/ l \in {"text", "future", "externs"})
  IN [i \in DOMAIN seen |-> <<seen[i], how(seen[i])>>]

\* What rustc says of this source, or said of it when it was last compiled.
SaidThen == IF valid[2] THEN lines ELSE SelectSeq(lines, LAMBDA l : l # "warning")

\* A compile shows all that rustc says, less the diagnostics of a unit that is
\* only needed to scrape examples.  A fresh unit is reported with what rustc said
\* of this source: in today's format whatever the format of the run that compiled
\* it, after runs that failed or were killed, and with the diagnostics that the
\* compile hid, since for_fresh does not ask what the unit is needed for; those of
\* a foreign package only with -vv (OutputOptions, replay_output_cache).  Metadata
\* is announced when rustc makes it, never by a replay, and what is shown or put
\* in a report is what is counted.
ReplayFaithful ==
  /\ msgrun.mode = "ran" =>
       msgrun.shown = Rendered(msgrun.cmd, Said(msgrun.cmd), msgrun.cmd.verbose \/ ~msgrun.cmd.hidden)
  /\ msgrun.mode = "replayed" =>
       /\ msgrun.shown = Rendered(msgrun.cmd, SaidThen, ShowWarnings(msgrun.cmd))
       /\ msgrun.made = 0 /\ msgrun.errors = 0
  /\ msgrun.warnings = Len(SelectSeq(msgrun.shown, LAMBDA s : s[1] \in {"warning", "future"}))
=============================================================================
