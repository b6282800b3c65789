------------------------------- MODULE JobQueue -------------------------------
(***************************************************************************)
(* The execution of a build: compiler/job_queue.  The main thread enqueues *)
(* the units of a build in a DependencyQueue and then runs the loop of     *)
(* drain_the_queue: dequeue what is ready, start as many jobs as there are *)
(* jobserver tokens, wait for messages, handle them.  A dirty unit is      *)
(* compiled by a thread of its own, a fresh one on the main thread; both   *)
(* report through the one message queue.  A helper thread turns requests   *)
(* for jobserver tokens into Token messages.                               *)
(*                                                                         *)
(* A JobId is drawn once for each unit that is started, so a job is named  *)
(* by its unit.  Left out: what is printed, timings, progress, counts per  *)
(* package, and units that `cargo check --compile-time-deps` skips.        *)
(***************************************************************************)
EXTENDS Integers, FiniteSets, Sequences, Functions, Relation

CONSTANTS
  Unit,     \* the units of all builds
  Builds,   \* the builds considered: see Build below
  Jobs,     \* -j: the tokens of the jobserver, the implicit one included
  Bound     \* Queue::new(100): the capacity push_bounded respects

Artifact == {"All", "Metadata"}

\* What a build fixes before the queue is executed.
Build == [
  units : SUBSET Unit,           \* the units of this build
  deps : [Unit -> SUBSET Unit],  \* unit_deps
  upstream : SUBSET Unit,        \* requires_upstream_objects: bins, proc macros...
  build_mode : SUBSET Unit,      \* mode == CompileMode::Build
  unneeded : SUBSET Unit,        \* bins and tests nobody needs to compile against
  scrape : SUBSET Unit,          \* unit_can_fail_for_docscraping
  scripts : SUBSET Unit,         \* mode.is_run_custom_build
  fresh : SUBSET Unit,           \* Freshness::Fresh
  keep_going : BOOLEAN,
  deny_warnings : BOOLEAN,       \* WarningHandling::Deny
  io_fails : BOOLEAN,            \* writing to the shell may fail
  jobserver_fails : BOOLEAN,     \* acquiring a token may fail
  chatter : [Unit -> Nat]]       \* how many messages a job sends before it ends

ASSUME UnitsFinite == IsFiniteSet(Unit)
ASSUME BuildsTyped == Builds \subseteq Build
ASSUME JobsPositive == Jobs \in Nat \ {0}
ASSUME BoundPositive == Bound \in Nat \ {0}

\* A failed scrape unit must not leave a Metadata edge behind: the units that may
\* fail are scrape units and what is checked for them, never built.
ASSUME ScrapeNotBuilt == \A b \in Builds : b.scrape \intersect b.build_mode = {}

VARIABLES
  build,            \* the build, an element of Builds
  dep_map, reverse_dep_map, cost, priority, finished,  \* queue: DependencyQueue
  drain_at,               \* where the main thread is
  pending_queue,    \* dequeued units in ascending priority
  active,           \* units with a JobId
  tokens,           \* jobserver tokens held, besides the implicit one
  messages,         \* the message queue
  events,           \* messages taken from it and not handled yet
  errors,           \* ErrorsDuringDrain.count > 0
  linted,           \* units whose warning_count has denied lints
  lint_warnings,    \* compilation.lint_warning_count > 0, warnings being denied
  failed_scrape_units,
  result,           \* what the build returns
  job,              \* where the job of each unit is
  outcome,          \* what job.run returned
  rmeta,            \* the state of JobState.rmeta_required
  sent,             \* messages sent by each job, the Finish ones not counted
  requested,        \* request_token calls the helper thread has not served
  available,        \* tokens in the jobserver's pipe
  others            \* tokens held by rustc and other clients of the jobserver

queue == <<dep_map, reverse_dep_map, cost, priority, finished>>
report == <<linted, lint_warnings, failed_scrape_units, result>>
drain == <<drain_at, pending_queue, active, events, errors, report>>
jobs == <<job, outcome, rmeta, sent>>
jobserver == <<requested, available, others>>
jqvars == <<build, queue, drain, messages, tokens, jobs, jobserver>>

Q == INSTANCE DependencyQueueProofs WITH Node <- Unit, Edge <- Artifact, Costs <- {100}

-----------------------------------------------------------------------------
(* Messages. *)

\* Run, Stdout, Stderr, FutureIncompatReport, UnusedExterns, SectionTiming
Note(u) == [kind |-> "Note", unit |-> u]
\* Diagnostic and Warning, WarningCount when sent by a fresh job; lint: a lint of
\* a local unit that the configuration denies
Diagnostic(u, lint) == [kind |-> "Diagnostic", unit |-> u, lint |-> lint]
FinishMsg(u, artifact, ok) ==
  [kind |-> "Finish", unit |-> u, artifact |-> artifact, ok |-> ok]
Token(ok) == [kind |-> "Token", ok |-> ok]

Message ==
  {Note(u) : u \in Unit}
  \union {Diagnostic(u, l) : u \in Unit, l \in BOOLEAN}
  \union {FinishMsg(u, a, ok) : u \in Unit, a \in Artifact, ok \in BOOLEAN}
  \union {Token(ok) : ok \in BOOLEAN}

-----------------------------------------------------------------------------
(* The edges between units. *)

\* The unit only needs the .rmeta of its dependency to compile.
OnlyRequiresRmeta(parent, dep) ==
  /\ parent \notin build.upstream /\ parent \in build.build_mode
  /\ dep \notin build.upstream /\ dep \in build.build_mode

RmetaRequired(u) == \E p \in Unit : u \in build.deps[p] /\ OnlyRequiresRmeta(p, u)

\* The units that u compiles against, directly.
DirectDeps(u) == build.deps[u] \ build.unneeded

\* What depend_on_deps_of_deps reaches: everything below a dependency of u.  The map
\* it fills is its visited set; what that holds at the start is walked by enqueue.
DepsOfDeps(u) ==
  LET below == TransitiveClosure([p \in Unit \X Unit |-> p[2] \in build.deps[p[1]]], Unit)
  IN  {v \in Unit : \E d \in build.deps[u] : below[<<d, v>>]}

\* The queue_deps of enqueue.
QueueDeps(u) ==
  LET artifact(d) == IF OnlyRequiresRmeta(u, d) THEN "Metadata" ELSE "All"
  IN  IF u \in build.upstream
        THEN {<<d, "All">> : d \in DirectDeps(u) \union DepsOfDeps(u)}
        ELSE {<<d, artifact(d)>> : d \in DirectDeps(u)}

-----------------------------------------------------------------------------
(* Filling the queue. *)

JQInit ==
  /\ build \in Builds
  /\ Q!DQInit
  /\ drain_at = "enqueue"
  /\ pending_queue = <<>>
  /\ active = {}
  /\ tokens = 0
  /\ messages = <<>>
  /\ events = <<>>
  /\ errors = FALSE
  /\ linted = {}
  /\ lint_warnings = FALSE
  /\ failed_scrape_units = {}
  /\ result = "none"
  /\ job = [u \in Unit |-> "idle"]
  /\ outcome = [u \in Unit |-> "none"]
  /\ rmeta = [u \in Unit |-> "unneeded"]
  /\ sent = [u \in Unit |-> 0]
  /\ requested = 0
  /\ available = Jobs - 1
  /\ others = 0

Enqueue(u) ==
  /\ drain_at = "enqueue"
  /\ u \in build.units
  /\ Q!Queue(u, QueueDeps(u), 100)
  /\ UNCHANGED <<build, drain, messages, tokens, jobs, jobserver>>

\* Mutant: the drain loop waits for events before it spawns anything.
ExecuteWaiting ==
  /\ drain_at = "enqueue"
  /\ DOMAIN dep_map = build.units
  /\ Q!QueueFinished
  /\ drain_at' = "wait"
  /\ UNCHANGED <<build, pending_queue, active, events, errors, report, messages,
                 tokens, jobs, jobserver>>

\* execute: the queue is complete, the drain loop begins.
Execute ==
  /\ drain_at = "enqueue"
  /\ DOMAIN dep_map = build.units
  /\ Q!QueueFinished
  /\ drain_at' = "dequeue"
  /\ UNCHANGED <<build, pending_queue, active, events, errors, report, messages,
                 tokens, jobs, jobserver>>

-----------------------------------------------------------------------------
(* spawn_work_if_possible. *)

HasExtraTokens == Cardinality(active) < tokens + 1

\* The loop of drain_the_queue goes on while something is active.
AfterSpawn(act) == IF act = {} THEN "end" ELSE "wait"

\* partition_point: behind the pending units of lower or equal priority.
InsertPending(u) ==
  LET idx == Cardinality({i \in DOMAIN pending_queue :
                            priority[pending_queue[i]] <= priority[u]})
  IN  SubSeq(pending_queue, 1, idx) \o <<u>>
        \o SubSeq(pending_queue, idx + 1, Len(pending_queue))

\* Mutant: the unit just dequeued is not counted.
DequeueUnitLateRequest(u) ==
  /\ drain_at = "dequeue"
  /\ Q!Dequeue(u)
  /\ pending_queue' = InsertPending(u)
  /\ requested' = IF Cardinality(active) + Len(pending_queue) > 1
                    THEN requested + 1 ELSE requested
  /\ UNCHANGED <<build, drain_at, active, events, errors, report, messages, tokens, jobs,
                 available, others>>

DequeueUnit(u) ==
  /\ drain_at = "dequeue"
  /\ Q!Dequeue(u)
  /\ pending_queue' = InsertPending(u)
  /\ requested' = IF Cardinality(active) + Len(pending_queue') > 1
                    THEN requested + 1 ELSE requested
  /\ UNCHANGED <<build, drain_at, active, events, errors, report, messages, tokens, jobs,
                 available, others>>

DequeueNone ==
  /\ drain_at = "dequeue"
  /\ Q!Ready = {}
  /\ drain_at' = "start"
  /\ UNCHANGED <<build, queue, pending_queue, active, events, errors, report,
                 messages, tokens, jobs, jobserver>>

\* pending_queue.pop(): all but the last.
PopPending == SubSeq(pending_queue, 1, Len(pending_queue) - 1)

\* run: a fresh job runs on this thread and blocks it, a dirty one is spawned.
StartJob(u) ==
  /\ drain_at = "start"
  /\ HasExtraTokens
  /\ pending_queue # <<>>
  /\ u = pending_queue[Len(pending_queue)]
  /\ pending_queue' = PopPending
  /\ active' = active \union {u}
  /\ job' = [job EXCEPT ![u] = "running"]
  /\ rmeta' = [rmeta EXCEPT ![u] = IF RmetaRequired(u) THEN "required" ELSE "unneeded"]
  /\ drain_at' = IF u \in build.fresh THEN "fresh" ELSE "start"
  /\ UNCHANGED <<build, queue, events, errors, report, messages, tokens, outcome,
                 sent, jobserver>>

\* Mutant: the error does not end the spawning.
NoteWorkingOnFailsOnward ==
  /\ drain_at = "start"
  /\ build.io_fails
  /\ HasExtraTokens
  /\ pending_queue # <<>>
  /\ pending_queue' = PopPending
  /\ errors' = TRUE
  /\ UNCHANGED <<build, drain_at, queue, active, events, report, messages, tokens, jobs,
                 jobserver>>

\* "An error here will drop the job without starting it."
NoteWorkingOnFails ==
  /\ drain_at = "start"
  /\ build.io_fails
  /\ HasExtraTokens
  /\ pending_queue # <<>>
  /\ pending_queue' = PopPending
  /\ errors' = TRUE
  /\ drain_at' = AfterSpawn(active)
  /\ UNCHANGED <<build, queue, active, events, report, messages, tokens, jobs,
                 jobserver>>

\* The fresh job's run_to_finish has returned.
FreshJobReturns ==
  /\ drain_at = "fresh"
  /\ \A u \in active \intersect build.fresh : job[u] = "done"
  /\ drain_at' = "start"
  /\ UNCHANGED <<build, queue, pending_queue, active, events, errors, report,
                 messages, tokens, jobs, jobserver>>

StartNone ==
  /\ drain_at = "start"
  /\ ~HasExtraTokens \/ pending_queue = <<>>
  /\ drain_at' = AfterSpawn(active)
  /\ UNCHANGED <<build, queue, pending_queue, active, events, errors, report,
                 messages, tokens, jobs, jobserver>>

-----------------------------------------------------------------------------
(* wait_for_events and handle_event. *)

TryPopAll ==
  /\ drain_at = "wait"
  /\ messages # <<>>
  /\ events' = messages
  /\ messages' = <<>>
  /\ drain_at' = "handle"
  /\ UNCHANGED <<build, queue, pending_queue, active, errors, report, tokens, jobs,
                 jobserver>>

\* Nothing to handle: give surplus tokens back before blocking.  A timeout of pop
\* comes back here with the same active set, and changes nothing.
TruncateTokens ==
  /\ drain_at = "wait"
  /\ messages = <<>>
  /\ LET kept == IF tokens <= Cardinality(active) - 1
                   THEN tokens ELSE Cardinality(active) - 1
     IN  /\ tokens' = kept
         /\ available' = available + (tokens - kept)
  /\ drain_at' = "pop"
  /\ UNCHANGED <<build, queue, pending_queue, active, events, errors, report, messages,
                 jobs, requested, others>>

Pop ==
  /\ drain_at = "pop"
  /\ messages # <<>>
  /\ events' = <<Head(messages)>>
  /\ messages' = Tail(messages)
  /\ drain_at' = "handle"
  /\ UNCHANGED <<build, queue, pending_queue, active, errors, report, tokens, jobs,
                 jobserver>>

\* The next event is m; the rest is left for later.
TakeEvent(m) ==
  /\ drain_at = "handle"
  /\ events # <<>>
  /\ m = Head(events)
  /\ events' = Tail(events)

\* An error of handle_event: handle_error counts the first one at least.
HandleFails(u) ==
  /\ build.io_fails
  /\ u \notin build.fresh
  /\ \E m \in {Note(u), Diagnostic(u, TRUE), Diagnostic(u, FALSE)} : TakeEvent(m)
  /\ errors' = TRUE
  /\ UNCHANGED <<build, queue, drain_at, pending_queue, active, report, messages, tokens,
                 jobs, jobserver>>

HandleNote(u) ==
  /\ TakeEvent(Note(u))
  /\ UNCHANGED <<build, queue, drain_at, pending_queue, active, errors, report, messages,
                 tokens, jobs, jobserver>>

\* bump_warning_count: a lint of a local unit counts.
HandleDiagnostic(u, lint) ==
  /\ TakeEvent(Diagnostic(u, lint))
  /\ linted' = IF lint THEN linted \union {u} ELSE linted
  /\ UNCHANGED <<build, queue, drain_at, pending_queue, active, errors, lint_warnings,
                 failed_scrape_units, result, messages, tokens, jobs, jobserver>>

\* Finish of the metadata, always Ok: the job stays active.
HandleMetadata(u) ==
  /\ TakeEvent(FinishMsg(u, "Metadata", TRUE))
  /\ Q!Finish(u, "Metadata")
  /\ UNCHANGED <<build, drain_at, pending_queue, active, errors, report, messages, tokens,
                 jobs, jobserver>>

\* Finish of everything.  Denied warnings turn the result into an error, unless
\* the build keeps going; an error of a scrape unit is noted and forgiven; one
\* of a build script's log output keeps the unit's edges unproduced.
HandleAll(u, ok) ==
  LET stop_on_warnings == u \in linted /\ ~build.keep_going
      good == ok /\ ~stop_on_warnings
  IN
  /\ TakeEvent(FinishMsg(u, "All", ok))
  /\ active' = active \ {u}
  /\ lint_warnings' = (lint_warnings \/ u \in linted)
  /\ \/ /\ good
        /\ Q!Finish(u, "All")
        /\ UNCHANGED <<errors, failed_scrape_units>>
     \/ /\ good /\ u \in build.scripts /\ build.io_fails
        /\ errors' = TRUE
        /\ UNCHANGED <<queue, failed_scrape_units>>
     \/ /\ ~good /\ u \in build.scrape
        /\ failed_scrape_units' = failed_scrape_units \union {u}
        /\ Q!Finish(u, "All")
        /\ UNCHANGED errors
     \/ /\ ~good /\ u \notin build.scrape
        /\ errors' = TRUE
        /\ UNCHANGED <<queue, failed_scrape_units>>
  /\ UNCHANGED <<build, drain_at, pending_queue, linted, result, messages, tokens, jobs,
                 jobserver>>

HandleToken(ok) ==
  /\ TakeEvent(Token(ok))
  /\ tokens' = IF ok THEN tokens + 1 ELSE tokens
  /\ errors' = (errors \/ ~ok)
  /\ UNCHANGED <<build, queue, drain_at, pending_queue, active, report, messages, jobs,
                 jobserver>>

\* Mutant: every error stops the spawning.
EventsHandledStop ==
  /\ drain_at = "handle"
  /\ events = <<>>
  /\ drain_at' = IF errors THEN AfterSpawn(active) ELSE "dequeue"
  /\ UNCHANGED <<build, queue, pending_queue, active, events, errors, report, messages,
                 tokens, jobs, jobserver>>

\* Round the loop: after an error only a build that keeps going spawns more.
EventsHandled ==
  /\ drain_at = "handle"
  /\ events = <<>>
  /\ drain_at' = IF errors /\ ~build.keep_going THEN AfterSpawn(active) ELSE "dequeue"
  /\ UNCHANGED <<build, queue, pending_queue, active, events, errors, report, messages,
                 tokens, jobs, jobserver>>

TokensIn(s) == Cardinality({i \in DOMAIN s : s[i] = Token(TRUE)})

\* The end of drain_the_queue and of execute: the lints of the whole build and the
\* timing report may still warn and fail, the result is decided, the helper thread
\* is joined, and the tokens held or on their way are dropped, which returns them.
\* compile_with_exec then refuses a successful build with denied warnings.
Drained ==
  /\ drain_at = "end"
  /\ drain_at' = "done"
  /\ errors' \in {errors, TRUE}
  /\ lint_warnings' \in {lint_warnings, build.deny_warnings}
  /\ result' = IF errors' THEN "err"
               ELSE IF DOMAIN dep_map # {} \/ pending_queue # <<>> THEN "jobs left"
               ELSE IF lint_warnings' THEN "err"
               ELSE "ok"
  /\ available' = available + tokens + TokensIn(messages)
  /\ tokens' = 0
  /\ messages' = <<>>
  /\ requested' = 0
  /\ UNCHANGED <<build, queue, pending_queue, active, events, linted,
                 failed_scrape_units, jobs, others>>

-----------------------------------------------------------------------------
(* A job: JobState, on a thread of its own or, when fresh, on the main thread. *)

Send(msg) == messages' = Append(messages, msg)

\* Queue::push, never blocking: Run, future-incompat reports, unused externs...
JobNote(u) ==
  /\ job[u] = "running"
  /\ sent[u] < build.chatter[u]
  /\ sent' = [sent EXCEPT ![u] = @ + 1]
  /\ Send(Note(u))
  /\ UNCHANGED <<build, queue, drain, tokens, job, outcome, rmeta, jobserver>>

\* emit_diag of a fresh job prints at once and pushes the count, unbounded.
JobReplaysDiag(u, lint) ==
  /\ job[u] = "running"
  /\ lint => build.deny_warnings
  /\ u \in build.fresh
  /\ sent[u] < build.chatter[u]
  /\ sent' = [sent EXCEPT ![u] = @ + 1]
  /\ Send(Diagnostic(u, lint))
  /\ UNCHANGED <<build, queue, drain, tokens, job, outcome, rmeta, jobserver>>

\* emit_diag, stdout, stderr and warning of a dirty job call push_bounded...
JobEmitsDiag(u) ==
  /\ job[u] = "running"
  /\ u \notin build.fresh
  /\ sent[u] < build.chatter[u]
  /\ sent' = [sent EXCEPT ![u] = @ + 1]
  /\ job' = [job EXCEPT ![u] = "pushing"]
  /\ UNCHANGED <<build, queue, drain, messages, tokens, outcome, rmeta, jobserver>>

\* ... which blocks while the queue is full.
PushBounded(u, lint) ==
  /\ job[u] = "pushing"
  /\ lint => build.deny_warnings
  /\ Len(messages) < Bound
  /\ job' = [job EXCEPT ![u] = "running"]
  /\ Send(Diagnostic(u, lint))
  /\ UNCHANGED <<build, queue, drain, tokens, outcome, rmeta, sent, jobserver>>

\* rustc announces the .rmeta file, once, before it is done.
RmetaProduced(u) ==
  /\ job[u] = "running"
  /\ u \notin build.fresh \union build.upstream
  /\ rmeta[u] # "produced"
  /\ rmeta' = [rmeta EXCEPT ![u] = "produced"]
  /\ Send(FinishMsg(u, "Metadata", TRUE))
  /\ UNCHANGED <<build, queue, drain, tokens, job, outcome, sent, jobserver>>

\* Mutant: rmeta_produced does not clear rmeta_required.
JobReturnsUncleared(u, ok) ==
  /\ job[u] = "running"
  /\ outcome' = [outcome EXCEPT ![u] = IF ok THEN "ok" ELSE "err"]
  /\ job' = [job EXCEPT ![u] = IF ok /\ rmeta[u] # "unneeded" THEN "synthesize"
                                ELSE "finish"]
  /\ UNCHANGED <<build, queue, drain, messages, tokens, rmeta, sent, jobserver>>

\* run_to_finish: job.run returns, or panics, which counts as an error.
JobReturns(u, ok) ==
  /\ job[u] = "running"
  /\ outcome' = [outcome EXCEPT ![u] = IF ok THEN "ok" ELSE "err"]
  /\ job' = [job EXCEPT ![u] = IF ok /\ rmeta[u] = "required" THEN "synthesize"
                                ELSE "finish"]
  /\ UNCHANGED <<build, queue, drain, messages, tokens, rmeta, sent, jobserver>>

\* The synthetic Metadata message of a job that never announced its .rmeta.
SynthesizeMetadata(u) ==
  /\ job[u] = "synthesize"
  /\ job' = [job EXCEPT ![u] = "finish"]
  /\ Send(FinishMsg(u, "Metadata", TRUE))
  /\ UNCHANGED <<build, queue, drain, tokens, outcome, rmeta, sent, jobserver>>

\* FinishOnDrop.
FinishOnDrop(u) ==
  /\ job[u] = "finish"
  /\ job' = [job EXCEPT ![u] = "done"]
  /\ Send(FinishMsg(u, "All", outcome[u] = "ok"))
  /\ UNCHANGED <<build, queue, drain, tokens, outcome, rmeta, sent, jobserver>>

-----------------------------------------------------------------------------
(* The jobserver (an external crate) as the job queue uses it. *)

\* The helper thread serves a request: it acquires a token, or fails to.
HelperAcquires ==
  /\ requested > 0
  /\ available > 0
  /\ requested' = requested - 1
  /\ available' = available - 1
  /\ Send(Token(TRUE))
  /\ UNCHANGED <<build, queue, drain, tokens, jobs, others>>

HelperFails ==
  /\ build.jobserver_fails
  /\ requested > 0
  /\ requested' = requested - 1
  /\ Send(Token(FALSE))
  /\ UNCHANGED <<build, queue, drain, tokens, jobs, available, others>>

\* rustc's codegen threads, or a parent make, take and return tokens.
OthersAcquire ==
  /\ available > 0
  /\ available' = available - 1
  /\ others' = others + 1
  /\ UNCHANGED <<build, queue, drain, messages, tokens, jobs, requested>>

OthersRelease ==
  /\ others > 0
  /\ others' = others - 1
  /\ available' = available + 1
  /\ UNCHANGED <<build, queue, drain, messages, tokens, jobs, requested>>

-----------------------------------------------------------------------------
Spawning ==
  \/ \E u \in Unit : DequeueUnit(u) \/ StartJob(u)
  \/ DequeueNone \/ NoteWorkingOnFails \/ FreshJobReturns \/ StartNone

Handling ==
  \/ \E u \in Unit : HandleFails(u) \/ HandleNote(u) \/ HandleMetadata(u)
  \/ \E u \in Unit, b \in BOOLEAN : HandleDiagnostic(u, b) \/ HandleAll(u, b)
  \/ \E ok \in BOOLEAN : HandleToken(ok)
  \/ EventsHandled

MainThread ==
  \/ \E u \in Unit : Enqueue(u)
  \/ Execute \/ Spawning \/ TryPopAll \/ TruncateTokens \/ Pop \/ Handling \/ Drained

JobThread(u) ==
  \/ JobNote(u) \/ JobEmitsDiag(u) \/ RmetaProduced(u)
  \/ SynthesizeMetadata(u) \/ FinishOnDrop(u)
  \/ \E b \in BOOLEAN : JobReplaysDiag(u, b) \/ PushBounded(u, b) \/ JobReturns(u, b)

Jobserver == HelperAcquires \/ HelperFails \/ OthersAcquire \/ OthersRelease

JQNext == MainThread \/ (\E u \in Unit : JobThread(u)) \/ Jobserver

JQSpec == JQInit /\ [][JQNext]_jqvars

\* The main thread and the threads of the jobs run; the jobserver may starve
\* cargo for ever: the implicit token must do.
JQFairSpec == JQSpec /\ WF_jqvars(MainThread) /\ \A u \in Unit : WF_jqvars(JobThread(u))

-----------------------------------------------------------------------------
(* Properties. *)

\* Types of the state of the drain loop, the jobs and the jobserver.
TypeOK ==
  /\ build \in Builds
  /\ drain_at \in {"enqueue", "dequeue", "start", "fresh", "wait", "pop", "handle", "end", "done"}
  /\ pending_queue \in Seq(Unit)
  /\ active \in SUBSET Unit
  /\ tokens \in Nat
  /\ messages \in Seq(Message)
  /\ events \in Seq(Message)
  /\ errors \in BOOLEAN
  /\ linted \in SUBSET Unit
  /\ lint_warnings \in BOOLEAN
  /\ failed_scrape_units \in SUBSET Unit
  /\ result \in {"none", "ok", "err", "jobs left"}
  /\ job \in [Unit -> {"idle", "running", "pushing", "synthesize", "finish", "done"}]
  /\ outcome \in [Unit -> {"none", "ok", "err"}]
  /\ rmeta \in [Unit -> {"unneeded", "required", "produced"}]
  /\ sent \in [Unit -> Nat]
  /\ requested \in Nat
  /\ available \in Nat
  /\ others \in Nat

\* Messages not handled yet, in the order handle_event will see them.
InFlight == events \o messages

\* finish is called once for each artifact of a dequeued unit, whether the job
\* announced its .rmeta itself, run_to_finish did it in its place, or nobody had
\* to: the contract under which DependencyQueueProofs rules out its panics.
FinishOnce ==
  \A i \in DOMAIN InFlight : InFlight[i].kind = "Finish" =>
    /\ InFlight[i].unit \in Q!Dequeued
    /\ <<InFlight[i].unit, InFlight[i].artifact>> \notin finished
    /\ \A j \in i + 1 .. Len(InFlight) :
         InFlight[j].kind = "Finish" /\ InFlight[j].unit = InFlight[i].unit
         => InFlight[j].artifact # InFlight[i].artifact

\* The unit has been compiled, or failed and was forgiven for doc scraping.
Compiled(u) == outcome[u] = "ok" \/ u \in failed_scrape_units

\* What u links against: its direct dependencies and all below them.
LinksAgainst(u) ==
  LET below == TransitiveClosure([p \in Unit \X Unit |-> p[2] \in build.deps[p[1]]], Unit)
  IN  DirectDeps(u) \union {v \in Unit : \E d \in DirectDeps(u) : below[<<d, v>>]}

\* Pipelining never starts a unit too early: one that links (a bin, a proc macro,
\* a build script) starts when everything below it is compiled in full, another
\* one when its dependencies are compiled or, where metadata is enough, have
\* their .rmeta written.
InputsReady == \A u \in Unit : job[u] # "idle" =>
  /\ u \in build.upstream => \A v \in LinksAgainst(u) : Compiled(v)
  /\ \A d \in DirectDeps(u) :
       Compiled(d) \/ (OnlyRequiresRmeta(u, d) /\ rmeta[d] = "produced")

\* "the total amount of tokens we have floating around must always be limited to
\* N": a token is in the pipe, held by others, held by cargo or on its way in a
\* message, and cargo never runs more jobs than its tokens and the implicit one.
TokensLimited ==
  /\ available + others + tokens + TokensIn(InFlight) = Jobs - 1
  /\ Cardinality(active) <= tokens + 1

\* As long as jobs are spawned, every job that is ready has a token or one has been
\* asked for: truncating the tokens never gives one away that a pending job would
\* then wait for in vain.
NoTokenForgotten ==
  drain_at # "done" /\ ~build.jobserver_fails /\ (errors => build.keep_going /\ ~build.io_fails) =>
    tokens + TokensIn(InFlight) + requested + 1 >= Cardinality(active) + Len(pending_queue)

\* The result tells the truth: a successful build compiled every unit with no
\* denied warning, and a drained build never ends with "finished with jobs still
\* left in the queue" for want of an error.
ResultIsTrue ==
  /\ result = "ok" => /\ \A u \in build.units : Compiled(u)
                      /\ linted = {}
  /\ result # "jobs left"

\* With --keep-going, everything whose dependencies were produced has been run by
\* the end, however many other units failed.
KeepsGoing == drain_at = "done" /\ build.keep_going /\ ~build.io_fails =>
  \A u \in build.units : Q!DepsOf(u) \subseteq finished => job[u] = "done"

\* A job starts when its inputs are there, and each of its artifacts is announced once.
JobsRight == InputsReady /\ FinishOnce

\* Tokens are neither made up nor forgotten.
TokensAccounted == TokensLimited /\ NoTokenForgotten

\* What the end of a build says of it, with and without --keep-going.
OutcomeRight == ResultIsTrue /\ KeepsGoing

\* Without --keep-going no job is started once an error was counted, however many
\* messages were taken from the queue together with the failing one.
NoJobAfterError ==
  [][errors /\ ~build.keep_going => \A u \in Unit : job[u] = "idle" => job'[u] = "idle"]_jqvars

\* A build that was begun ends, though the jobserver may never grant a token, the message
\* queue may be full and jobs may fail; by then every job has ended too and all
\* tokens are back.
Terminates ==
  drain_at # "enqueue" ~> /\ drain_at = "done"
                          /\ active = {}
                          /\ \A u \in Unit : job[u] \in {"idle", "done"}
                          /\ available + others = Jobs - 1

=============================================================================
