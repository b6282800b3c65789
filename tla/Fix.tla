--------------------------------- MODULE Fix ---------------------------------
(***************************************************************************)
(* cargo fix (ops/cargo_fix/mod.rs): cargo runs itself in place of rustc   *)
(* for every crate; such a process takes the global lock, runs rustc,      *)
(* applies its suggestions to the files of the crate, again and again, and *)
(* takes its changes back when the crate no longer compiles. What it did   *)
(* it posts to the diagnostic server of cargo (util/diagnostic_server.rs). *)
(***************************************************************************)
EXTENDS Integers, Sequences

-----------------------------------------------------------------------------
(***************************************************************************)
(* The lock server (util/lockserver.rs): a thread of cargo that accepts    *)
(* connections, a thread per name that hands the lock to the connected     *)
(* processes in turn, and the processes, which hold the lock as long as    *)
(* their socket is open. All processes of cargo fix ask for the same name. *)
(***************************************************************************)
CONSTANTS
  Proxy,   \* processes that cargo runs in place of rustc
  stop     \* the connection LockServerStarted::drop makes

VARIABLES
  sock,       \* [Proxy -> what the process did with its socket]
  backlog,    \* connections not accepted yet
  locksrv,     \* where the accepting thread is, and the client it talks to
  lock,       \* the thread of the name, and the clients that wait
  holder,     \* the client the thread of the name talks to
  done        \* LockServer::done

lsvars == <<sock, backlog, locksrv, lock, holder, done>>

LSInit ==
  /\ sock = [p \in Proxy |-> "none"]
  /\ backlog = <<>>
  /\ locksrv = [at |-> "accept", client |-> stop]
  /\ lock = [thread |-> "none", clients |-> <<>>]
  /\ holder = stop
  /\ done = FALSE
-----------------------------------------------------------------------------
(* LockServerClient::lock. *)

Connect(p) ==
  /\ sock[p] = "none"
  /\ sock' = [sock EXCEPT ![p] = "connected"]
  /\ backlog' = Append(backlog, p)
  /\ UNCHANGED <<locksrv, lock, holder, done>>

SendName(p) ==
  /\ sock[p] = "connected"
  /\ sock' = [sock EXCEPT ![p] = "named"]
  /\ UNCHANGED <<backlog, locksrv, lock, holder, done>>

\* The socket closes when the client is dropped, or its process dies. A process that dies
\* before it sends the name is told apart from the others.
Close(p) ==
  /\ sock' = [sock EXCEPT ![p] = IF @ = "connected" THEN "nameless" ELSE "closed"]
  /\ UNCHANGED <<backlog, locksrv, lock, holder, done>>

HasLock(p) == sock[p] = "granted"
-----------------------------------------------------------------------------
(* LockServer::run. *)

\* A connection ends the loop once the server is told to stop.
Accept ==
  /\ locksrv.at = "accept" /\ backlog # <<>>
  /\ backlog' = Tail(backlog)
  /\ locksrv' = IF done THEN [locksrv EXCEPT !.at = "join"]
               ELSE [at |-> "read_line", client |-> Head(backlog)]
  /\ UNCHANGED <<sock, lock, holder, done>>

\* Mutant: whether the thread of the name still runs is not looked at.
ReadLineQueues ==
  /\ locksrv.at = "read_line" /\ sock[locksrv.client] # "connected"
  /\ lock' = IF sock[locksrv.client] = "nameless" THEN lock
             ELSE IF lock.thread # "none" THEN [lock EXCEPT !.clients = Append(@, locksrv.client)]
             ELSE [thread |-> "runs", clients |-> <<locksrv.client>>]
  /\ locksrv' = [locksrv EXCEPT !.at = "accept"]
  /\ UNCHANGED <<sock, backlog, holder, done>>

\* The client joins the queue of the thread of its name, under the mutex they share, or a new
\* thread begins with it: the one before has left its loop, and is joined. A nameless client
\* gets a thread of its own, which finds it gone.
ReadLine ==
  /\ locksrv.at = "read_line" /\ sock[locksrv.client] # "connected"
  /\ lock' = IF sock[locksrv.client] = "nameless" THEN lock
             ELSE IF lock.thread = "runs" THEN [lock EXCEPT !.clients = Append(@, locksrv.client)]
             ELSE [thread |-> "runs", clients |-> <<locksrv.client>>]
  /\ locksrv' = [locksrv EXCEPT !.at = "accept"]
  /\ UNCHANGED <<sock, backlog, holder, done>>

\* The thread takes the next client, or leaves its loop.
NextClient ==
  /\ lock.thread = "runs" /\ holder = stop
  /\ IF lock.clients = <<>>
     THEN lock' = [lock EXCEPT !.thread = "left"] /\ UNCHANGED holder
     ELSE lock' = [lock EXCEPT !.clients = Tail(@)] /\ holder' = Head(lock.clients)
  /\ UNCHANGED <<sock, backlog, locksrv, done>>

\* The byte that grants the lock.
GrantLock ==
  /\ holder # stop /\ sock[holder] = "named"
  /\ sock' = [sock EXCEPT ![holder] = "granted"]
  /\ UNCHANGED <<backlog, locksrv, lock, holder, done>>

\* Mutant: the client is not waited for.
ReadToEndSkipped ==
  /\ holder # stop /\ sock[holder] \in {"granted", "closed"}
  /\ holder' = stop
  /\ UNCHANGED <<sock, backlog, locksrv, lock, done>>

\* The client has disconnected, before it got the byte or after it.
ReadToEnd ==
  /\ holder # stop /\ sock[holder] = "closed"
  /\ holder' = stop
  /\ UNCHANGED <<sock, backlog, locksrv, lock, done>>

\* LockServer::drop joins the threads.
JoinThreads ==
  /\ locksrv.at = "join" /\ lock.thread # "runs"
  /\ locksrv' = [locksrv EXCEPT !.at = "exited"]
  /\ UNCHANGED <<sock, backlog, lock, holder, done>>

\* LockServerStarted::drop, once ops::compile has returned.
StopServer ==
  /\ ~done
  /\ done' = TRUE
  /\ backlog' = Append(backlog, stop)
  /\ UNCHANGED <<sock, locksrv, lock, holder>>

ServerStep == Accept \/ ReadLine \/ NextClient \/ GrantLock \/ ReadToEnd \/ JoinThreads
-----------------------------------------------------------------------------
(***************************************************************************)
(* The processes and the diagnostic server. The code of a file is the set  *)
(* of suggestions applied to it.                                           *)
(***************************************************************************)
CONSTANTS
  File,
  Sources,      \* what there is to fix
  MaxRetries,   \* CARGO_FIX_MAX_RETRIES
  MaxDeaths     \* bound: processes that are killed or fail

ASSUME FixNatural == MaxRetries \in Nat \ {0} /\ MaxDeaths \in Nat

\* Every suggestion is for one file.
ASSUME SourcesTyped == \A s \in Sources :
  /\ s.files \in [Proxy -> SUBSET File] /\ DOMAIN s.lints = File
  /\ \A f, g \in File : f # g => s.lints[f] \intersect s.lints[g] = {}
ASSUME StopApart == stop \notin Proxy \union File

VARIABLES
  source,   \* one of Sources
  content,  \* [File -> the suggestions applied to it]
  proc,     \* [Proxy -> the process]
  diag,     \* the diagnostic server: connections, and the client it talks to
  deaths

fxvars == <<lsvars, source, content, proc, diag, deaths>>

\* A source has the files of each crate, the suggestions (lints) rustc has for each file, of
\* which those in `bad` make its crates fail to compile, those in `stuck` cannot be applied and
\* one a round of those that `overlap` can, the crates that do not compile to begin with (broken)
\* and those an edition migration leaves alone (skipped), and whether --broken-code is given.

Started ==
  [at |-> "start", todo |-> {}, suggestions |-> {}, file |-> stop, code |-> {}, original |-> <<>>, errors |-> {},
   made_changes |-> FALSE, iteration |-> 0, first |-> "none", last |-> "none", exit |-> "none",
   waits |-> FALSE, owed |-> FALSE, applied |-> {}]

FxInit ==
  /\ LSInit
  /\ source \in Sources
  /\ content = [f \in File |-> {}]
  /\ proc = [p \in Proxy |-> Started]
  /\ diag = [backlog |-> <<>>, client |-> stop]
  /\ deaths = 0
-----------------------------------------------------------------------------
Compiles(p, code) ==
  p \notin source.broken /\ \A f \in source.files[p] : code[f] \intersect source.bad = {}

Status(p) == IF Compiles(p, content) THEN "ok" ELSE "err"

Suggestions(p) == UNION {source.lints[f] \ content[f] : f \in source.files[p]}

\* The sets of suggestions CodeFix::apply may accept of those given: of the overlapping ones the
\* first.
Accepted(given) ==
  LET free == given \ (source.stuck \union source.overlap)
      rivals == (given \intersect source.overlap) \ source.stuck
  IN  IF rivals = {} THEN {free} ELSE {free \union {s} : s \in rivals}
-----------------------------------------------------------------------------
(* Message::post and RustfixDiagnosticServer::run. *)

At(p, at) == proc[p].at = at /\ ~proc[p].waits

Step(p, r) == proc' = [proc EXCEPT ![p] = r] /\ UNCHANGED <<source, deaths>>

\* The message is sent, and the end of the connection waited for.
Post(p, r) ==
  /\ Step(p, [r EXCEPT !.waits = TRUE, !.owed = TRUE])
  /\ diag' = [diag EXCEPT !.backlog = Append(@, p)]

\* The message goes on the queue of cargo (Message::FixDiagnostic).
OnMessage ==
  /\ diag.client = stop /\ diag.backlog # <<>>
  /\ diag' = [backlog |-> Tail(diag.backlog), client |-> Head(diag.backlog)]
  /\ proc' = [proc EXCEPT ![Head(diag.backlog)].owed = FALSE]
  /\ UNCHANGED <<lsvars, source, content, deaths>>

DropClient ==
  /\ diag.client # stop
  /\ diag' = [diag EXCEPT !.client = stop]
  /\ proc' = [proc EXCEPT ![diag.client].waits = FALSE]
  /\ UNCHANGED <<lsvars, source, content, deaths>>
-----------------------------------------------------------------------------
(* rustfix_crate. *)

AskLock(p) ==
  /\ At(p, "start") /\ (Connect(p) \/ SendName(p))
  /\ UNCHANGED <<source, content, proc, diag, deaths>>

\* can_run_rustfix says what is being done.
CanRunRustfix(p) ==
  /\ At(p, "start") /\ HasLock(p)
  /\ Post(p, [proc[p] EXCEPT !.at = IF p \in source.skipped THEN "rustc_only" ELSE "rustc"])
  /\ UNCHANGED <<lsvars, content>>

RustcOnly(p) ==
  /\ At(p, "rustc_only")
  /\ Step(p, [proc[p] EXCEPT !.first = Status(p), !.last = Status(p), !.at = "report"])
  /\ UNCHANGED <<lsvars, content, diag>>

\* rustfix_and_fix: without --broken-code, nothing is done to a crate that does not compile.
RustfixAndFix(p) ==
  /\ At(p, "rustc")
  /\ Step(p, [proc[p] EXCEPT
       !.at = "fix", !.errors = {}, !.made_changes = FALSE, !.last = Status(p),
       !.first = IF proc[p].iteration = 0 THEN Status(p) ELSE @,
       !.suggestions = Suggestions(p),
       !.todo = IF Status(p) = "err" /\ ~source.broken_code THEN {}
                ELSE {f \in source.files[p] : source.lints[f] \ content[f] # {}}])
  /\ UNCHANGED <<lsvars, content, diag>>

\* The code before the first change is kept.
ReadFile(p, f) ==
  /\ At(p, "fix") /\ f \in proc[p].todo
  /\ Step(p, [proc[p] EXCEPT
       !.at = "write", !.file = f, !.todo = @ \ {f}, !.code = content[f],
       !.original = [g \in DOMAIN @ \union {f} |-> IF g \in DOMAIN @ THEN @[g] ELSE content[f]]])
  /\ UNCHANGED <<lsvars, content, diag>>

WriteFile(p) ==
  /\ At(p, "write")
  /\ \E given \in {proc[p].suggestions \intersect source.lints[proc[p].file]} :
     \E accepted \in Accepted(given) :
       /\ content' = IF accepted = {} THEN content
                     ELSE [content EXCEPT ![proc[p].file] = proc[p].code \union accepted]
       /\ Step(p, [proc[p] EXCEPT
            !.at = "fix", !.applied = @ \union accepted,
            !.made_changes = @ \/ accepted # {},
            !.errors = IF accepted = given THEN @ ELSE @ \union {proc[p].file}])
  /\ UNCHANGED <<lsvars, diag>>

\* Another round when some suggestions failed and others did not.
EndRound(p) ==
  /\ At(p, "fix") /\ proc[p].todo = {}
  /\ \E progress \in {proc[p].errors # {} /\ proc[p].made_changes} :
       Step(p, [proc[p] EXCEPT
         !.iteration = IF progress THEN @ + 1 ELSE @,
         !.at = IF progress /\ proc[p].iteration + 1 < MaxRetries THEN "rustc"
                ELSE IF proc[p].made_changes THEN "final" ELSE "report"])
  /\ UNCHANGED <<lsvars, content, diag>>

FinalRustc(p) ==
  /\ At(p, "final")
  /\ Step(p, [proc[p] EXCEPT !.last = Status(p), !.at = "report"])
  /\ UNCHANGED <<lsvars, content, diag>>

ReplaceFailed(p, f) ==
  /\ At(p, "report") /\ f \in proc[p].errors
  /\ Post(p, [proc[p] EXCEPT !.errors = @ \ {f}])
  /\ UNCHANGED <<lsvars, content>>

\* rustfix_crate returns, and drops the lock.
Unlock(p) ==
  /\ At(p, "report") /\ proc[p].errors = {}
  /\ Close(p)
  /\ Step(p, [proc[p] EXCEPT !.at = IF proc[p].last = "ok" THEN "success" ELSE "failure",
                             !.todo = DOMAIN proc[p].original])
  /\ UNCHANGED <<content, diag>>
-----------------------------------------------------------------------------
(* fix_exec_rustc, after rustfix_crate. *)

PostFixed(p, f) ==
  /\ At(p, "success") /\ f \in proc[p].todo
  /\ Post(p, [proc[p] EXCEPT !.todo = @ \ {f}])
  /\ UNCHANGED <<lsvars, content>>

RevertFile(p, f) ==
  /\ At(p, "failure") /\ ~source.broken_code /\ f \in proc[p].todo
  /\ content' = [content EXCEPT ![f] = proc[p].original[f]]
  /\ Step(p, [proc[p] EXCEPT !.todo = @ \ {f}])
  /\ UNCHANGED <<lsvars, diag>>

\* log_failed_fix, unless there was nothing to fix.
LogFailedFix(p) ==
  /\ At(p, "failure") /\ (source.broken_code \/ proc[p].todo = {})
  /\ proc[p].original # <<>>
  /\ Post(p, [proc[p] EXCEPT !.at = "failed"])
  /\ UNCHANGED <<lsvars, content>>

\* The status is the one of the first rustc when fixes were tried in vain.
ExitWith(p) ==
  /\ \/ At(p, "success") /\ proc[p].todo = {}
     \/ At(p, "failure") /\ proc[p].original = <<>>
     \/ At(p, "failed")
  /\ Step(p, [proc[p] EXCEPT !.exit = IF At(p, "failed") THEN proc[p].first ELSE proc[p].last,
                             !.at = "exited"])
  /\ UNCHANGED <<lsvars, content, diag>>

Over(p) == proc[p].at \in {"exited", "dead"}

\* The process is killed, or returns early because a file or a connection fails.
Die(p) ==
  /\ ~Over(p) /\ deaths < MaxDeaths
  /\ deaths' = deaths + 1
  /\ proc' = [proc EXCEPT ![p].at = "dead", ![p].waits = FALSE, ![p].owed = FALSE]
  /\ Close(p)
  /\ UNCHANGED <<source, content, diag>>

\* ops::compile has run all crates.
FixReturns ==
  /\ \A p \in Proxy : Over(p)
  /\ StopServer
  /\ UNCHANGED <<source, content, proc, diag, deaths>>
-----------------------------------------------------------------------------
ProxyStep(p) ==
  \/ AskLock(p) \/ CanRunRustfix(p) \/ RustcOnly(p) \/ RustfixAndFix(p) \/ WriteFile(p)
  \/ EndRound(p) \/ FinalRustc(p) \/ Unlock(p) \/ LogFailedFix(p) \/ ExitWith(p)
  \/ \E f \in File : ReadFile(p, f) \/ ReplaceFailed(p, f) \/ PostFixed(p, f) \/ RevertFile(p, f)

LockStep == ServerStep /\ UNCHANGED <<source, content, proc, diag, deaths>>

FxNext ==
  \/ LockStep \/ OnMessage \/ DropClient \/ FixReturns
  \/ \E p \in Proxy : ProxyStep(p) \/ Die(p)

FxFairness ==
  /\ WF_fxvars(LockStep) /\ WF_fxvars(OnMessage \/ DropClient) /\ WF_fxvars(FixReturns)
  /\ \A p \in Proxy : WF_fxvars(ProxyStep(p))

FxSpec == FxInit /\ [][FxNext]_fxvars /\ FxFairness
-----------------------------------------------------------------------------
(* Properties. *)

\* What a process changed stays when its crate compiled in the end, whatever the processes of
\* other crates do to the files they share with it, and none of it when it did not: the global
\* lock of rustfix_crate, and the code fix_exec_rustc puts back.
AllOrNothing ==
  \A p \in Proxy : proc[p].at = "exited" /\ ~source.broken_code =>
    \A f \in source.files[p] :
      IF proc[p].last = "ok" THEN proc[p].applied \intersect source.lints[f] \subseteq content[f]
      ELSE proc[p].applied \intersect content[f] = {}

\* A process that exits has its messages on the queue of cargo, before the Finish of its job
\* (the comment in RustfixDiagnosticServer::run).
MessagesBeforeExit == \A p \in Proxy : proc[p].at = "exited" => ~proc[p].owed

\* The changes of a process are kept or undone as a whole, and told before it exits.
FixRight == AllOrNothing /\ MessagesBeforeExit

\* Every process gets the lock in its turn though others die holding it or waiting for it, all
\* exit, and the server stops.
FixEnds == [](proc # [p \in Proxy |-> Started] => <>(locksrv.at = "exited"))

=============================================================================
