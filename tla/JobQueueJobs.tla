---------------------------- MODULE JobQueueJobs -----------------------------
(***************************************************************************)
(* The jobs of the job queue and the tokens they run on: every step keeps  *)
(* how far each job is and the account of the tokens.  Also lemmas on how  *)
(* the messages in flight change when one is sent or handled.              *)
(***************************************************************************)
EXTENDS JobQueueGraph

-----------------------------------------------------------------------------
(* The jobs. *)

\* What is said of one unit stays when nothing of it changes.
LEMMA JobStays ==
  ASSUME NEW u, JobInv(u), UNCHANGED build, UNCHANGED <<job[u], outcome[u], rmeta[u]>>,
         u \in active' <=> u \in active, u \in Q!Dequeued' <=> u \in Q!Dequeued,
         finished \subseteq finished', errors => errors',
         (\E i \in DOMAIN pending_queue : pending_queue[i] = u)
            => Dropped' \/ \E i \in DOMAIN pending_queue' : pending_queue'[i] = u
  PROVE  JobInv(u)'
BY DEF JobInv, RmetaRequired, OnlyRequiresRmeta, Dropped

\* Nothing is said of where the main thread is, what is in flight or who has tokens.
LEMMA JobsStay ==
  ASSUME JobsInv, UNCHANGED <<build, pending_queue, active, job, outcome, rmeta>>,
         Q!Dequeued' = Q!Dequeued, finished \subseteq finished', errors => errors'
  PROVE  JobsInv'
<1>1. PendingInv'
  BY DEF JobsInv, PendingInv
<1>2. \A u \in Unit : JobInv(u)'
  BY JobStays DEF JobsInv
<1> QED
  BY <1>1, <1>2 DEF JobsInv

\* The unit that dequeue hands out is pending.
LEMMA DequeueKeepsJobs ==
  ASSUME TypeOK, GraphInv, JobsInv, NEW u \in Unit, DequeueUnit(u)
  PROVE  JobsInv'
<1>1. u \notin Q!Dequeued /\ Q!Dequeued' = Q!Dequeued \union {u}
  BY Dequeues
<1>2. job[u] = "idle" /\ u \notin active
  BY <1>1, Zenon DEF JobsInv, JobInv
<1>3. UNCHANGED <<build, active, job, outcome, rmeta, finished, errors>>
  BY DEF DequeueUnit, jobs, Q!Dequeue
<1>4. PICK k \in 0 .. Len(pending_queue) : pending_queue' = InsertAt(pending_queue, k, u)
  BY Inserted DEF DequeueUnit
<1>5. pending_queue \in Seq(Unit)
  BY Zenon DEF TypeOK
<1>6. /\ \A i \in DOMAIN pending_queue : pending_queue[i] # u
      /\ \A i, j \in DOMAIN pending_queue : pending_queue[i] = pending_queue[j] => i = j
  BY <1>1 DEF JobsInv, PendingInv
<1>7. /\ \A i, j \in DOMAIN pending_queue' : pending_queue'[i] = pending_queue'[j] => i = j
      /\ \A i \in DOMAIN pending_queue' :
           pending_queue'[i] = u \/ \E j \in DOMAIN pending_queue : pending_queue[j] = pending_queue'[i]
      /\ \E i \in DOMAIN pending_queue' : pending_queue'[i] = u
      /\ \A j \in DOMAIN pending_queue : \E i \in DOMAIN pending_queue' : pending_queue'[i] = pending_queue[j]
  BY <1>4, <1>5, <1>6, InsertedOnce
<1>8. PendingInv'
  BY <1>1, <1>2, <1>3, <1>7 DEF JobsInv, PendingInv
<1>9. ASSUME NEW v \in Unit PROVE JobInv(v)'
  <2>1. CASE v = u
    BY <2>1, <1>1, <1>2, <1>3, <1>7, SMTT(30) DEF JobsInv, JobInv
  <2>2. CASE v # u
    <3>1. (\E i \in DOMAIN pending_queue : pending_queue[i] = v)
            => \E i \in DOMAIN pending_queue' : pending_queue'[i] = v
      BY <1>7
    <3>2. JobInv(v) /\ (v \in Q!Dequeued' <=> v \in Q!Dequeued)
      BY <2>2, <1>1 DEF JobsInv
    <3> QED
      BY <3>1, <3>2, <1>3, JobStays
  <2> QED
    BY <2>1, <2>2
<1> QED
  BY <1>8, <1>9 DEF JobsInv

\* The unit taken from the end of pending_queue was pending, and the others still are.
LEMMA LastPending ==
  ASSUME TypeOK, PendingInv, pending_queue # <<>>, pending_queue' = PopPending
  PROVE  LET u == pending_queue[Len(pending_queue)]
         IN  /\ u \in Q!Dequeued /\ job[u] = "idle" /\ u \in Unit
             /\ \A i, j \in DOMAIN pending_queue' : pending_queue'[i] = pending_queue'[j] => i = j
             /\ \A i \in DOMAIN pending_queue' :
                  /\ pending_queue'[i] # u
                  /\ pending_queue'[i] \in Q!Dequeued /\ job[pending_queue'[i]] = "idle"
             /\ \A v \in Unit \ {u} : (\E i \in DOMAIN pending_queue : pending_queue[i] = v)
                  => \E i \in DOMAIN pending_queue' : pending_queue'[i] = v
<1> DEFINE n == Len(pending_queue)
           u == pending_queue[n]
<1>1. /\ pending_queue' \in Seq(Unit) /\ n \in Nat \ {0} /\ Len(pending_queue') = n - 1
      /\ \A i \in 1 .. n - 1 : pending_queue'[i] = pending_queue[i]
      /\ u \in Unit
  BY Popped
<1>2. pending_queue \in Seq(Unit)
  BY Zenon DEF TypeOK
<1>3. DOMAIN pending_queue = 1 .. n /\ DOMAIN pending_queue' = 1 .. n - 1
  BY <1>1, <1>2
<1> HIDE DEF n
<1>4. n \in DOMAIN pending_queue /\ \A i \in DOMAIN pending_queue' : i \in DOMAIN pending_queue /\ i # n
  BY <1>1, <1>3
<1>5. \A i \in DOMAIN pending_queue : i # n => i \in DOMAIN pending_queue'
  BY <1>1, <1>3
<1>6. \A i \in DOMAIN pending_queue' : pending_queue'[i] = pending_queue[i]
  BY <1>1, <1>3
<1> HIDE DEF u
<1>7. u \in Q!Dequeued /\ job[u] = "idle" /\ u \in Unit
  BY <1>1, <1>4 DEF PendingInv, u
<1>8. \A i, j \in DOMAIN pending_queue' : pending_queue'[i] = pending_queue'[j] => i = j
  BY <1>4, <1>6 DEF PendingInv
<1>9. \A i \in DOMAIN pending_queue' : /\ pending_queue'[i] # u
                                       /\ pending_queue'[i] \in Q!Dequeued
                                       /\ job[pending_queue'[i]] = "idle"
  BY <1>4, <1>6 DEF PendingInv, u
<1>10. \A v \in Unit \ {u} : (\E i \in DOMAIN pending_queue : pending_queue[i] = v)
         => \E i \in DOMAIN pending_queue' : pending_queue'[i] = v
  BY <1>4, <1>5, <1>6, Zenon DEF u
<1> QED
  BY <1>7, <1>8, <1>9, <1>10 DEF u, n

\* run starts the job that was pending longest at the highest priority.
LEMMA StartKeepsJobs ==
  ASSUME TypeOK, JobsInv, NEW u \in Unit, StartJob(u)
  PROVE  JobsInv' /\ job[u] = "idle" /\ u \in Q!Dequeued
<1>1. UNCHANGED <<build, outcome, finished, errors>> /\ Q!Dequeued' = Q!Dequeued
  BY DEF StartJob, queue, Q!Dequeued
<1>2. /\ job' = [job EXCEPT ![u] = "running"] /\ active' = active \union {u}
      /\ rmeta' = [rmeta EXCEPT ![u] = IF RmetaRequired(u) THEN "required" ELSE "unneeded"]
  BY DEF StartJob
<1>3. job'[u] = "running" /\ \A v \in Unit \ {u} : job'[v] = job[v] /\ rmeta'[v] = rmeta[v]
  BY <1>2, Zenon DEF TypeOK
<1>4. rmeta'[u] = IF RmetaRequired(u) THEN "required" ELSE "unneeded"
  BY <1>2, Zenon DEF TypeOK
<1>5. /\ u \in Q!Dequeued /\ job[u] = "idle"
      /\ \A i, j \in DOMAIN pending_queue' : pending_queue'[i] = pending_queue'[j] => i = j
      /\ \A i \in DOMAIN pending_queue' :
           /\ pending_queue'[i] # u
           /\ pending_queue'[i] \in Q!Dequeued /\ job[pending_queue'[i]] = "idle"
      /\ \A v \in Unit \ {u} : (\E i \in DOMAIN pending_queue : pending_queue[i] = v)
           => \E i \in DOMAIN pending_queue' : pending_queue'[i] = v
  BY LastPending DEF StartJob, JobsInv
<1>6. PendingInv'
  <2>1. \A i \in DOMAIN pending_queue' : pending_queue'[i] \in Unit
    <3>1. PopPending \in Seq(Unit) /\ pending_queue' = PopPending
      BY Popped DEF StartJob
    <3> QED
      BY <3>1
  <2> QED
    BY <1>1, <1>3, <1>5, <2>1, SMTT(30) DEF PendingInv
<1>7. ASSUME NEW v \in Unit PROVE JobInv(v)'
  <2>1. CASE v = u
    <3>1. RmetaRequired(u)' <=> RmetaRequired(u)
      BY <1>1 DEF RmetaRequired, OnlyRequiresRmeta
    <3>2. outcome[u] = "none"
      BY <1>5, Zenon DEF JobsInv, JobInv
    <3> QED
      BY <2>1, <3>1, <3>2, <1>1, <1>2, <1>3, <1>4, <1>5, SMTT(30) DEF JobInv
  <2>2. CASE v # u
    <3>1. JobInv(v) /\ (v \in active' <=> v \in active)
      BY <2>2, <1>2 DEF JobsInv
    <3> QED
      BY <2>2, <3>1, <1>1, <1>3, <1>5, JobStays, SMTT(30)
  <2> QED
    BY <2>1, <2>2
<1> QED
  BY <1>5, <1>6, <1>7, Zenon DEF JobsInv

\* A unit is dropped when the shell fails before it is started.
LEMMA DropKeepsJobs ==
  ASSUME TypeOK, JobsInv, NoteWorkingOnFails
  PROVE  JobsInv'
<1>1. UNCHANGED <<build, job, outcome, rmeta, active, finished>> /\ Q!Dequeued' = Q!Dequeued
  BY DEF NoteWorkingOnFails, queue, jobs, Q!Dequeued
<1>2. Dropped' /\ errors'
  BY DEF NoteWorkingOnFails, Dropped
<1>3. PendingInv'
  BY <1>1, LastPending DEF NoteWorkingOnFails, JobsInv, PendingInv
<1>4. \A u \in Unit : JobInv(u)'
  BY <1>1, <1>2, JobStays, SMTT(30) DEF JobsInv
<1> QED
  BY <1>3, <1>4 DEF JobsInv

\* A job whose Finish is handled is over.
LEMMA HandleAllKeepsJobs ==
  ASSUME TypeOK, GraphInv, JobsInv, MessagesInv, NEW u \in Unit, NEW ok \in BOOLEAN, HandleAll(u, ok)
  PROVE  /\ JobsInv' /\ job[u] = "done" /\ u \in Q!Dequeued /\ Q!Dequeued' = Q!Dequeued
         /\ \/ finished' = finished \union {<<u, "All">>}
            \/ UNCHANGED queue /\ errors'
<1>1. u \in Q!Dequeued /\ Announced(u, "All")
  BY HandlesFinish, Zenon DEF HandleAll, Artifact
<1>2. job[u] = "done"
  BY <1>1 DEF Announced
<1>3. /\ UNCHANGED <<build, drain_at, pending_queue, job, outcome, rmeta>>
      /\ active' = active \ {u}
      /\ (Q!Finish(u, "All") /\ errors' = errors) \/ (UNCHANGED queue /\ errors')
  BY DEF HandleAll, jobs
<1>4. /\ Q!Dequeued' = Q!Dequeued
      /\ finished' = finished \union {<<u, "All">>} \/ (UNCHANGED queue /\ errors')
      /\ finished \subseteq finished' /\ (errors => errors')
  BY <1>1, <1>3, Finishes, SMTT(30) DEF Artifact, queue, Q!Dequeued
<1>5. PendingInv'
  BY <1>3, <1>4, Zenon DEF JobsInv, PendingInv
<1>6. ASSUME NEW v \in Unit PROVE JobInv(v)'
  <2>0. JobInv(v)
    BY Zenon DEF JobsInv
  <2>1. CASE v = u
    <3>1. <<v, "All">> \in finished' \/ errors'
      BY <2>1, <1>4
    <3>2. RmetaRequired(v)' <=> RmetaRequired(v)
      BY <1>3 DEF RmetaRequired, OnlyRequiresRmeta
    <3> QED
      BY <2>0, <2>1, <3>1, <3>2, <1>1, <1>2, <1>3, <1>4, SMTT(30) DEF JobInv
  <2>2. CASE v # u
    BY <2>0, <2>2, <1>3, <1>4, JobStays, SMTT(30)
  <2> QED
    BY <2>1, <2>2
<1> QED
  BY <1>1, <1>2, <1>4, <1>5, <1>6, SMTT(30) DEF JobsInv

\* Each step of a job leads on.
LEMMA ThreadKeepsJobs ==
  ASSUME TypeOK, JobsInv, NEW u \in Unit, JobThread(u)
  PROVE  JobsInv'
<1>1. /\ UNCHANGED <<build, pending_queue, active, finished, errors>>
      /\ Q!Dequeued' = Q!Dequeued
      /\ \A v \in Unit \ {u} : UNCHANGED <<job[v], outcome[v], rmeta[v]>>
      /\ job[u] \notin {"idle", "done"} /\ job'[u] # "idle"
  BY ThreadsApart DEF drain, queue, Q!Dequeued
<1>2. PendingInv'
  <2>1. \A i \in DOMAIN pending_queue : pending_queue[i] \in Unit
    <3>1. pending_queue \in Seq(Unit)
      BY Zenon DEF TypeOK
    <3> QED
      BY <3>1
  <2> QED
    BY <2>1, <1>1 DEF JobsInv, PendingInv
<1>3. JobInv(u)'
  <2>0. JobInv(u) /\ u \in active /\ (RmetaRequired(u)' <=> RmetaRequired(u)) /\ u \in Q!Dequeued
    <3>1. JobInv(u) /\ job[u] \in {"running", "pushing", "synthesize", "finish"}
      BY <1>1, Zenon DEF JobsInv, TypeOK
    <3> QED
      BY <3>1, <1>1 DEF JobInv, RmetaRequired, OnlyRequiresRmeta
  <2>1. /\ job \in [Unit -> {"idle", "running", "pushing", "synthesize", "finish", "done"}]
        /\ outcome \in [Unit -> {"none", "ok", "err"}]
        /\ rmeta \in [Unit -> {"unneeded", "required", "produced"}]
    BY Zenon DEF TypeOK
  <2>2. ASSUME NEW b \in BOOLEAN, JobReplaysDiag(u, b) \/ PushBounded(u, b) PROVE JobInv(u)'
    BY <2>0, <2>1, <2>2, <1>1, SMTT(30) DEF JobInv, JobReplaysDiag, PushBounded
  <2>3. CASE JobNote(u) \/ JobEmitsDiag(u)
    BY <2>0, <2>1, <2>3, <1>1, SMTT(30) DEF JobInv, JobNote, JobEmitsDiag
  <2>4. ASSUME NEW b \in BOOLEAN, JobReturns(u, b) PROVE JobInv(u)'
    BY <2>0, <2>1, <2>4, <1>1, SMTT(30) DEF JobInv, JobReturns
  <2>5. CASE RmetaProduced(u)
    BY <2>0, <2>1, <2>5, <1>1, SMTT(30) DEF JobInv, RmetaProduced
  <2>6. CASE SynthesizeMetadata(u) \/ FinishOnDrop(u)
    BY <2>0, <2>1, <2>6, <1>1, ZenonT(30) DEF JobInv, SynthesizeMetadata, FinishOnDrop
  <2> QED
    BY <2>2, <2>3, <2>4, <2>5, <2>6, SMTT(30) DEF JobThread
<1>4. ASSUME NEW v \in Unit PROVE JobInv(v)'
  <2>1. JobInv(v)
    BY DEF JobsInv
  <2> QED
    BY <2>1, <1>1, <1>3, JobStays, SMTT(30)
<1> QED
  BY <1>2, <1>4 DEF JobsInv

\* Every step keeps what is known of the jobs.
LEMMA JobsStep ==
  ASSUME TypeOK, GraphInv, JobsInv, MessagesInv, JQNext
  PROVE  JobsInv'
<1>0. GraphInv'
  BY GraphStep
<1>1. CASE (\E u \in Unit : Enqueue(u)) \/ Execute
  <2>1. UNCHANGED <<build, pending_queue, active, job, outcome, rmeta, finished, errors>>
    BY <1>1 DEF Enqueue, Execute, drain, jobs, Q!Queue, Q!QueueFinished
  <2>2. Q!Dequeued' = Q!Dequeued
    <3>1. CASE Execute
      BY <3>1, QueueAccepted DEF Execute, Q!Dequeued
    <3>2. CASE \E u \in Unit : Enqueue(u)
      <4>1. drain_at = "enqueue" /\ drain_at' = "enqueue"
        BY <3>2 DEF Enqueue, drain
      <4>2. Q!Dequeued = {} /\ Q!Dequeued' = {}
        BY <4>1, <1>0 DEF GraphInv, Q!DQInv, Q!PreparedFirst
      <4> QED
        BY <4>2
    <3> QED
      BY <1>1, <3>1, <3>2, SMTT(30)
  <2> QED
    BY <2>1, <2>2, JobsStay, SMTT(30)
<1>2. ASSUME NEW u \in Unit, DequeueUnit(u) PROVE JobsInv'
  BY <1>2, DequeueKeepsJobs
<1>3. ASSUME NEW u \in Unit, StartJob(u) PROVE JobsInv'
  BY <1>3, StartKeepsJobs
<1>4. CASE NoteWorkingOnFails
  BY <1>4, DropKeepsJobs
<1>5. ASSUME NEW u \in Unit, NEW ok \in BOOLEAN, HandleAll(u, ok) PROVE JobsInv'
  BY <1>5, HandleAllKeepsJobs
<1>6. ASSUME NEW u \in Unit, HandleMetadata(u) PROVE JobsInv'
  <2>1. u \in Q!Dequeued
    BY <1>6, HandlesFinish, Zenon DEF HandleMetadata, Artifact
  <2>2. Q!Dequeued' = Q!Dequeued /\ finished \subseteq finished'
    BY <1>6, <2>1, Finishes, SMTT(30) DEF HandleMetadata, Artifact
  <2> QED
    BY <1>6, <2>2, JobsStay, SMTT(30) DEF HandleMetadata, jobs
<1>7. CASE \/ DequeueNone \/ FreshJobReturns \/ StartNone
           \/ TryPopAll \/ TruncateTokens \/ Pop \/ EventsHandled \/ Drained
  <2>1. UNCHANGED <<build, queue, pending_queue, active, job, outcome, rmeta>>
    BY <1>7, Zenon DEF DequeueNone, FreshJobReturns, StartNone, TryPopAll, TruncateTokens, Pop,
                EventsHandled, Drained, jobs
  <2>2. errors => errors'
    BY <1>7, Zenon DEF DequeueNone, FreshJobReturns, StartNone, TryPopAll, TruncateTokens, Pop,
                EventsHandled, Drained
  <2> QED
    BY <2>1, <2>2, JobsStay DEF queue, Q!Dequeued
<1>8. CASE \/ \E u \in Unit : HandleFails(u) \/ HandleNote(u)
           \/ \E u \in Unit, b \in BOOLEAN : HandleDiagnostic(u, b)
           \/ \E ok \in BOOLEAN : HandleToken(ok)
  <2>1. UNCHANGED <<build, queue, pending_queue, active, job, outcome, rmeta>>
    BY <1>8, Zenon DEF HandleFails, HandleNote, HandleDiagnostic, HandleToken, jobs
  <2>2. errors => errors'
    BY <1>8, Zenon DEF HandleFails, HandleNote, HandleDiagnostic, HandleToken
  <2> QED
    BY <2>1, <2>2, JobsStay DEF queue, Q!Dequeued
<1>9. ASSUME NEW u \in Unit, JobThread(u) PROVE JobsInv'
  BY <1>9, ThreadKeepsJobs
<1>10. CASE Jobserver
  <2>1. UNCHANGED <<build, queue, pending_queue, active, job, outcome, rmeta, errors>>
    BY <1>10, Zenon DEF Jobserver, HelperAcquires, HelperFails, OthersAcquire, OthersRelease, drain, jobs
  <2> QED
    BY <2>1, JobsStay DEF queue, Q!Dequeued
<1> QED
  BY <1>1, <1>2, <1>3, <1>4, <1>5, <1>6, <1>7, <1>8, <1>9, <1>10, SMTT(30)
      DEF JQNext, MainThread, Spawning, Handling

-----------------------------------------------------------------------------
(* The tokens. *)

\* The builds NoTokenForgotten speaks of: as long as jobs are spawned.
Asked == drain_at # "done" /\ ~build.jobserver_fails /\ (errors => build.keep_going /\ ~build.io_fails)

\* No token is asked for that was not before.
LEMMA AskedBefore ==
  ASSUME drain_at # "done", build' = build, errors => errors'
  PROVE  Asked' => Asked
BY DEF Asked

\* The numbers of the account.
LEMMA Counts ==
  ASSUME TypeOK
  PROVE  /\ tokens \in Nat /\ available \in Nat /\ others \in Nat /\ requested \in Nat
         /\ TokensIn(InFlight) \in Nat /\ Cardinality(active) \in Nat /\ Len(pending_queue) \in Nat
<1>1. InFlight \in Seq(Message)
  BY InFlightTyped
<1>2. TokensIn(InFlight) \in Nat
  BY <1>1, TokensCount, Zenon
<1>3. Len(pending_queue) \in Nat
  <2>1. pending_queue \in Seq(Unit)
    BY Zenon DEF TypeOK
  <2> QED
    BY <2>1
<1> QED
  BY <1>2, <1>3, ActiveFinite, Zenon DEF TypeOK

\* What TokensAccounted says, in these numbers.
LEMMA Account ==
  TokensAccounted <=>
    /\ available + others + tokens + TokensIn(InFlight) = Jobs - 1
    /\ Cardinality(active) <= tokens + 1
    /\ Asked => tokens + TokensIn(InFlight) + requested + 1 >= Cardinality(active) + Len(pending_queue)
BY DEF TokensAccounted, TokensLimited, NoTokenForgotten, Asked

\* A step that moves no token, starts no job and makes none pending.
LEMMA TokensStay ==
  ASSUME TokensAccounted, Asked' => Asked, TokensIn(InFlight') = TokensIn(InFlight),
         UNCHANGED <<tokens, active, pending_queue, jobserver>>
  PROVE  TokensAccounted'
BY Account DEF jobserver, TokensAccounted, TokensLimited, NoTokenForgotten, Asked

\* A message that is no token arrives or is handled.
LEMMA SentNoToken ==
  ASSUME TypeOK, NEW m \in Message, m # Token(TRUE), Send(m), events' = events
  PROVE  TokensIn(InFlight') = TokensIn(InFlight)
<1>1. InFlight \in Seq(Message) /\ InFlight' = Append(InFlight, m)
  BY InFlightTyped, Sends
<1>2. TokensIn(Append(InFlight, m)) = TokensIn(InFlight) + 0 /\ TokensIn(InFlight) \in Nat
  BY <1>1, TokensCount, Zenon
<1> QED
  BY <1>1, <1>2

\* Handling another event takes no token.
LEMMA TookNoToken ==
  ASSUME TypeOK, NEW m, m # Token(TRUE), TakeEvent(m), messages' = messages
  PROVE  TokensIn(InFlight') = TokensIn(InFlight)
<1>1. InFlight \in Seq(Message) /\ InFlight # <<>> /\ InFlight[1] = m /\ InFlight' = Tail(InFlight)
  BY InFlightTyped, Takes
<1>2. Tail(InFlight) \in Seq(Message)
  BY <1>1
<1>4. TokensIn(InFlight) = TokensIn(Tail(InFlight)) + 0
  BY <1>1, TokensCount, Zenon
<1>3. TokensIn(Tail(InFlight)) \in Nat
  BY <1>2, TokensCount, Zenon
<1> QED
  BY <1>1, <1>3, <1>4

\* A job takes a token, or the implicit one.
LEMMA StartKeepsTokens ==
  ASSUME TypeOK, LoopInv, JobsInv, TokensAccounted, NEW u \in Unit, StartJob(u)
  PROVE  TokensAccounted'
<1>1. /\ UNCHANGED <<build, events, messages, errors, tokens, requested, available, others>>
      /\ drain_at = "start" /\ pending_queue # <<>> /\ pending_queue' = PopPending
      /\ active' = active \union {u} /\ HasExtraTokens
  BY DEF StartJob, jobserver
<1>2. u \notin active
  BY StartKeepsJobs, Zenon DEF JobsInv, JobInv
<1>3. Cardinality(active') = Cardinality(active) + 1
  BY <1>1, <1>2, ActiveFinite, FS_AddElement, Zenon
<1>4. Len(pending_queue') = Len(pending_queue) - 1
  BY <1>1, Popped
<1>5. Cardinality(active) < tokens + 1
  BY <1>1 DEF HasExtraTokens
<1>6. Asked' => Asked
  BY <1>1, AskedBefore
<1>7. InFlight' = InFlight
  BY <1>1 DEF InFlight
<1>8. Asked' => tokens' + TokensIn(InFlight') + requested' + 1 >= Cardinality(active') + Len(pending_queue')
  BY <1>1, <1>3, <1>4, <1>6, <1>7, Counts, Account, SMTT(30)
<1>9. Cardinality(active') <= tokens' + 1
  BY <1>1, <1>3, <1>5, Counts, SMTT(30)
<1> QED
  BY <1>1, <1>7, <1>8, <1>9, Account, SMTT(30) DEF TokensAccounted, TokensLimited, NoTokenForgotten, Asked

\* A unit becomes pending, and if it needs a token one is asked for.
LEMMA DequeueKeepsTokens ==
  ASSUME TypeOK, TokensAccounted, NEW u \in Unit, DequeueUnit(u)
  PROVE  TokensAccounted'
<1>1. /\ UNCHANGED <<build, active, events, messages, errors, tokens, available, others>>
      /\ drain_at = "dequeue"
      /\ requested' = IF Cardinality(active) + Len(pending_queue') > 1 THEN requested + 1 ELSE requested
  BY DEF DequeueUnit
<1>2. Len(pending_queue') = Len(pending_queue) + 1
  <2>1. PICK k \in 0 .. Len(pending_queue) : pending_queue' = InsertAt(pending_queue, k, u)
    BY Inserted, Zenon DEF DequeueUnit
  <2>2. pending_queue \in Seq(Unit)
    BY Zenon DEF TypeOK
  <2> QED
    BY <2>1, <2>2, InsertedAt, SMTT(30)
<1>3. Asked' => Asked
  BY <1>1, AskedBefore, Zenon
<1>4. InFlight' = InFlight
  BY <1>1, Zenon DEF InFlight
<1>5. Asked' => tokens' + TokensIn(InFlight') + requested' + 1 >= Cardinality(active') + Len(pending_queue')
  <2>1. Asked => tokens + TokensIn(InFlight) + requested + 1 >= Cardinality(active) + Len(pending_queue)
    BY Account
  <2>2. CASE Cardinality(active) + Len(pending_queue') > 1
    <3>1. requested' = requested + 1
      BY <1>1, <2>2, SMTT(30)
    <3> QED
      BY <1>1, <1>2, <1>3, <1>4, <2>1, <3>1, Counts, SMTT(30)
  <2>3. CASE Cardinality(active) + Len(pending_queue') <= 1
    <3>1. requested' = requested
      BY <1>1, <1>2, <2>3, Counts, SMTT(30)
    <3> QED
      BY <1>1, <1>2, <1>4, <2>3, <3>1, Counts, SMTT(30)
  <2> QED
    BY <1>2, <2>2, <2>3, Counts, SMTT(30)
<1> QED
  BY <1>1, <1>4, <1>5, Account, SMTT(30) DEF TokensAccounted, TokensLimited, NoTokenForgotten, Asked

\* Before it blocks, cargo gives back the tokens no active job uses: no unit is pending then.
LEMMA TruncateKeepsTokens ==
  ASSUME TypeOK, LoopInv, TokensAccounted, TruncateTokens
  PROVE  TokensAccounted'
<1>1. /\ UNCHANGED <<build, active, pending_queue, events, messages, errors, requested, others>>
      /\ drain_at = "wait"
  BY DEF TruncateTokens
<1>2. PICK kept : /\ kept = IF tokens <= Cardinality(active) - 1 THEN tokens ELSE Cardinality(active) - 1
                  /\ tokens' = kept /\ available' = available + (tokens - kept)
  BY DEF TruncateTokens
<1>3. Cardinality(active) \in Nat \ {0}
  BY <1>1, WaitsForSome DEF LoopInv
<1>4. InFlight' = InFlight
  BY <1>1 DEF InFlight
<1>5. Asked' => Asked
  BY <1>1, AskedBefore
<1>6. Asked /\ tokens > Cardinality(active) - 1 => Len(pending_queue) = 0
  <2>1. Asked => ~Stopped /\ ~Dropped
    BY DEF Asked, Stopped, Dropped
  <2>2. tokens > Cardinality(active) - 1 => HasExtraTokens
    BY <1>3, Counts DEF HasExtraTokens
  <2>3. Asked /\ HasExtraTokens => pending_queue = <<>>
    BY <1>1, <2>1 DEF LoopInv
  <2> QED
    BY <2>2, <2>3
<1>7. available' + tokens' = available + tokens
  BY <1>2, <1>3, Counts, SMTT(30)
<1>8. Cardinality(active') <= tokens' + 1
  BY <1>1, <1>2, <1>3, Counts, Account, SMTT(30)
<1>9. Asked' => tokens' + TokensIn(InFlight') + requested' + 1 >= Cardinality(active') + Len(pending_queue')
  <2>1. Asked => tokens + TokensIn(InFlight) + requested + 1 >= Cardinality(active) + Len(pending_queue)
    BY Account
  <2>2. CASE tokens <= Cardinality(active) - 1
    <3>1. tokens' = tokens
      BY <1>2, <2>2, SMTT(30)
    <3> QED
      BY <1>1, <1>4, <1>5, <2>1, <3>1, SMTT(30)
  <2>3. CASE tokens > Cardinality(active) - 1
    <3>1. tokens' = Cardinality(active) - 1
      BY <1>2, <1>3, <2>3, Counts, SMTT(30)
    <3> QED
      BY <1>1, <1>3, <1>4, <1>5, <1>6, <2>3, <3>1, Counts, SMTT(30)
  <2> QED
    BY <1>3, <2>2, <2>3, Counts, SMTT(30)
<1>10. available' + others' + tokens' + TokensIn(InFlight') = Jobs - 1
  <2>1. tokens' \in Int /\ available' \in Int
    BY <1>2, <1>3, Counts, SMTT(30)
  <2>2. available + others + tokens + TokensIn(InFlight) = Jobs - 1
    BY Account
  <2>3. others' = others /\ TokensIn(InFlight') = TokensIn(InFlight) /\ Jobs \in Nat
    BY <1>1, <1>4, JobsPositive, SMTT(30)
  <2>4. PICK a \in Int, t \in Int, o \in Int, f \in Int, b \in Int, n \in Int, j \in Int :
          /\ a = available /\ t = tokens /\ o = others /\ f = TokensIn(InFlight)
          /\ b = available' /\ n = tokens' /\ j = Jobs
    BY <2>1, <2>3, Counts, SMTT(30)
  <2>5. a + o + t + f = j - 1
    BY <2>2, <2>4
  <2>7. b + n = a + t
    BY <1>7, <2>4, Zenon
  <2>6. b + o + n + f = j - 1
    BY <2>5, <2>7
  <2> QED
    BY <2>3, <2>4, <2>6, SMTT(30)
<1> QED
  BY <1>8, <1>9, <1>10, SMTT(30) DEF TokensAccounted, TokensLimited, NoTokenForgotten, Asked

\* A job that ends gives its token back to the loop.
LEMMA HandleAllKeepsTokens ==
  ASSUME TypeOK, JobsInv, MessagesInv, TokensAccounted, NEW u \in Unit, NEW ok \in BOOLEAN, HandleAll(u, ok)
  PROVE  TokensAccounted'
<1>1. /\ UNCHANGED <<build, drain_at, pending_queue, messages, tokens, requested, available, others>>
      /\ active' = active \ {u} /\ TakeEvent(FinishMsg(u, "All", ok)) /\ drain_at = "handle"
  BY DEF HandleAll, jobserver, TakeEvent
<1>2. errors => errors'
  BY Zenon DEF HandleAll
<1>3. u \in active
  BY <1>1, HandlesFinish, Zenon DEF Artifact
<1>4. Cardinality(active') = Cardinality(active) - 1
  BY <1>1, <1>3, ActiveFinite, FS_RemoveElement, SMTT(30)
<1>5. TokensIn(InFlight') = TokensIn(InFlight)
  BY <1>1, OthersCarryNoToken, TookNoToken, Zenon DEF Artifact
<1>6. Asked' => Asked
  BY <1>1, <1>2, AskedBefore, SMTT(30)
<1>7. Cardinality(active') <= tokens' + 1
  BY <1>1, <1>4, Counts, Account, SMTT(30)
<1>8. Asked' => tokens' + TokensIn(InFlight') + requested' + 1 >= Cardinality(active') + Len(pending_queue')
  BY <1>1, <1>4, <1>5, <1>6, Counts, Account, SMTT(30)
<1> QED
  BY <1>1, <1>5, <1>7, <1>8, Account, Zenon DEF TokensAccounted, TokensLimited, NoTokenForgotten, Asked

\* A token is a message.
LEMMA TokenTyped ==
  ASSUME NEW b \in BOOLEAN
  PROVE  Token(b) \in Message
BY DEF Message

\* The helper thread passes a token on.
LEMMA HelperKeepsTokens ==
  ASSUME TypeOK, TokensAccounted, HelperAcquires
  PROVE  TokensAccounted'
<1>1. /\ UNCHANGED <<build, drain_at, errors, active, pending_queue, events, tokens, others>>
      /\ requested' = requested - 1 /\ available' = available - 1 /\ Send(Token(TRUE))
  BY Zenon DEF HelperAcquires, drain
<1>2. InFlight \in Seq(Message) /\ Token(TRUE) \in Message
  BY InFlightTyped, TokenTyped, Zenon
<1>3. InFlight' = Append(InFlight, Token(TRUE))
  BY <1>1, <1>2, Sends, Zenon
<1>4. TokensIn(InFlight') = TokensIn(InFlight) + 1
  BY <1>2, <1>3, TokensCount, Zenon
<1>5. Asked' => Asked
  BY <1>1 DEF Asked
<1>6. /\ available + others + tokens + TokensIn(InFlight) = Jobs - 1
      /\ Cardinality(active) <= tokens + 1
      /\ Asked => tokens + TokensIn(InFlight) + requested + 1 >= Cardinality(active) + Len(pending_queue)
  BY Account
<1>7. available' + others' + tokens' + TokensIn(InFlight') = Jobs - 1
  BY <1>1, <1>4, <1>6, Counts, SMTT(30)
<1>8. Asked' => tokens' + TokensIn(InFlight') + requested' + 1 >= Cardinality(active') + Len(pending_queue')
  BY <1>1, <1>4, <1>5, <1>6, Counts, SMTT(30)
<1>9. Cardinality(active') <= tokens' + 1
  BY <1>1, <1>6, SMTT(30)
<1> QED
  BY <1>7, <1>8, <1>9, SMTT(30) DEF TokensAccounted, TokensLimited, NoTokenForgotten, Asked

\* The main thread takes it.
LEMMA TokenKeepsTokens ==
  ASSUME TypeOK, TokensAccounted, HandleToken(TRUE)
  PROVE  TokensAccounted'
<1>1. /\ UNCHANGED <<build, drain_at, active, pending_queue, messages, requested, available, others>>
      /\ tokens' = tokens + 1 /\ TakeEvent(Token(TRUE)) /\ drain_at = "handle"
  BY Zenon DEF HandleToken, jobserver, TakeEvent
<1>2. errors => errors'
  BY Zenon DEF HandleToken
<1>3. InFlight \in Seq(Message) /\ InFlight # <<>> /\ InFlight[1] = Token(TRUE) /\ InFlight' = Tail(InFlight)
  BY <1>1, InFlightTyped, Takes, Zenon
<1>4. Tail(InFlight) \in Seq(Message)
  BY <1>3
<1>5. TokensIn(InFlight) = TokensIn(InFlight') + 1
  BY <1>3, TokensCount, Zenon
<1>6. TokensIn(InFlight') \in Nat
  BY <1>3, <1>4, TokensCount, Zenon
<1>7. Asked' => Asked
  BY <1>1, <1>2, AskedBefore, SMTT(30)
<1>8. /\ available + others + tokens + TokensIn(InFlight) = Jobs - 1
      /\ Cardinality(active) <= tokens + 1
      /\ Asked => tokens + TokensIn(InFlight) + requested + 1 >= Cardinality(active) + Len(pending_queue)
  BY Account, SMTT(30)
<1>9. available' + others' + tokens' + TokensIn(InFlight') = Jobs - 1
  BY <1>1, <1>5, <1>6, <1>8, Counts, SMTT(30)
<1>10. Asked' => tokens' + TokensIn(InFlight') + requested' + 1 >= Cardinality(active') + Len(pending_queue')
  BY <1>1, <1>5, <1>6, <1>7, <1>8, Counts, SMTT(30)
<1>11. Cardinality(active') <= tokens' + 1
  BY <1>1, <1>8, Counts, SMTT(30)
<1> QED
  BY <1>9, <1>10, <1>11, SMTT(30) DEF TokensAccounted, TokensLimited, NoTokenForgotten, Asked

\* At the end every token goes back, those on their way included.
LEMMA DrainedKeepsTokens ==
  ASSUME TypeOK, LoopInv, TokensAccounted, Drained
  PROVE  TokensAccounted'
<1>1. /\ drain_at' = "done" /\ UNCHANGED <<active, others>> /\ active = {} /\ events = <<>> /\ events' = <<>>
      /\ available' = available + tokens + TokensIn(messages) /\ tokens' = 0 /\ messages' = <<>>
  BY Zenon DEF Drained, LoopInv
<1>2. InFlight = messages /\ InFlight' = <<>>
  <2>1. messages \in Seq(Message)
    BY Zenon DEF TypeOK
  <2> QED
    BY <1>1, <2>1, SMTT(30) DEF InFlight
<1>3. TokensIn(InFlight') = 0
  <2>1. <<>> \in Seq(Message)
    OBVIOUS
  <2> QED
    BY <1>2, <2>1, TokensCount, Zenon
<1>4. Cardinality(active') = 0
  BY <1>1, FS_EmptySet
<1>5. available + others + tokens + TokensIn(InFlight) = Jobs - 1
  BY Account, Zenon
<1>6. available' + others' + tokens' + TokensIn(InFlight') = Jobs - 1
  BY <1>1, <1>2, <1>3, <1>5, Counts, SMTT(30)
<1>7. Cardinality(active') <= tokens' + 1
  BY <1>1, <1>4, SMTT(30)
<1>8. ~Asked'
  BY <1>1, SMTT(30) DEF Asked
<1> QED
  BY <1>6, <1>7, <1>8, SMTT(30) DEF TokensAccounted, TokensLimited, NoTokenForgotten, Asked

\* A client of the jobserver takes or returns one.
LEMMA OthersKeepTokens ==
  ASSUME TypeOK, TokensAccounted, OthersAcquire \/ OthersRelease
  PROVE  TokensAccounted'
<1>1. /\ UNCHANGED <<build, drain_at, errors, active, pending_queue, events, messages, tokens, requested>>
      /\ \/ available' = available - 1 /\ others' = others + 1
         \/ available' = available + 1 /\ others' = others - 1
  BY DEF OthersAcquire, OthersRelease, drain
<1>2. InFlight' = InFlight /\ (Asked' <=> Asked)
  BY <1>1 DEF InFlight, Asked
<1>3. available + others + tokens + TokensIn(InFlight) = Jobs - 1
  BY Account
<1>4. available' + others' + tokens' + TokensIn(InFlight') = Jobs - 1
  BY <1>1, <1>2, <1>3, Counts, SMTT(30)
<1> QED
  BY <1>1, <1>2, <1>4, Account, SMTT(30) DEF TokensAccounted, TokensLimited, NoTokenForgotten, Asked

\* A job of its own thread sends no token.
LEMMA ThreadKeepsTokens ==
  ASSUME TypeOK, LoopInv, JobsInv, TokensAccounted, NEW u \in Unit, JobThread(u)
  PROVE  TokensAccounted'
<1>1. UNCHANGED <<build, drain, tokens, jobserver>>
  BY ThreadsApart
<1>2. Asked' => Asked
  BY <1>1 DEF Asked, drain
<1>3. \/ messages' = messages
      \/ \E m \in Message : m # Token(TRUE) /\ Send(m)
  <2>1. CASE JobEmitsDiag(u) \/ \E b \in BOOLEAN : JobReturns(u, b)
    BY <2>1, Zenon DEF JobEmitsDiag, JobReturns
  <2>2. CASE JobNote(u)
    BY <2>2, MessagesTyped, OthersCarryNoToken, Zenon DEF JobNote, Artifact
  <2>3. CASE \E b \in BOOLEAN : JobReplaysDiag(u, b) \/ PushBounded(u, b)
    <3>1. PICK b \in BOOLEAN : Send(Diagnostic(u, b))
      BY <2>3, Zenon DEF JobReplaysDiag, PushBounded
    <3>2. "All" \in Artifact
      BY DEF Artifact
    <3>3. Diagnostic(u, b) \in Message
      BY <3>2, MessagesTyped
    <3>4. Diagnostic(u, b) # Token(TRUE)
      BY <3>2, OthersCarryNoToken, Zenon
    <3> QED
      BY <3>1, <3>3, <3>4, Zenon
  <2>4. CASE RmetaProduced(u) \/ SynthesizeMetadata(u)
    BY <2>4, MessagesTyped, OthersCarryNoToken, Zenon DEF RmetaProduced, SynthesizeMetadata, Artifact
  <2>5. CASE FinishOnDrop(u)
    <3>1. PICK b \in BOOLEAN : b = (outcome[u] = "ok")
      BY Zenon
    <3>2. Send(FinishMsg(u, "All", b))
      BY <2>5, <3>1 DEF FinishOnDrop
    <3>3. FinishMsg(u, "All", b) \in Message
      BY MessagesTyped, Zenon DEF Artifact
    <3>4. FinishMsg(u, "All", b) # Token(TRUE)
      BY OthersCarryNoToken, Zenon DEF Artifact
    <3> QED
      BY <3>2, <3>3, <3>4, Zenon
  <2> QED
    BY <2>1, <2>2, <2>3, <2>4, <2>5, Zenon DEF JobThread
<1>4. TokensIn(InFlight') = TokensIn(InFlight)
  <2>1. CASE messages' = messages
    BY <1>1, <2>1 DEF InFlight, drain
  <2>2. ASSUME NEW m \in Message, m # Token(TRUE), Send(m) PROVE TokensIn(InFlight') = TokensIn(InFlight)
    BY <1>1, <2>2, SentNoToken, Zenon DEF drain
  <2> QED
    BY <1>3, <2>1, <2>2, Zenon
<1> QED
  BY <1>1, <1>2, <1>4, TokensStay, SMTT(30) DEF drain

\* Every step keeps the account of the tokens.
LEMMA TokensStep ==
  ASSUME TypeOK, LoopInv, JobsInv, MessagesInv, TokensAccounted, JQNext
  PROVE  TokensAccounted'
<1>1. CASE \/ \E u \in Unit : Enqueue(u)
           \/ Execute \/ DequeueNone \/ FreshJobReturns \/ StartNone \/ EventsHandled
  <2>1. /\ UNCHANGED <<build, errors, active, pending_queue, events, messages, tokens, jobserver>>
        /\ drain_at # "done"
    BY <1>1 DEF Enqueue, Execute, DequeueNone, FreshJobReturns, StartNone, EventsHandled, drain
  <2>2. InFlight' = InFlight
    BY <2>1 DEF InFlight
  <2>3. Asked' => Asked
    BY <2>1, AskedBefore, SMTT(30)
  <2> QED
    BY <2>1, <2>2, <2>3, TokensStay, SMTT(30)
<1>2. CASE TryPopAll \/ Pop
  <2>1. /\ UNCHANGED <<build, errors, active, pending_queue, tokens, jobserver>>
        /\ drain_at # "done"
    BY <1>2 DEF TryPopAll, Pop
  <2>2. InFlight' = InFlight
    BY <1>2, Moves
  <2>3. Asked' => Asked
    BY <2>1, AskedBefore, SMTT(30)
  <2> QED
    BY <2>1, <2>2, <2>3, TokensStay, SMTT(30)
<1>3. CASE NoteWorkingOnFails
  <2>1. /\ UNCHANGED <<build, active, events, messages, tokens, jobserver>> /\ errors' /\ build.io_fails
    BY <1>3 DEF NoteWorkingOnFails
  <2>2. InFlight' = InFlight
    BY <2>1 DEF InFlight
  <2>3. ~Asked'
    BY <2>1 DEF Asked
  <2> QED
    BY <2>1, <2>2, <2>3, Account, SMTT(30) DEF TokensAccounted, TokensLimited, NoTokenForgotten, Asked, jobserver
<1>4. ASSUME NEW u \in Unit, HandleFails(u) \/ HandleNote(u) \/ HandleMetadata(u)
                             \/ \E b \in BOOLEAN : HandleDiagnostic(u, b)
      PROVE  TokensAccounted'
  <2>1. /\ UNCHANGED <<build, active, pending_queue, messages, tokens, jobserver>>
        /\ drain_at = "handle"
    BY <1>4, Zenon DEF HandleFails, HandleNote, HandleMetadata, HandleDiagnostic, TakeEvent
  <2>5. errors => errors'
    BY <1>4, Zenon DEF HandleFails, HandleNote, HandleMetadata, HandleDiagnostic
  <2>2. PICK m : TakeEvent(m) /\ m # Token(TRUE)
    <3>1. /\ Note(u) # Token(TRUE) /\ \A b \in BOOLEAN : Diagnostic(u, b) # Token(TRUE)
          /\ FinishMsg(u, "Metadata", TRUE) # Token(TRUE)
      BY OthersCarryNoToken, Zenon DEF Artifact
    <3> QED
      BY <1>4, <3>1, Zenon DEF HandleFails, HandleNote, HandleMetadata, HandleDiagnostic
  <2>3. TokensIn(InFlight') = TokensIn(InFlight)
    BY <2>1, <2>2, TookNoToken, Zenon
  <2>4. Asked' => Asked
    BY <2>1, <2>5, AskedBefore, SMTT(30)
  <2> QED
    BY <2>1, <2>3, <2>4, TokensStay, Zenon
<1>5. CASE HandleToken(FALSE)
  <2>1. /\ UNCHANGED <<build, active, pending_queue, messages, tokens, jobserver>>
        /\ drain_at = "handle" /\ (errors => errors') /\ TakeEvent(Token(FALSE))
    BY <1>5, Zenon DEF HandleToken, TakeEvent
  <2>2. TokensIn(InFlight') = TokensIn(InFlight)
    BY <2>1, TookNoToken, OthersCarryNoToken, SMTT(30) DEF Token
  <2>3. Asked' => Asked
    BY <2>1, AskedBefore, SMTT(30)
  <2> QED
    BY <2>1, <2>2, <2>3, TokensStay, SMTT(30)
<1>6. CASE HelperFails
  <2>1. /\ UNCHANGED <<build, active, events, pending_queue, tokens, available, others>>
        /\ build.jobserver_fails /\ Send(Token(FALSE))
    BY <1>6, Zenon DEF HelperFails, drain
  <2>2. TokensIn(InFlight') = TokensIn(InFlight)
    <3>1. Token(FALSE) # Token(TRUE)
      BY DEF Token
    <3> QED
      BY <2>1, <3>1, SentNoToken, TokenTyped, Zenon
  <2>3. ~Asked'
    BY <2>1 DEF Asked
  <2> QED
    BY <2>1, <2>2, <2>3, Account, SMTT(30) DEF TokensAccounted, TokensLimited, NoTokenForgotten, Asked
<1>7. ASSUME NEW u \in Unit,
             StartJob(u) \/ DequeueUnit(u) \/ JobThread(u) \/ \E ok \in BOOLEAN : HandleAll(u, ok)
      PROVE  TokensAccounted'
  BY <1>7, StartKeepsTokens, DequeueKeepsTokens, ThreadKeepsTokens, HandleAllKeepsTokens, SMTT(30)
<1>8. CASE TruncateTokens \/ Drained \/ HelperAcquires \/ OthersAcquire \/ OthersRelease
  BY <1>8, TruncateKeepsTokens, DrainedKeepsTokens, HelperKeepsTokens, OthersKeepTokens, SMTT(30)
<1>9. CASE \E ok \in BOOLEAN : HandleToken(ok)
  BY <1>5, <1>9, TokenKeepsTokens, Zenon
<1> QED
  BY <1>1, <1>2, <1>3, <1>4, <1>6, <1>7, <1>8, <1>9, SMTT(30)
      DEF JQNext, MainThread, Spawning, Handling, Jobserver

-----------------------------------------------------------------------------
(* What the messages in flight say. *)

\* Steps that touch neither messages nor jobs.
LEMMA MessagesStay ==
  ASSUME MessagesInv, InFlight' = InFlight, UNCHANGED <<build, active, job, outcome, rmeta, finished>>
  PROVE  MessagesInv'
<1>1. \A m : MessageInv(m)' <=> MessageInv(m)
  BY DEF MessageInv, Announced
<1>2. \A u : Announced(u, "Metadata")' <=> Announced(u, "Metadata")
  BY DEF Announced
<1> QED
  BY <1>1, <1>2, Zenon DEF MessagesInv

\* A message is handled: the others stay true, for none of them is about the artifact
\* that it produced, or about a job that it ended.
LEMMA MessageTaken ==
  ASSUME TypeOK, MessagesInv, InFlight # <<>>, InFlight' = Tail(InFlight),
         UNCHANGED <<build, job, outcome, rmeta>>,
         NEW m, m = InFlight[1],
         active' \subseteq active,
         \A u \in active \ active' : m.kind = "Finish" /\ m.artifact = "All" /\ u = m.unit,
         finished \subseteq finished',
         \A p \in finished' \ finished : m.kind = "Finish" /\ p = <<m.unit, m.artifact>>,
         \A u \in Unit : m = FinishMsg(u, "Metadata", TRUE) => <<u, "Metadata">> \in finished'
  PROVE  MessagesInv'
<1> DEFINE s == InFlight
<1>1. s \in Seq(Message)
  BY InFlightTyped
<1>2. /\ 1 \in DOMAIN s /\ DOMAIN Tail(s) = 1 .. Len(s) - 1 /\ DOMAIN s = 1 .. Len(s)
      /\ \A i \in DOMAIN Tail(s) : i + 1 \in DOMAIN s /\ Tail(s)[i] = s[i + 1] /\ s[i + 1] \in Message
      /\ m \in Message
  BY <1>1, SMTT(30)
<1>3. \A i \in DOMAIN Tail(s) : MessageInv(s[i + 1]) /\ InOrder(m, s[i + 1])
  BY <1>1, <1>2 DEF MessagesInv
<1>4. ASSUME NEW n \in Message, MessageInv(n), InOrder(m, n) PROVE MessageInv(n)'
  <2>1. n.kind # "Token" => n.unit \in active'
    BY <1>4, Zenon DEF MessageInv, InOrder
  <2>2. n.kind = "Finish" => <<n.unit, n.artifact>> \notin finished'
    BY <1>4 DEF MessageInv, InOrder
  <2>3. n.kind = "Finish" => Announced(n.unit, n.artifact)'
    BY <1>4, Zenon DEF MessageInv, Announced
  <2> QED
    BY <1>4, <2>1, <2>2, <2>3, Zenon DEF MessageInv
<1>5. \A i \in DOMAIN InFlight' : MessageInv(InFlight[i])'
  <2> SUFFICES ASSUME NEW i \in DOMAIN InFlight' PROVE MessageInv(InFlight[i])'
    OBVIOUS
  <2>1. PICK n \in Message : n = InFlight'[i] /\ MessageInv(n) /\ InOrder(m, n)
    BY <1>2, <1>3, SMTT(30)
  <2>2. MessageInv(n)'
    BY <2>1, <1>4, SMTT(30)
  <2> QED
    BY <2>1, <2>2, Zenon
<1>6. \A i, j \in DOMAIN InFlight' : i < j => InOrder(InFlight'[i], InFlight'[j])
  <2> SUFFICES ASSUME NEW i \in DOMAIN Tail(s), NEW j \in DOMAIN Tail(s), i < j
               PROVE  InOrder(Tail(s)[i], Tail(s)[j])
    BY SMTT(30)
  <2>1. i + 1 < j + 1 /\ i + 1 \in DOMAIN s /\ j + 1 \in DOMAIN s
    BY <1>1, <1>2
  <2>2. InOrder(s[i + 1], s[j + 1])
    BY <2>1, Zenon DEF MessagesInv
  <2> QED
    BY <2>2, <1>2, SMTT(30)
<1>7. ASSUME NEW u \in Unit, Announced(u, "Metadata")'
      PROVE  \/ <<u, "Metadata">> \in finished'
             \/ \E i \in DOMAIN InFlight' : InFlight'[i] = FinishMsg(u, "Metadata", TRUE)
  <2>1. Announced(u, "Metadata")
    BY <1>7 DEF Announced
  <2>2. CASE <<u, "Metadata">> \in finished
    BY <2>2, Zenon
  <2>3. ASSUME NEW i \in DOMAIN s, s[i] = FinishMsg(u, "Metadata", TRUE)
        PROVE  \/ <<u, "Metadata">> \in finished'
               \/ \E k \in DOMAIN InFlight' : InFlight'[k] = FinishMsg(u, "Metadata", TRUE)
    <3>1. CASE i = 1
      BY <2>3, <3>1, Zenon
    <3>2. CASE i # 1
      <4>1. i - 1 \in DOMAIN Tail(s) /\ i - 1 + 1 = i
        BY <3>2, <1>1, <1>2, SMTT(30)
      <4> QED
        BY <4>1, <2>3, <1>2, ZenonT(30)
    <3> QED
      BY <3>1, <3>2, Zenon
  <2> QED
    BY <2>1, <2>2, <2>3, ZenonT(30) DEF MessagesInv
<1> QED
  BY <1>5, <1>6, <1>7, Zenon DEF MessagesInv

\* A message is sent: it is true, follows what its job said before, and what was in
\* flight before stays true.
LEMMA MessageSent ==
  ASSUME TypeOK, MessagesInv, NEW m \in Message, InFlight' = Append(InFlight, m),
         MessageInv(m)',
         \A n \in Message : (\E i \in DOMAIN InFlight : InFlight[i] = n) => MessageInv(n)' /\ InOrder(n, m),
         finished' = finished,
         \A u \in Unit : Announced(u, "Metadata")'
           => Announced(u, "Metadata") \/ m = FinishMsg(u, "Metadata", TRUE)
  PROVE  MessagesInv'
<1> DEFINE s == InFlight
           n == Len(s) + 1
<1>1. s \in Seq(Message)
  BY InFlightTyped, SMTT(30)
<1>2. /\ n \in DOMAIN InFlight' /\ InFlight'[n] = m
      /\ \A i \in DOMAIN InFlight' : i = n \/ (i \in DOMAIN s /\ InFlight'[i] = s[i])
      /\ \A i \in DOMAIN s : i \in DOMAIN InFlight' /\ InFlight'[i] = s[i]
      /\ \A i \in DOMAIN s : i < n
      /\ \A i \in DOMAIN InFlight' : i <= n /\ i \in Int
  BY <1>1, SMTT(30)
<1> HIDE DEF n
<1>3. \A i \in DOMAIN InFlight' : MessageInv(InFlight[i])'
  <2> SUFFICES ASSUME NEW i \in DOMAIN InFlight' PROVE MessageInv(InFlight[i])'
    BY SMTT(30)
  <2>1. PICK k \in Message : k = InFlight'[i] /\ MessageInv(k)'
    BY <1>1, <1>2, SMTT(30)
  <2> QED
    BY <2>1, SMTT(30)
<1>4. ASSUME NEW i \in DOMAIN InFlight', NEW j \in DOMAIN InFlight', i < j
      PROVE  InOrder(InFlight'[i], InFlight'[j])
  <2>1. i # n
    BY <1>2, <1>4, SMTT(30)
  <2>2. CASE j = n
    BY <2>1, <2>2, <1>1, <1>2, SMTT(30)
  <2>3. CASE j # n
    BY <2>1, <2>3, <1>2, <1>4, Zenon DEF MessagesInv
  <2> QED
    BY <2>2, <2>3, Zenon
<1>5. ASSUME NEW u \in Unit, Announced(u, "Metadata")'
      PROVE  \/ <<u, "Metadata">> \in finished'
             \/ \E i \in DOMAIN InFlight' : InFlight'[i] = FinishMsg(u, "Metadata", TRUE)
  <2>1. CASE m = FinishMsg(u, "Metadata", TRUE)
    BY <2>1, <1>2, Zenon
  <2>2. CASE Announced(u, "Metadata")
    BY <2>2, <1>2, Zenon DEF MessagesInv
  <2> QED
    BY <2>1, <2>2, <1>5, Zenon
<1> QED
  BY <1>3, <1>4, <1>5, Zenon DEF MessagesInv

\* Nothing is sent, and what was in flight stays true.
LEMMA MessagesKept ==
  ASSUME TypeOK, MessagesInv, InFlight' = InFlight, finished' = finished,
         \A n \in Message : (\E i \in DOMAIN InFlight : InFlight[i] = n) => MessageInv(n)',
         \A u \in Unit : Announced(u, "Metadata")' => Announced(u, "Metadata")
  PROVE  MessagesInv'
<1>1. InFlight \in Seq(Message)
  BY InFlightTyped
<1>2. \A i \in DOMAIN InFlight' : MessageInv(InFlight[i])'
  <2> SUFFICES ASSUME NEW i \in DOMAIN InFlight' PROVE MessageInv(InFlight[i])'
    OBVIOUS
  <2>1. PICK k \in Message : k = InFlight'[i] /\ MessageInv(k)'
    BY <1>1
  <2> QED
    BY <2>1, Zenon
<1> QED
  BY <1>2, Zenon DEF MessagesInv

\* A job that runs takes nothing back: what it announced stays announced, and what
\* it returned stays.  It has not announced its end yet.
LEMMA AnnouncedStays ==
  ASSUME TypeOK, JobsInv, NEW u \in Unit, JobThread(u)
  PROVE  /\ \A v \in Unit, a \in Artifact : Announced(v, a) => Announced(v, a)'
         /\ \A v \in Unit \ {u}, a \in Artifact : Announced(v, a)' <=> Announced(v, a)
         /\ ~Announced(u, "All")
<1>1. /\ job \in [Unit -> {"idle", "running", "pushing", "synthesize", "finish", "done"}]
      /\ outcome \in [Unit -> {"none", "ok", "err"}]
      /\ rmeta \in [Unit -> {"unneeded", "required", "produced"}]
  BY Zenon DEF TypeOK
<1>2. /\ \A v \in Unit \ {u} : UNCHANGED <<job[v], outcome[v], rmeta[v]>>
      /\ job[u] \notin {"idle", "done"}
  BY ThreadsApart, Zenon
<1>3. \A v \in Unit \ {u}, a \in Artifact : Announced(v, a)' <=> Announced(v, a)
  BY <1>2, Zenon DEF Announced
<1>4. ASSUME Announced(u, "Metadata") PROVE Announced(u, "Metadata")'
  <2>1. ASSUME NEW b \in BOOLEAN, JobReplaysDiag(u, b) \/ PushBounded(u, b) \/ JobReturns(u, b)
        PROVE  Announced(u, "Metadata")'
    BY <1>1, <1>4, <2>1, Zenon DEF Announced, JobReplaysDiag, PushBounded, JobReturns
  <2>2. CASE JobNote(u) \/ JobEmitsDiag(u) \/ RmetaProduced(u) \/ SynthesizeMetadata(u) \/ FinishOnDrop(u)
    BY <1>1, <1>4, <2>2, ZenonT(30) DEF Announced, JobNote, JobEmitsDiag, RmetaProduced, SynthesizeMetadata, FinishOnDrop
  <2> QED
    BY <2>1, <2>2, Zenon DEF JobThread
<1>5. ~Announced(u, "All")
  BY <1>2, SMTT(30) DEF Announced
<1> QED
  BY <1>3, <1>4, <1>5, Zenon DEF Artifact

\* So what is in flight stays true, and all that a running job said before goes with
\* what it says now, if it does not announce an artifact twice.
LEMMA OldMessages ==
  ASSUME TypeOK, JobsInv, MessagesInv, NEW u \in Unit, JobThread(u)
  PROVE  /\ \A n \in Message : (\E i \in DOMAIN InFlight : InFlight[i] = n) => MessageInv(n)'
         /\ \A n, m \in Message :
              /\ \E i \in DOMAIN InFlight : InFlight[i] = n
              /\ m.kind # "Token" => m.unit = u
              /\ m.kind = "Finish" => ~Announced(u, m.artifact)
              => InOrder(n, m)
<1>1. /\ UNCHANGED <<build, active, finished>>
      /\ \A v \in Unit \ {u} : outcome'[v] = outcome[v]
  BY ThreadsApart, Zenon DEF drain, queue
<1>2. /\ \A v \in Unit, a \in Artifact : Announced(v, a) => Announced(v, a)'
      /\ ~Announced(u, "All")
  BY AnnouncedStays
<1>3. ASSUME NEW n \in Message, \E i \in DOMAIN InFlight : InFlight[i] = n
      PROVE  /\ MessageInv(n)'
             /\ \A m \in Message : /\ m.kind # "Token" => m.unit = u
                                   /\ m.kind = "Finish" => ~Announced(u, m.artifact)
                                   => InOrder(n, m)
  <2>1. MessageInv(n)
    BY <1>3 DEF MessagesInv
  <2>2. /\ n.kind # "Token" => n.unit \in Unit
        /\ n.kind = "Finish" => n.artifact \in Artifact
        /\ n.kind = "Finish" => n.kind # "Token"
    BY MessageFields, SMTT(30)
  <2>3. n.kind = "Finish" /\ n.artifact = "All" => n.unit # u
    BY <1>2, <2>1, SMTT(30) DEF MessageInv
  <2>4. MessageInv(n)'
    BY <1>1, <1>2, <2>1, <2>2, <2>3, SMTT(30) DEF MessageInv
  <2>5. ASSUME NEW m \in Message, m.kind # "Token" => m.unit = u,
               m.kind = "Finish" => ~Announced(u, m.artifact)
        PROVE  InOrder(n, m)
    BY <2>1, <2>3, <2>5, SMTT(30) DEF InOrder, MessageInv
  <2> QED
    BY <2>4, <2>5, SMTT(30)
<1> QED
  BY <1>3
=============================================================================
