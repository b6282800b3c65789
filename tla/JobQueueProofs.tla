--------------------------- MODULE JobQueueProofs ----------------------------
(***************************************************************************)
(* What the messages in flight say of the jobs that sent them, and what is *)
(* known once they were handled, is kept by every step of the job queue.   *)
(* Then the theorems: the inductive invariant, and what follows from it of *)
(* the order of the jobs, the tokens and the result of a build.            *)
(***************************************************************************)
EXTENDS JobQueueJobs

-----------------------------------------------------------------------------
(* What the messages in flight say. *)

\* What a job sends is true.
LEMMA ThreadKeepsMessages ==
  ASSUME TypeOK, JobsInv, MessagesInv, HandledInv, NEW u \in Unit, JobThread(u)
  PROVE  MessagesInv'
<1>1. /\ UNCHANGED <<build, active, finished, events>>
      /\ job[u] \notin {"idle", "done"}
      /\ u \in active
  <2>1. UNCHANGED <<build, active, finished, events>> /\ job[u] \notin {"idle", "done"}
    BY ThreadsApart DEF drain, queue
  <2>2. JobInv(u) /\ job[u] \in {"running", "pushing", "synthesize", "finish"}
    BY <2>1, Zenon DEF JobsInv, TypeOK
  <2> QED
    BY <2>1, <2>2 DEF JobInv
<1>2. /\ \A n \in Message : (\E i \in DOMAIN InFlight : InFlight[i] = n) => MessageInv(n)'
      /\ \A n, m \in Message :
           /\ \E i \in DOMAIN InFlight : InFlight[i] = n
           /\ m.kind # "Token" => m.unit = u
           /\ m.kind = "Finish" => ~Announced(u, m.artifact)
           => InOrder(n, m)
  BY OldMessages
<1>3. \A v \in Unit \ {u} : Announced(v, "Metadata")' <=> Announced(v, "Metadata")
  BY AnnouncedStays DEF Artifact
<1>4. /\ job \in [Unit -> {"idle", "running", "pushing", "synthesize", "finish", "done"}]
      /\ outcome \in [Unit -> {"none", "ok", "err"}]
      /\ rmeta \in [Unit -> {"unneeded", "required", "produced"}]
  BY Zenon DEF TypeOK
<1>5. ASSUME NEW m \in Message, Send(m), m.kind # "Token" => m.unit = u,
             m.kind = "Finish" => ~Announced(u, m.artifact),
             MessageInv(m)',
             Announced(u, "Metadata")' => Announced(u, "Metadata") \/ m = FinishMsg(u, "Metadata", TRUE)
      PROVE  MessagesInv'
  <2>1. InFlight' = Append(InFlight, m)
    BY <1>1, <1>5, Sends
  <2>2. \A n \in Message : (\E i \in DOMAIN InFlight : InFlight[i] = n) => MessageInv(n)' /\ InOrder(n, m)
    BY <1>2, <1>5, Zenon
  <2>3. \A v \in Unit : Announced(v, "Metadata")'
           => Announced(v, "Metadata") \/ m = FinishMsg(v, "Metadata", TRUE)
    BY <1>3, <1>5, Zenon
  <2> QED
    BY <2>1, <2>2, <2>3, <1>1, <1>5, MessageSent, Zenon
<1>6. CASE JobNote(u)
  <2>1. Note(u) \in Message /\ Note(u).kind = "Note" /\ Note(u).unit = u
    BY MessagesTyped, Zenon DEF Artifact
  <2>2. MessageInv(Note(u))'
    <3>1. ASSUME NEW m \in Message, m.kind = "Note", m.unit = u PROVE MessageInv(m)'
      BY <3>1, <1>1 DEF MessageInv
    <3> QED
      BY <3>1, <2>1 DEF Note
  <2>3. Announced(u, "Metadata")' => Announced(u, "Metadata")
    BY <1>6 DEF JobNote, Announced
  <2> QED
    BY <1>5, <1>6, <2>1, <2>2, <2>3, Zenon DEF JobNote
<1>7. ASSUME NEW b \in BOOLEAN, JobReplaysDiag(u, b) \/ PushBounded(u, b) PROVE MessagesInv'
  <2> DEFINE d == Diagnostic(u, b)
  <2>1. d \in Message /\ d.kind = "Diagnostic" /\ d.unit = u /\ d.lint = b
    BY MessagesTyped DEF Artifact
  <2>2. b => build'.deny_warnings
    BY <1>1, <1>7, Zenon DEF JobReplaysDiag, PushBounded
  <2>3. Send(d)
    BY <1>7 DEF JobReplaysDiag, PushBounded
  <2>4. Announced(u, "Metadata")' => Announced(u, "Metadata")
    BY <1>4, <1>7 DEF JobReplaysDiag, PushBounded, Announced
  <2>5. MessageInv(d)'
    <3>1. ASSUME NEW m \in Message, m.kind = "Diagnostic", m.unit = u, m.lint = b PROVE MessageInv(m)'
      BY <3>1, <1>1, <2>2, SMTT(30) DEF MessageInv
    <3> QED
      BY <3>1, <2>1, Zenon DEF Diagnostic
  <2> HIDE DEF d
  <2> QED
    BY <1>5, <2>1, <2>3, <2>4, <2>5, Zenon
<1>8. CASE RmetaProduced(u) \/ SynthesizeMetadata(u)
  <2> DEFINE f == FinishMsg(u, "Metadata", TRUE)
  <2>1. f \in Message /\ f.kind = "Finish" /\ f.unit = u /\ f.artifact = "Metadata"
    BY MetadataTyped, Zenon
  <2>2. Send(f)
    BY <1>8, Zenon DEF RmetaProduced, SynthesizeMetadata
  <2>3. ~Announced(u, "Metadata") /\ Announced(u, "Metadata")'
    <3>1. JobInv(u)
      BY DEF JobsInv
    <3>2. CASE RmetaProduced(u)
      BY <3>1, <3>2, <1>4, Zenon DEF RmetaProduced, Announced, JobInv
    <3>3. CASE SynthesizeMetadata(u)
      BY <3>1, <3>3, <1>4, SMTT(30) DEF SynthesizeMetadata, Announced, JobInv
    <3> QED
      BY <1>8, <3>2, <3>3
  <2>4. <<u, "Metadata">> \notin finished
    BY <2>3, Zenon DEF HandledInv, Artifact
  <2>5. MessageInv(f)'
    <3>1. ASSUME NEW m \in Message, m.kind = "Finish", m.unit = u, m.artifact = "Metadata"
          PROVE  MessageInv(m)'
      BY <3>1, <1>1, <2>3, <2>4, SMTT(30) DEF MessageInv
    <3> QED
      BY <3>1, <2>1 DEF FinishMsg
  <2>6. f = FinishMsg(u, "Metadata", TRUE)
    OBVIOUS
  <2> HIDE DEF f
  <2> QED
    BY <1>5, <2>1, <2>2, <2>3, <2>5, <2>6, Zenon
<1>9. CASE FinishOnDrop(u)
  <2>1. PICK ok \in BOOLEAN : ok = (outcome[u] = "ok")
    BY Zenon
  <2>2. outcome' = outcome /\ job'[u] = "done" /\ job[u] = "finish" /\ rmeta' = rmeta
    BY <1>4, <1>9 DEF FinishOnDrop
  <2>3. ~Announced(u, "All") /\ Announced(u, "All")' /\ (Announced(u, "Metadata")' => Announced(u, "Metadata"))
    BY <2>2, <1>1 DEF Announced
  <2>4. <<u, "All">> \notin finished
    BY <2>3, Zenon DEF HandledInv, Artifact
  <2> DEFINE f == FinishMsg(u, "All", ok)
  <2>5. f \in Message /\ f.kind = "Finish" /\ f.unit = u /\ f.artifact = "All" /\ f.ok = ok
    BY MessagesTyped DEF Artifact
  <2>6. Send(f)
    BY <1>9, <2>1 DEF FinishOnDrop
  <2>7. MessageInv(f)'
    <3>1. ASSUME NEW m \in Message, m.kind = "Finish", m.unit = u, m.artifact = "All", m.ok = ok
          PROVE  MessageInv(m)'
      BY <3>1, <1>1, <2>1, <2>2, <2>3, <2>4, Zenon DEF MessageInv
    <3> QED
      BY <3>1, <2>5 DEF FinishMsg
  <2> HIDE DEF f
  <2> QED
    BY <1>5, <2>3, <2>5, <2>6, <2>7, Zenon
<1>10. CASE JobEmitsDiag(u) \/ \E b \in BOOLEAN : JobReturns(u, b)
  <2>1. InFlight' = InFlight
    BY <1>1, <1>10 DEF JobEmitsDiag, JobReturns, InFlight
  <2>2. Announced(u, "Metadata")' => Announced(u, "Metadata")
    BY <1>4, <1>10 DEF JobEmitsDiag, JobReturns, Announced
  <2> QED
    BY <2>1, <2>2, <1>1, <1>2, <1>3, MessagesKept, SMTT(30)
<1> QED
  BY <1>6, <1>7, <1>8, <1>9, <1>10, SMTT(30) DEF JobThread

\* Every step keeps the messages true.
LEMMA MessagesStep ==
  ASSUME TypeOK, GraphInv, LoopInv, JobsInv, MessagesInv, HandledInv, JQNext
  PROVE  MessagesInv'
<1>1. CASE \/ \E u \in Unit : Enqueue(u) \/ DequeueUnit(u)
           \/ Execute \/ DequeueNone \/ NoteWorkingOnFails \/ FreshJobReturns \/ StartNone
           \/ TruncateTokens \/ EventsHandled \/ OthersAcquire \/ OthersRelease
  <2>1. UNCHANGED <<build, events, messages, active, job, outcome, rmeta, finished>>
    BY <1>1, Zenon DEF Enqueue, DequeueUnit, Execute, DequeueNone, NoteWorkingOnFails, FreshJobReturns,
                StartNone, TruncateTokens, EventsHandled, OthersAcquire, OthersRelease, drain, jobs,
                queue, Q!Queue, Q!Dequeue, Q!QueueFinished
  <2> QED
    BY <2>1, MessagesStay DEF InFlight
<1>2. CASE TryPopAll \/ Pop
  <2>1. UNCHANGED <<build, active, job, outcome, rmeta, finished>>
    BY <1>2 DEF TryPopAll, Pop, jobs, queue
  <2> QED
    BY <1>2, <2>1, Moves, MessagesStay, SMTT(30)
<1>3. ASSUME NEW u \in Unit, StartJob(u) PROVE MessagesInv'
  <2>1. UNCHANGED <<build, events, messages, outcome, finished>> /\ active' = active \union {u}
    BY <1>3 DEF StartJob, queue
  <2>2. job'[u] = "running" /\ rmeta'[u] \in {"unneeded", "required"}
    BY <1>3, Zenon DEF StartJob, TypeOK
  <2>3. \A v \in Unit \ {u} : job'[v] = job[v] /\ rmeta'[v] = rmeta[v]
    BY <1>3, Zenon DEF StartJob, TypeOK
  <2>4. u \notin active
    BY <1>3, StartKeepsJobs, Zenon DEF JobsInv, JobInv
  <2>5. \A v \in Unit \ {u} : \A a : Announced(v, a)' <=> Announced(v, a)
    BY <2>1, <2>3 DEF Announced
  <2>6. ~Announced(u, "Metadata")'
    BY <2>2 DEF Announced
  <2>7. ASSUME NEW n \in Message, \E i \in DOMAIN InFlight : InFlight[i] = n PROVE MessageInv(n)'
    <3>1. MessageInv(n)
      BY <2>7 DEF MessagesInv
    <3>2. n.kind # "Token" => n.unit \in Unit \ {u}
      BY <3>1, <2>4, MessageFields, SMTT(30) DEF MessageInv
    <3> QED
      BY <3>1, <3>2, <2>1, <2>5, SMTT(30) DEF MessageInv
  <2> QED
    BY <2>1, <2>5, <2>6, <2>7, MessagesKept, SMTT(30) DEF InFlight
<1>4. ASSUME NEW m, TakeEvent(m), messages' = messages, m.kind # "Finish",
             UNCHANGED <<build, active, job, outcome, rmeta, finished>>
      PROVE  MessagesInv'
  <2>1. InFlight # <<>> /\ m = InFlight[1] /\ InFlight' = Tail(InFlight) /\ m \in Message
    BY <1>4, Takes
  <2>2. ASSUME NEW u \in Unit PROVE m # FinishMsg(u, "Metadata", TRUE)
    <3>1. FinishMsg(u, "Metadata", TRUE).kind = "Finish"
      BY MetadataTyped, Zenon
    <3> QED
      BY <1>4, <3>1, Zenon
  <2> QED
    BY <1>4, <2>1, <2>2, MessageTaken, Zenon
<1>5. ASSUME NEW u \in Unit, HandleFails(u) \/ HandleNote(u) PROVE MessagesInv'
  <2>1. PICK m \in {Note(u), Diagnostic(u, TRUE), Diagnostic(u, FALSE)} : TakeEvent(m)
    BY <1>5, Zenon DEF HandleFails, HandleNote
  <2>2. m.kind # "Finish"
    <3>1. Note(u).kind = "Note" /\ Diagnostic(u, TRUE).kind = "Diagnostic" /\ Diagnostic(u, FALSE).kind = "Diagnostic"
      BY DEF Note, Diagnostic
    <3>2. m.kind = "Note" \/ m.kind = "Diagnostic"
      BY <3>1, Zenon
    <3> QED
      BY <3>2
  <2>3. UNCHANGED <<build, messages, active, job, outcome, rmeta, finished>>
    BY <1>5, Zenon DEF HandleFails, HandleNote, queue, jobs
  <2> QED
    BY <2>1, <2>2, <2>3, <1>4, SMTT(30)
<1>6. ASSUME NEW u \in Unit, NEW b \in BOOLEAN, HandleDiagnostic(u, b) PROVE MessagesInv'
  <2>1. TakeEvent(Diagnostic(u, b)) /\ UNCHANGED <<build, messages, active, job, outcome, rmeta, finished>>
    BY <1>6 DEF HandleDiagnostic, queue, jobs
  <2>2. Diagnostic(u, b).kind # "Finish"
    BY MessagesTyped DEF Artifact
  <2> QED
    BY <2>1, <2>2, <1>4
<1>7. ASSUME NEW b \in BOOLEAN, HandleToken(b) PROVE MessagesInv'
  <2>1. TakeEvent(Token(b)) /\ UNCHANGED <<build, messages, active, job, outcome, rmeta, finished>>
    BY <1>7 DEF HandleToken, queue, jobs
  <2>2. Token(b).kind # "Finish"
    BY DEF Token
  <2> QED
    BY <2>1, <2>2, <1>4, SMTT(30)
<1>8. ASSUME NEW u \in Unit, HandleMetadata(u) PROVE MessagesInv'
  <2> DEFINE f == FinishMsg(u, "Metadata", TRUE)
  <2>1. InFlight # <<>> /\ f = InFlight[1] /\ InFlight' = Tail(InFlight)
    BY <1>8, Takes, Zenon DEF HandleMetadata
  <2>2. f.kind = "Finish" /\ f.unit = u /\ f.artifact = "Metadata"
    BY MetadataTyped, Zenon
  <2>3. UNCHANGED <<build, active, job, outcome, rmeta>> /\ finished' = finished \union {<<u, "Metadata">>}
    BY <1>8 DEF HandleMetadata, jobs, Q!Finish
  <2>4. ASSUME NEW v \in Unit, f = FinishMsg(v, "Metadata", TRUE) PROVE v = u
    <3>1. FinishMsg(v, "Metadata", TRUE).unit = v
      BY MessagesTyped, Zenon DEF Artifact
    <3> QED
      BY <2>2, <2>4, <3>1, Zenon
  <2>5. \A p \in finished' \ finished : f.kind = "Finish" /\ p = <<f.unit, f.artifact>>
    BY <2>2, <2>3, Zenon
  <2>6. \A v \in Unit : f = FinishMsg(v, "Metadata", TRUE) => <<v, "Metadata">> \in finished'
    BY <2>3, <2>4, Zenon
  <2> HIDE DEF f
  <2> QED
    BY <2>1, <2>3, <2>5, <2>6, MessageTaken, Zenon
<1>9. ASSUME NEW u \in Unit, NEW ok \in BOOLEAN, HandleAll(u, ok) PROVE MessagesInv'
  <2> DEFINE f == FinishMsg(u, "All", ok)
  <2>1. InFlight # <<>> /\ f = InFlight[1] /\ InFlight' = Tail(InFlight)
    BY <1>9, Takes, SMTT(30) DEF HandleAll
  <2>2. f.kind = "Finish" /\ f.unit = u /\ f.artifact = "All"
    BY MessagesTyped DEF Artifact
  <2>3. UNCHANGED <<build, job, outcome, rmeta>> /\ active' = active \ {u}
    BY <1>9, Zenon DEF HandleAll, jobs
  <2>4. finished' = finished \/ finished' = finished \union {<<u, "All">>}
    BY <1>9, HandleAllKeepsJobs, Zenon DEF queue
  <2>5. ASSUME NEW v \in Unit PROVE f # FinishMsg(v, "Metadata", TRUE)
    <3>1. FinishMsg(v, "Metadata", TRUE).artifact = "Metadata"
      BY MetadataTyped, Zenon
    <3> QED
      BY <2>2, <3>1, Zenon
  <2>6. \A p \in finished' \ finished : f.kind = "Finish" /\ p = <<f.unit, f.artifact>>
    BY <2>2, <2>4
  <2>7. \A v \in active \ active' : f.kind = "Finish" /\ f.artifact = "All" /\ v = f.unit
    BY <2>2, <2>3
  <2> HIDE DEF f
  <2> QED
    BY <2>1, <2>3, <2>4, <2>5, <2>6, <2>7, MessageTaken, Zenon
<1>10. CASE Drained
  <2>1. active = {} /\ events = <<>> /\ events' = events /\ messages' = <<>>
    BY <1>10, Zenon DEF Drained, LoopInv
  <2>2. UNCHANGED <<job, outcome, rmeta, finished>>
    BY <1>10, Zenon DEF Drained, jobs, queue
  <2>3. InFlight' = <<>> /\ DOMAIN InFlight' = {}
    BY <2>1 DEF InFlight
  <2>4. ASSUME NEW u \in Unit, Announced(u, "Metadata")' PROVE <<u, "Metadata">> \in finished'
    <3>1. Announced(u, "Metadata")
      BY <2>2, <2>4 DEF Announced
    <3>2. \A i \in DOMAIN InFlight : InFlight[i] # FinishMsg(u, "Metadata", TRUE)
      <4>1. FinishMsg(u, "Metadata", TRUE).kind = "Finish"
        BY MetadataTyped, Zenon
      <4> QED
        BY <4>1, <2>1, Zenon DEF MessagesInv, MessageInv
    <3> QED
      BY <3>1, <3>2, <2>2, Zenon DEF MessagesInv
  <2> QED
    BY <2>3, <2>4, Zenon DEF MessagesInv
<1>11. ASSUME NEW u \in Unit, JobThread(u) PROVE MessagesInv'
  BY <1>11, ThreadKeepsMessages
<1>12. CASE HelperAcquires \/ HelperFails
  <2>1. PICK b \in BOOLEAN : Send(Token(b))
    BY <1>12, Zenon DEF HelperAcquires, HelperFails
  <2>2. UNCHANGED <<build, events, active, job, outcome, rmeta, finished>>
    BY <1>12, Zenon DEF HelperAcquires, HelperFails, drain, jobs, queue
  <2>3. Token(b) \in Message /\ Token(b).kind = "Token"
    BY DEF Message, Token
  <2>4. \A n : MessageInv(n)' <=> MessageInv(n)
    BY <2>2 DEF MessageInv, Announced
  <2>5. MessageInv(Token(b))' /\ \A n \in Message : InOrder(n, Token(b))
    <3>1. ASSUME NEW m \in Message, m.kind = "Token" PROVE MessageInv(m)' /\ \A n \in Message : InOrder(n, m)
      BY <3>1 DEF MessageInv, InOrder
    <3> QED
      BY <3>1, <2>3, SMTT(30)
  <2>6. \A n \in Message : (\E i \in DOMAIN InFlight : InFlight[i] = n) => MessageInv(n)' /\ InOrder(n, Token(b))
    BY <2>4, <2>5, SMTT(30) DEF MessagesInv
  <2>7. \A u \in Unit : Announced(u, "Metadata")' <=> Announced(u, "Metadata")
    BY <2>2 DEF Announced
  <2>8. InFlight' = Append(InFlight, Token(b))
    BY <2>1, <2>2, <2>3, Sends, SMTT(30)
  <2> QED
    BY <2>2, <2>3, <2>5, <2>6, <2>7, <2>8, MessageSent, Zenon
<1> QED
  BY <1>1, <1>2, <1>3, <1>5, <1>6, <1>7, <1>8, <1>9, <1>10, <1>11, <1>12, SMTT(30)
      DEF JQNext, MainThread, Spawning, Handling, Jobserver

-----------------------------------------------------------------------------
(* What was handled. *)

\* The artifacts produced stay announced and the units compiled.
LEMMA HandledStays ==
  ASSUME HandledInv, UNCHANGED <<build, finished, failed_scrape_units, linted, lint_warnings>>,
         \A u \in Unit, a \in Artifact : Announced(u, a) => Announced(u, a)',
         \A u \in Unit : <<u, "All">> \in finished => outcome'[u] = outcome[u] /\ (u \in active' => u \in active),
         active \subseteq active'
  PROVE  HandledInv'
<1>1. \A u : RmetaRequired(u)' <=> RmetaRequired(u)
  BY DEF RmetaRequired, OnlyRequiresRmeta
<1> QED
  BY <1>1 DEF HandledInv, Compiled

\* When a job ends well, whoever waits for its metadata was told of it before.
LEMMA MetadataFirst ==
  ASSUME TypeOK, GraphInv, JobsInv, MessagesInv, NEW u \in Unit, NEW ok \in BOOLEAN,
         TakeEvent(FinishMsg(u, "All", ok)), messages' = messages, ok, RmetaRequired(u)
  PROVE  <<u, "Metadata">> \in finished
<1>1. /\ u \in Q!Dequeued /\ Announced(u, "All") /\ outcome[u] = "ok"
  BY HandlesFinish, Zenon DEF Artifact
<1>2. Announced(u, "Metadata")
  BY <1>1, Zenon DEF JobsInv, JobInv, Announced, TypeOK
<1>3. ASSUME NEW i \in DOMAIN InFlight, InFlight[i] = FinishMsg(u, "Metadata", TRUE) PROVE FALSE
  <2>1. InFlight[1] = FinishMsg(u, "All", ok) /\ 1 \in DOMAIN InFlight
    BY Takes, Zenon
  <2>2. /\ FinishMsg(u, "All", ok).kind = "Finish" /\ FinishMsg(u, "All", ok).artifact = "All"
        /\ FinishMsg(u, "All", ok).unit = u
    BY MessagesTyped, Zenon DEF Artifact
  <2>3. /\ FinishMsg(u, "Metadata", TRUE).kind = "Finish" /\ FinishMsg(u, "Metadata", TRUE).unit = u
        /\ FinishMsg(u, "Metadata", TRUE).artifact = "Metadata"
    BY MetadataTyped, Zenon
  <2>4. 1 < i
    <3>1. InFlight \in Seq(Message) /\ i # 1
      BY <1>3, <2>1, <2>2, <2>3, InFlightTyped, Zenon
    <3> QED
      BY <3>1
  <2>5. InOrder(InFlight[1], InFlight[i])
    BY <2>1, <2>4, Zenon DEF MessagesInv
  <2> QED
    BY <1>3, <2>1, <2>2, <2>3, <2>5, Zenon DEF InOrder
<1> QED
  BY <1>2, <1>3, Zenon DEF MessagesInv

\* A unit that may fail for doc scraping is waited for as a whole.
LEMMA ScrapedWhole ==
  ASSUME TypeOK, NEW u \in Unit, u \in build.scrape
  PROVE  ~RmetaRequired(u)
<1>1. build \in Builds
  BY Zenon DEF TypeOK
<1> QED
  BY <1>1, ScrapeNotBuilt, SMTT(30) DEF RmetaRequired, OnlyRequiresRmeta

\* A finished job is taken from the active ones with its warnings.
LEMMA HandleAllKeepsHandled ==
  ASSUME TypeOK, GraphInv, JobsInv, MessagesInv, HandledInv,
         NEW u \in Unit, NEW ok \in BOOLEAN, HandleAll(u, ok)
  PROVE  HandledInv'
<1>1. /\ job[u] = "done" /\ UNCHANGED <<build, job, outcome, rmeta, linted>> /\ active' = active \ {u}
      /\ lint_warnings' = (lint_warnings \/ u \in linted)
      /\ TakeEvent(FinishMsg(u, "All", ok)) /\ messages' = messages
  BY HandleAllKeepsJobs, Zenon DEF HandleAll, jobs
<1>2. ok <=> outcome[u] = "ok"
  BY <1>1, HandlesFinish, Zenon DEF Artifact
<1>3. /\ \A v \in Unit, a \in Artifact : Announced(v, a)' <=> Announced(v, a)
      /\ Announced(u, "All")
      /\ \A v \in Unit : RmetaRequired(v)' <=> RmetaRequired(v)
  BY <1>1 DEF Announced, RmetaRequired, OnlyRequiresRmeta
<1>4. /\ \A v \in linted' : build'.deny_warnings /\ (v \in active' \/ lint_warnings')
      /\ lint_warnings' => build'.deny_warnings
  BY <1>1, Zenon DEF HandledInv
<1>5. \/ UNCHANGED <<finished, failed_scrape_units>>
      \/ /\ finished' = finished \union {<<u, "All">>}
         /\ \/ ok /\ UNCHANGED failed_scrape_units
            \/ u \in build.scrape /\ failed_scrape_units' = failed_scrape_units \union {u}
  BY DEF HandleAll, queue, Q!Finish
<1>6. failed_scrape_units' \subseteq build'.scrape
  BY <1>1, <1>5, SMTT(30) DEF HandledInv
<1>7. \A v \in Unit, a \in Artifact : <<v, a>> \in finished' => Announced(v, a)'
  BY <1>3, <1>5, SMTT(30) DEF HandledInv
<1>8. ASSUME NEW v \in Unit, <<v, "All">> \in finished'
      PROVE  Compiled(v)' /\ v \notin active' /\ (RmetaRequired(v)' => <<v, "Metadata">> \in finished')
  <2>1. CASE <<v, "All">> \in finished
    BY <2>1, <1>1, <1>3, <1>5, SMTT(30) DEF HandledInv, Compiled
  <2>2. CASE v = u /\ finished' = finished \union {<<u, "All">>}
    <3>1. CASE ok /\ UNCHANGED failed_scrape_units
      BY <2>2, <3>1, <1>1, <1>2, <1>3, MetadataFirst, Zenon DEF Compiled
    <3>2. CASE u \in build.scrape /\ failed_scrape_units' = failed_scrape_units \union {u}
      BY <2>2, <3>2, <1>1, <1>3, ScrapedWhole, SMTT(30) DEF Compiled
    <3>3. CASE UNCHANGED <<finished, failed_scrape_units>>
      BY <2>1, <1>8, <3>3, SMTT(30)
    <3> QED
      BY <3>1, <3>2, <3>3, <1>5, SMTT(30)
  <2> QED
    BY <2>1, <2>2, <1>5, <1>8, SMTT(30)
<1> QED
  BY <1>4, <1>6, <1>7, <1>8, Zenon DEF HandledInv

\* Every step keeps what is known of what was handled.
LEMMA HandledStep ==
  ASSUME TypeOK, GraphInv, LoopInv, JobsInv, MessagesInv, HandledInv, JQNext
  PROVE  HandledInv'
<1>1. CASE \/ \E u \in Unit : Enqueue(u) \/ DequeueUnit(u)
           \/ Execute \/ DequeueNone \/ NoteWorkingOnFails \/ FreshJobReturns \/ StartNone
           \/ TryPopAll \/ Pop \/ TruncateTokens \/ EventsHandled \/ Jobserver
  <2>1. UNCHANGED <<build, finished, active, job, outcome, rmeta, failed_scrape_units, linted, lint_warnings>>
    BY <1>1, Zenon DEF Enqueue, DequeueUnit, Execute, DequeueNone, NoteWorkingOnFails, FreshJobReturns,
                StartNone, TryPopAll, Pop, TruncateTokens, EventsHandled, Jobserver, HelperAcquires,
                HelperFails, OthersAcquire, OthersRelease, drain, report, jobs,
                queue, Q!Queue, Q!Dequeue, Q!QueueFinished
  <2> QED
    BY <2>1, HandledStays, SMTT(30) DEF Announced
<1>2. CASE \/ \E u \in Unit : HandleFails(u) \/ HandleNote(u)
           \/ \E ok \in BOOLEAN : HandleToken(ok)
  <2>1. UNCHANGED <<build, finished, active, job, outcome, rmeta, failed_scrape_units, linted, lint_warnings>>
    BY <1>2, Zenon DEF HandleFails, HandleNote, HandleToken, report, jobs, queue
  <2> QED
    BY <2>1, HandledStays DEF Announced
<1>3. ASSUME NEW u \in Unit, StartJob(u) PROVE HandledInv'
  <2>1. job[u] = "idle"
    BY <1>3, StartKeepsJobs, Zenon
  <2>2. \A a \in Artifact : ~Announced(u, a) /\ <<u, a>> \notin finished
    BY <2>1, AnnouncedStarted DEF HandledInv
  <2>3. /\ UNCHANGED <<build, finished, outcome, failed_scrape_units, linted, lint_warnings>>
        /\ active' = active \union {u}
        /\ \A v \in Unit \ {u} : job'[v] = job[v] /\ rmeta'[v] = rmeta[v]
    BY <1>3, Zenon DEF StartJob, TypeOK, queue, report
  <2>4. \A v \in Unit, a \in Artifact : Announced(v, a) => Announced(v, a)'
    BY <2>2, <2>3, Zenon DEF Announced
  <2> QED
    BY <2>2, <2>3, <2>4, HandledStays, SMTT(30) DEF Artifact
<1>4. ASSUME NEW u \in Unit, NEW b \in BOOLEAN, HandleDiagnostic(u, b) PROVE HandledInv'
  <2>1. /\ UNCHANGED <<build, finished, active, job, outcome, rmeta, failed_scrape_units, lint_warnings>>
        /\ linted' = IF b THEN linted \union {u} ELSE linted
        /\ TakeEvent(Diagnostic(u, b)) /\ messages' = messages
    BY <1>4 DEF HandleDiagnostic, jobs, queue
  <2>2. u \in active /\ (b => build.deny_warnings)
    <3>1. MessageInv(Diagnostic(u, b))
      BY <2>1, Takes, SMTT(30) DEF MessagesInv
    <3>2. /\ Diagnostic(u, b).kind = "Diagnostic" /\ Diagnostic(u, b).unit = u
          /\ Diagnostic(u, b).lint = b
      BY MessagesTyped DEF Artifact
    <3> QED
      BY <3>1, <3>2, SMTT(30) DEF MessageInv
  <2>3. \A v, a : Announced(v, a)' <=> Announced(v, a)
    BY <2>1, Zenon DEF Announced
  <2>4. \A v : RmetaRequired(v)' <=> RmetaRequired(v)
    BY <2>1, Zenon DEF RmetaRequired, OnlyRequiresRmeta
  <2> QED
    BY <2>1, <2>2, <2>3, <2>4, SMTT(30) DEF HandledInv, Compiled
<1>5. ASSUME NEW u \in Unit, HandleMetadata(u) PROVE HandledInv'
  <2>1. /\ UNCHANGED <<build, active, job, outcome, rmeta, failed_scrape_units, linted, lint_warnings>>
        /\ finished' = finished \union {<<u, "Metadata">>}
    BY <1>5 DEF HandleMetadata, jobs, report, Q!Finish
  <2>2. Announced(u, "Metadata")
    BY <1>5, HandlesFinish, Zenon DEF HandleMetadata, Artifact
  <2>3. \A v, a : Announced(v, a)' <=> Announced(v, a)
    BY <2>1 DEF Announced
  <2>4. \A v : RmetaRequired(v)' <=> RmetaRequired(v)
    BY <2>1 DEF RmetaRequired, OnlyRequiresRmeta
  <2> QED
    BY <2>1, <2>2, <2>3, <2>4, ZenonT(30) DEF HandledInv, Compiled
<1>6. ASSUME NEW u \in Unit, NEW ok \in BOOLEAN, HandleAll(u, ok) PROVE HandledInv'
  BY <1>6, HandleAllKeepsHandled, SMTT(30)
<1>7. CASE Drained
  <2>1. /\ UNCHANGED <<build, finished, active, job, outcome, rmeta, failed_scrape_units, linted>>
        /\ active = {}
        /\ lint_warnings' \in {lint_warnings, build.deny_warnings}
    BY <1>7, Zenon DEF Drained, jobs, queue, LoopInv
  <2>2. \A v, a : Announced(v, a)' <=> Announced(v, a)
    BY <2>1, Zenon DEF Announced
  <2>3. \A v : RmetaRequired(v)' <=> RmetaRequired(v)
    BY <2>1, Zenon DEF RmetaRequired, OnlyRequiresRmeta
  <2>4. /\ \A v \in linted' : build'.deny_warnings /\ (v \in active' \/ lint_warnings')
        /\ lint_warnings' => build'.deny_warnings
    BY <2>1 DEF HandledInv
  <2> QED
    BY <2>1, <2>2, <2>3, <2>4, SMTT(30) DEF HandledInv, Compiled
<1>8. ASSUME NEW u \in Unit, JobThread(u) PROVE HandledInv'
  <2>1. /\ UNCHANGED <<build, finished, active, failed_scrape_units, linted, lint_warnings>>
        /\ \A v \in Unit \ {u} : outcome'[v] = outcome[v]
    BY <1>8, ThreadsApart, SMTT(30) DEF drain, report, queue
  <2>2. /\ \A v \in Unit, a \in Artifact : Announced(v, a) => Announced(v, a)'
        /\ ~Announced(u, "All")
    BY <1>8, AnnouncedStays, SMTT(30)
  <2>3. <<u, "All">> \notin finished
    BY <2>2, Zenon DEF HandledInv, Artifact
  <2> QED
    BY <2>1, <2>2, <2>3, HandledStays, SMTT(30)
<1> QED
  BY <1>1, <1>2, <1>3, <1>4, <1>5, <1>6, <1>7, <1>8, SMTT(30)
      DEF JQNext, MainThread, Spawning, Handling

-----------------------------------------------------------------------------
(* The end of a build. *)

\* The drain loop ends when nothing is ready and nothing pending, unless it was stopped.
LEMMA NothingPending ==
  ASSUME TypeOK, LoopInv, drain_at = "end", ~Stopped, ~Dropped
  PROVE  active = {} /\ Q!Ready = {} /\ pending_queue = <<>>
<1>1. active = {}
  BY DEF LoopInv
<1>2. HasExtraTokens
  <2>1. Cardinality(active) = 0 /\ tokens \in Nat
    BY <1>1, FS_EmptySet, Zenon DEF TypeOK
  <2> QED
    BY <2>1 DEF HasExtraTokens
<1> QED
  BY <1>1, <1>2, SMTT(30) DEF LoopInv

\* Then every job that was handed out has ended.
LEMMA AllEnded ==
  ASSUME TypeOK, JobsInv, active = {}, pending_queue = <<>>, ~Dropped, NEW u \in Unit, u \in Q!Dequeued
  PROVE  job[u] = "done"
<1>1. JobInv(u)
  BY DEF JobsInv
<1>2. job[u] \in {"idle", "running", "pushing", "synthesize", "finish", "done"}
  BY Zenon DEF TypeOK
<1>3. job[u] # "idle"
  BY <1>1 DEF JobInv
<1> QED
  BY <1>1, <1>2, <1>3, SMTT(30) DEF JobInv

\* Without an error, every artifact that somebody waits for has been produced.
LEMMA AllProduced ==
  ASSUME TypeOK, GraphInv, JobsInv, HandledInv, active = {}, pending_queue = <<>>, ~errors,
         NEW u \in Unit, u \in Q!Dequeued
  PROVE  /\ <<u, "All">> \in finished
         /\ RmetaRequired(u) => <<u, "Metadata">> \in finished
         /\ Compiled(u)
<1>1. job[u] = "done"
  BY AllEnded DEF Dropped
<1>2. JobInv(u)
  BY DEF JobsInv
<1>3. <<u, "All">> \in finished
  BY <1>1, <1>2, SMTT(30) DEF JobInv
<1> QED
  BY <1>3 DEF HandledInv

\* So nothing is left in the queue: in what is left one unit depends on nothing that is
\* left, and what it waits for has been produced.
LEMMA NothingLeft ==
  ASSUME TypeOK, GraphInv, LoopInv, JobsInv, HandledInv, drain_at = "end", ~errors
  PROVE  DOMAIN dep_map = {} /\ pending_queue = <<>> /\ active = {}
<1>1. active = {} /\ Q!Ready = {} /\ pending_queue = <<>>
  BY NothingPending DEF Stopped, Dropped
<1>2. ASSUME DOMAIN dep_map # {} PROVE FALSE
  <2>1. /\ DOMAIN dep_map \subseteq DOMAIN cost /\ DOMAIN cost \subseteq Unit
        /\ \A u \in DOMAIN dep_map : dep_map[u] = Q!DepsOf(u) \ finished
    BY DEF GraphInv, Q!DQInv, Q!DQTypeOK, Q!AwaitsTheRest
  <2>2. PICK n \in DOMAIN dep_map :
          \A m \in DOMAIN dep_map, e \in Artifact : n \notin reverse_dep_map[m][e]
    <3>1. Q!Acyclic
      BY DEF GraphInv
    <3>2. DOMAIN dep_map \in SUBSET Unit
      BY <2>1
    <3> QED
      BY <3>1, <3>2, <1>2, Zenon DEF Q!Acyclic
  <2>3. dep_map[n] # {}
    BY <1>1 DEF Q!Ready
  <2>4. PICK p \in Q!DepsOf(n) : p \notin finished
    BY <2>1, <2>3, SMTT(30)
  <2>5. p \in Unit \X Artifact /\ n \in reverse_dep_map[p[1]][p[2]]
    BY <2>4 DEF Q!DepsOf, Q!Pair
  <2>6. p[1] \in Q!Dequeued
    <3>1. p[1] \in DOMAIN cost
      BY <2>1, <2>4, SMTT(30) DEF GraphInv
    <3> QED
      BY <2>2, <2>5, <3>1, SMTT(30) DEF Q!Dequeued
  <2>7. p = <<p[1], p[2]>> /\ p[1] \in Unit /\ p[2] \in {"All", "Metadata"}
    BY <2>5 DEF Artifact
  <2>8. /\ <<p[1], "All">> \in finished
        /\ RmetaRequired(p[1]) => <<p[1], "Metadata">> \in finished
    BY <1>1, <2>6, <2>7, AllProduced, SMTT(30)
  <2>9. p[2] = "Metadata" => RmetaRequired(p[1])
    <3>1. p \in QueueDeps(n) /\ n \in Unit
      BY <2>1, <2>4, SMTT(30) DEF GraphInv
    <3>2. p[2] = "Metadata" => p[1] \in build.deps[n] /\ OnlyRequiresRmeta(n, p[1])
      BY <3>1, QueueDepsTyped, Zenon DEF TypeOK
    <3> QED
      BY <3>1, <3>2, SMTT(30) DEF RmetaRequired
  <2> QED
    BY <2>4, <2>7, <2>8, <2>9, SMTT(30)
<1> QED
  BY <1>1, <1>2, SMTT(30)

\* The result of the build is the truth about it.
LEMMA DrainedTellsTheTruth ==
  ASSUME TypeOK, GraphInv, LoopInv, JobsInv, HandledInv, Drained
  PROVE  OutcomeRight'
<1>1. /\ drain_at = "end"
      /\ UNCHANGED <<build, dep_map, reverse_dep_map, cost, finished, linted, failed_scrape_units, job, outcome>>
      /\ result' = IF errors' THEN "err"
                   ELSE IF DOMAIN dep_map # {} \/ pending_queue # <<>> THEN "jobs left"
                   ELSE IF lint_warnings' THEN "err"
                   ELSE "ok"
  BY Zenon DEF Drained, queue, jobs
<1>2. DOMAIN cost = build.units /\ DOMAIN cost \subseteq Unit
  BY <1>1, Zenon DEF GraphInv, Q!DQInv, Q!DQTypeOK
<1>3. /\ \A u \in Unit : Compiled(u)' <=> Compiled(u)
      /\ \A u : Q!DepsOf(u)' = Q!DepsOf(u)
  BY <1>1, Zenon DEF Compiled, Q!DepsOf
<1>4. ~errors' => ~errors
  BY Zenon DEF Drained, TypeOK
<1>5. ~errors' => DOMAIN dep_map = {} /\ pending_queue = <<>> /\ active = {}
  BY <1>1, <1>4, NothingLeft, SMTT(30)
<1>6. ASSUME result' = "ok" PROVE (\A u \in build'.units : Compiled(u)') /\ linted' = {}
  <2>1. ~errors' /\ ~lint_warnings'
    BY <1>1, <1>6, SMTT(30)
  <2>2. \A u \in build.units : Compiled(u)
    BY <1>2, <1>4, <1>5, <2>1, AllProduced, Zenon DEF Q!Dequeued
  <2>3. linted = {}
    <3>1. \A u \in linted : build.deny_warnings /\ lint_warnings
      BY <1>5, <2>1, Zenon DEF HandledInv
    <3>2. lint_warnings' = lint_warnings \/ lint_warnings' = build.deny_warnings
      BY Zenon DEF Drained
    <3> QED
      BY <2>1, <3>1, <3>2, SMTT(30)
  <2> QED
    BY <1>1, <1>2, <1>3, <2>2, <2>3, Zenon
<1>7. result' # "jobs left"
  BY <1>1, <1>5, Zenon
<1>8. ASSUME build.keep_going, ~build.io_fails, NEW u \in build.units, Q!DepsOf(u) \subseteq finished
      PROVE  job[u] = "done"
  <2>1. ~Stopped /\ ~Dropped
    BY <1>8 DEF Stopped, Dropped
  <2>2. active = {} /\ Q!Ready = {} /\ pending_queue = <<>>
    BY <1>1, <2>1, NothingPending, Zenon
  <2>3. u \in Q!Dequeued
    <3>1. \A v \in DOMAIN dep_map : dep_map[v] = Q!DepsOf(v) \ finished
      BY DEF GraphInv, Q!DQInv, Q!AwaitsTheRest
    <3> QED
      BY <1>2, <1>8, <2>2, <3>1, SMTT(30) DEF Q!Ready, Q!Dequeued
  <2> QED
    BY <1>2, <2>1, <2>2, <2>3, AllEnded, SMTT(30)
<1>9. KeepsGoing'
  <2>1. \A u : Q!DepsOf(u)' = Q!DepsOf(u)
    BY <1>1, Zenon DEF Q!DepsOf
  <2> QED
    BY <1>1, <1>8, <2>1, Zenon DEF KeepsGoing
<1> QED
  BY <1>6, <1>7, <1>9, Zenon DEF OutcomeRight, ResultIsTrue

\* Every step keeps it, for nothing of it changes afterwards.
LEMMA OutcomeStep ==
  ASSUME TypeOK, GraphInv, LoopInv, JobsInv, HandledInv, OutcomeRight, LoopInv', JQNext
  PROVE  OutcomeRight'
<1>1. CASE drain_at' # "done"
  BY <1>1, Zenon DEF LoopInv, OutcomeRight, ResultIsTrue, KeepsGoing
<1>2. CASE Drained
  BY <1>2, DrainedTellsTheTruth
<1>3. CASE drain_at' = "done" /\ ~Drained
  <2>1. Jobserver \/ \E u \in Unit : JobThread(u)
    BY <1>3, Zenon DEF JQNext, MainThread, Spawning, Handling, Enqueue, Execute, DequeueUnit, DequeueNone,
                StartJob, NoteWorkingOnFails, FreshJobReturns, StartNone, TryPopAll, TruncateTokens, Pop,
                HandleFails, HandleNote, HandleMetadata, HandleDiagnostic, HandleAll, HandleToken,
                EventsHandled, TakeEvent, AfterSpawn, drain
  <2>2. ASSUME NEW u \in Unit, JobThread(u) PROVE FALSE
    <3>1. drain_at = "done"
      BY <1>3, <2>2, ThreadsApart, Zenon DEF drain
    <3>2. job[u] \notin {"idle", "done"} /\ job[u] \in {"idle", "running", "pushing", "synthesize", "finish", "done"}
      BY <2>2, ThreadsApart, Zenon DEF TypeOK
    <3>3. JobInv(u)
      BY DEF JobsInv
    <3> QED
      BY <3>1, <3>2, <3>3, Zenon DEF JobInv, LoopInv
  <2>3. UNCHANGED <<build, reverse_dep_map, finished, drain, job, outcome>>
    BY <2>1, <2>2, Zenon DEF Jobserver, HelperAcquires, HelperFails, OthersAcquire, OthersRelease, queue, jobs
  <2>4. /\ \A u : Compiled(u)' <=> Compiled(u)
        /\ \A u : Q!DepsOf(u)' = Q!DepsOf(u)
    BY <2>3 DEF Compiled, Q!DepsOf, drain, report
  <2> QED
    BY <2>3, <2>4, Zenon DEF OutcomeRight, ResultIsTrue, KeepsGoing, drain, report
<1> QED
  BY <1>1, <1>2, <1>3, SMTT(30)

-----------------------------------------------------------------------------
(* The theorems. *)

\* The invariant holds at the start.
LEMMA InitHolds == JQInit => JQInv
<1> SUFFICES ASSUME JQInit PROVE JQInv
  OBVIOUS
<1>1. TypeOK
  <2>1. Jobs - 1 \in Nat
    BY JobsPositive
  <2>2. <<>> \in Seq(Unit) /\ <<>> \in Seq(Message)
    OBVIOUS
  <2> QED
    BY <2>1, <2>2, Zenon DEF JQInit, TypeOK
<1>2. /\ dep_map = Q!EmptyMap /\ cost = Q!EmptyMap /\ priority = Q!EmptyMap /\ finished = {}
      /\ reverse_dep_map = [n \in Unit |-> [e \in Artifact |-> {}]]
  BY DEF JQInit, Q!DQInit
<1>3. DOMAIN cost = {} /\ DOMAIN dep_map = {} /\ DOMAIN priority = {}
  BY <1>2, SMTT(30) DEF Q!EmptyMap
<1>4. GraphInv
  <2>1. Q!DQInv
    BY <1>2, <1>3, SMTT(30) DEF Q!DQInv, Q!DQTypeOK, Q!AwaitsTheRest, Q!DequeuedReady, Q!PreparedFirst,
                      Q!Dequeued, Q!Prepared, Q!EmptyMap
  <2> QED
    BY <1>3, <2>1, SMTT(30) DEF GraphInv, Q!Prepared, JQInit
<1>5. LoopInv
  BY DEF JQInit, LoopInv, Stopped
<1>6. JobsInv
  BY <1>3 DEF JQInit, JobsInv, PendingInv, JobInv, Q!Dequeued
<1>7. InFlight = <<>>
  BY DEF JQInit, InFlight
<1>8. MessagesInv
  <2>1. \A u \in Unit : ~Announced(u, "Metadata")
    BY DEF JQInit, Announced
  <2>2. DOMAIN InFlight = {}
    BY <1>7, SMTT(30)
  <2> QED
    BY <2>1, <2>2, SMTT(30) DEF MessagesInv
<1>9. HandledInv
  BY <1>2 DEF JQInit, HandledInv
<1>10. TokensAccounted
  <2>1. TokensIn(InFlight) = 0
    <3>1. <<>> \in Seq(Message)
      OBVIOUS
    <3> QED
      BY <1>7, <3>1, TokensCount, Zenon
  <2>2. Cardinality(active) = 0
    BY FS_EmptySet DEF JQInit
  <2>3. available + others + tokens + TokensIn(InFlight) = Jobs - 1
    BY <2>1, JobsPositive, SMTT(30) DEF JQInit
  <2>4. Len(pending_queue) = 0 /\ tokens = 0 /\ requested = 0
    BY DEF JQInit
  <2> QED
    BY <2>1, <2>2, <2>3, <2>4, Account, SMTT(30)
<1>11. OutcomeRight
  BY DEF JQInit, OutcomeRight, ResultIsTrue, KeepsGoing
<1> QED
  BY <1>1, <1>4, <1>5, <1>6, <1>8, <1>9, <1>10, <1>11, SMTT(30) DEF JQInv

\* A step that changes nothing keeps the invariant.
LEMMA StutterHolds == JQInv /\ UNCHANGED jqvars => JQInv'
<1> SUFFICES ASSUME JQInv, UNCHANGED jqvars PROVE JQInv'
  OBVIOUS
<1>1. UNCHANGED <<build, queue, drain, messages, tokens, jobs, jobserver>>
  BY DEF jqvars
<1>2. TypeOK'
  BY <1>1, Zenon DEF JQInv, TypeOK, drain, report, jobs, jobserver
<1>3. GraphInv'
  BY <1>1, GraphStays, SMTT(30) DEF JQInv, drain
<1>4. LoopInv'
  BY <1>1, LoopStays, SMTT(30) DEF JQInv, queue
<1>5. JobsInv'
  <2>1. Q!Dequeued' = Q!Dequeued
    BY <1>1 DEF Q!Dequeued, queue
  <2> QED
    BY <1>1, <2>1, JobsStay, SMTT(30) DEF JQInv, drain, jobs, queue
<1>6. InFlight' = InFlight
  BY <1>1 DEF InFlight, drain
<1>7. MessagesInv'
  BY <1>1, <1>6, MessagesStay, SMTT(30) DEF JQInv, drain, jobs, queue
<1>8. HandledInv'
  <2>1. \A u, a : Announced(u, a)' <=> Announced(u, a)
    BY <1>1, SMTT(30) DEF Announced, jobs
  <2> QED
    BY <1>1, <2>1, HandledStays, SMTT(30) DEF JQInv, drain, report, jobs, queue
<1>9. TokensAccounted'
  BY <1>1, <1>6, TokensStay, SMTT(30) DEF JQInv, Asked, drain
<1>10. OutcomeRight'
  <2>1. /\ \A u : Compiled(u)' <=> Compiled(u)
        /\ \A u : Q!DepsOf(u)' = Q!DepsOf(u)
    BY <1>1 DEF Compiled, Q!DepsOf, drain, report, jobs, queue
  <2> QED
    BY <1>1, <2>1, Zenon DEF JQInv, OutcomeRight, ResultIsTrue, KeepsGoing, drain, report, jobs, queue
<1> QED
  BY <1>2, <1>3, <1>4, <1>5, <1>7, <1>8, <1>9, <1>10, SMTT(30) DEF JQInv

\* The inductive invariant holds of every execution of the job queue.
THEOREM JQInvariant == JQSpec => []JQInv
<1>1. JQInv /\ JQNext => JQInv'
  <2> SUFFICES ASSUME JQInv, JQNext PROVE JQInv'
    OBVIOUS
  <2>1. TypeOK /\ GraphInv /\ LoopInv /\ JobsInv /\ MessagesInv /\ HandledInv /\ TokensAccounted /\ OutcomeRight
    BY DEF JQInv
  <2>2. TypeOK' /\ GraphInv' /\ LoopInv' /\ JobsInv'
    BY <2>1, TypeStep, GraphStep, LoopStep, JobsStep, SMTT(30)
  <2>3. MessagesInv' /\ HandledInv' /\ TokensAccounted'
    BY <2>1, MessagesStep, HandledStep, TokensStep, SMTT(30)
  <2>4. OutcomeRight'
    BY <2>1, <2>2, OutcomeStep, SMTT(30)
  <2> QED
    BY <2>2, <2>3, <2>4, SMTT(30) DEF JQInv
<1>2. JQInv /\ [JQNext]_jqvars => JQInv'
  BY <1>1, StutterHolds, SMTT(30)
<1> QED
  BY InitHolds, <1>2, PTL DEF JQSpec

\* A unit is started when what it compiles and links against is there.
LEMMA InputsThere == JQInv => InputsReady
<1> SUFFICES ASSUME JQInv, NEW u \in Unit, job[u] # "idle"
             PROVE  /\ u \in build.upstream => \A v \in LinksAgainst(u) : Compiled(v)
                    /\ \A d \in DirectDeps(u) :
                         Compiled(d) \/ (OnlyRequiresRmeta(u, d) /\ rmeta[d] = "produced")
  BY DEF InputsReady
<1>1. u \in Q!Dequeued
  BY Zenon DEF JQInv, JobsInv, JobInv
<1>2. QueueDeps(u) \subseteq finished
  BY <1>1 DEF JQInv, GraphInv, Q!DQInv, Q!DequeuedReady, Q!Dequeued
<1>3. /\ \A v \in Unit : <<v, "All">> \in finished => Compiled(v)
      /\ \A v \in Unit : <<v, "Metadata">> \in finished => Announced(v, "Metadata")
  BY Zenon DEF JQInv, HandledInv, Artifact
<1>4. build.deps[u] \subseteq Unit
  BY BuildTyped, Zenon DEF JQInv, TypeOK
<1>5. ASSUME u \in build.upstream, NEW v \in DirectDeps(u) \union DepsOfDeps(u) PROVE Compiled(v)
  <2>1. v \in Unit
    BY <1>4, SMTT(30) DEF DirectDeps, DepsOfDeps
  <2>2. <<v, "All">> \in finished
    BY <1>2, <1>5, SMTT(30) DEF QueueDeps
  <2> QED
    BY <1>3, <2>1, <2>2, SMTT(30)
<1>6. LinksAgainst(u) \subseteq DirectDeps(u) \union DepsOfDeps(u)
  BY Zenon DEF LinksAgainst, DepsOfDeps, DirectDeps
<1>7. ASSUME NEW d \in DirectDeps(u), u \notin build.upstream
      PROVE  Compiled(d) \/ (OnlyRequiresRmeta(u, d) /\ rmeta[d] = "produced")
  <2>1. d \in Unit
    BY <1>4, SMTT(30) DEF DirectDeps
  <2>2. <<d, IF OnlyRequiresRmeta(u, d) THEN "Metadata" ELSE "All">> \in finished
    BY <1>2, <1>7, SMTT(30) DEF QueueDeps
  <2>3. CASE OnlyRequiresRmeta(u, d)
    <3>1. Announced(d, "Metadata")
      BY <1>3, <2>1, <2>2, <2>3, SMTT(30)
    <3> QED
      BY <2>3, <3>1, SMTT(30) DEF Announced, Compiled
  <2>4. CASE ~OnlyRequiresRmeta(u, d)
    BY <1>3, <2>1, <2>2, <2>4, SMTT(30)
  <2> QED
    BY <2>3, <2>4, SMTT(30)
<1> QED
  BY <1>5, <1>6, <1>7, SMTT(30)

\* Each artifact of a unit is announced once.
LEMMA AnnouncedOnce == JQInv => FinishOnce
<1> SUFFICES ASSUME JQInv, NEW i \in DOMAIN InFlight, InFlight[i].kind = "Finish"
             PROVE  /\ InFlight[i].unit \in Q!Dequeued
                    /\ <<InFlight[i].unit, InFlight[i].artifact>> \notin finished
                    /\ \A j \in i + 1 .. Len(InFlight) :
                         InFlight[j].kind = "Finish" /\ InFlight[j].unit = InFlight[i].unit
                         => InFlight[j].artifact # InFlight[i].artifact
  BY DEF FinishOnce
<1>1. TypeOK /\ JobsInv /\ MessagesInv
  BY DEF JQInv
<1>2. InFlight \in Seq(Message)
  BY <1>1, InFlightTyped, SMTT(30)
<1>3. PICK m \in Message : m = InFlight[i]
  BY <1>2, SMTT(30)
<1>4. m.unit \in Unit /\ m.artifact \in Artifact
  BY <1>3, MessageFields, SMTT(30)
<1>5. MessageInv(m)
  BY <1>1, <1>3, SMTT(30) DEF MessagesInv
<1>6. m.unit \in Q!Dequeued /\ <<m.unit, m.artifact>> \notin finished
  BY <1>1, <1>3, <1>4, <1>5, AnnouncedStarted, SMTT(30) DEF MessageInv
<1>7. ASSUME NEW j \in i + 1 .. Len(InFlight), InFlight[j].kind = "Finish", InFlight[j].unit = m.unit
      PROVE  InFlight[j].artifact # m.artifact
  <2>1. j \in DOMAIN InFlight /\ i < j
    BY <1>2, SMTT(30)
  <2>2. InOrder(m, InFlight[j])
    BY <1>1, <1>3, <2>1, SMTT(30) DEF MessagesInv
  <2> QED
    BY <1>3, <1>7, <2>2, SMTT(30) DEF InOrder
<1> QED
  BY <1>3, <1>6, <1>7, SMTT(30)

\* Pipelining starts no unit before its inputs are there, for a linked unit everything
\* below it in full, and every artifact is reported to the dependency queue once.
THEOREM JobsSafe == JQSpec => []JobsRight
<1>1. JQInv => JobsRight
  BY InputsThere, AnnouncedOnce, SMTT(30) DEF JobsRight
<1> QED
  BY <1>1, JQInvariant, PTL

\* The contract of DependencyQueue is kept: neither the unwrap nor the assertion of its
\* finish fails for the messages the drain loop handles.
THEOREM HandlingNeverPanics == JQSpec => []Q!FinishNeverPanics
<1>1. JQInv => Q!FinishNeverPanics
  BY Q!NoPanic, UnitsFiniteThere, SMTT(30) DEF JQInv, GraphInv
<1> QED
  BY <1>1, JQInvariant, PTL

\* Never more jobs than tokens, no token made up, lost, or forgotten for a pending job.
THEOREM TokensSafe == JQSpec => []TokensAccounted
<1>1. JQInv => TokensAccounted
  BY DEF JQInv
<1> QED
  BY <1>1, JQInvariant, PTL

\* A build that says it succeeded compiled everything, none ends with jobs left, and
\* --keep-going runs all that can be run.
THEOREM OutcomeSafe == JQSpec => []OutcomeRight
<1>1. JQInv => OutcomeRight
  BY DEF JQInv
<1> QED
  BY <1>1, JQInvariant, PTL

\* After an error without --keep-going no further job is started.
THEOREM StopsAfterError == JQSpec => NoJobAfterError
<1>1. ASSUME JQInv, JQNext, errors, ~build.keep_going, NEW u \in Unit, job[u] = "idle"
      PROVE  job'[u] = "idle"
  <2>1. TypeOK /\ LoopInv
    BY <1>1, SMTT(30) DEF JQInv
  <2>2. ASSUME NEW v \in Unit, StartJob(v) PROVE FALSE
    BY <1>1, <2>1, <2>2, SMTT(30) DEF StartJob, LoopInv, Stopped
  <2>3. ASSUME NEW v \in Unit, JobThread(v) PROVE job'[u] = job[u]
    BY <1>1, <2>1, <2>3, ThreadsApart, SMTT(30)
  <2>4. CASE ~ \E v \in Unit : StartJob(v) \/ JobThread(v)
    <3>1. job' = job
      BY <1>1, <2>4, ZenonT(30) DEF JQNext, MainThread, Spawning, Handling, Enqueue, Execute, DequeueUnit, DequeueNone,
                NoteWorkingOnFails, FreshJobReturns, StartNone, TryPopAll, TruncateTokens, Pop,
                HandleFails, HandleNote, HandleMetadata, HandleDiagnostic, HandleAll, HandleToken,
                EventsHandled, Drained, Jobserver, HelperAcquires, HelperFails, OthersAcquire,
                OthersRelease, jobs
    <3> QED
      BY <1>1, <3>1, SMTT(30)
  <2> QED
    BY <1>1, <2>2, <2>3, <2>4, SMTT(30)
<1>2. JQInv /\ [JQNext]_jqvars
        => [errors /\ ~build.keep_going => \A u \in Unit : job[u] = "idle" => job'[u] = "idle"]_jqvars
  BY <1>1
<1> QED
  BY <1>2, JQInvariant, PTL DEF JQSpec, NoJobAfterError
=============================================================================
