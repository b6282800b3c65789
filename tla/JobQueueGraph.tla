---------------------------- MODULE JobQueueGraph ----------------------------
(***************************************************************************)
(* The safety of the job queue for every build: any number of units, any   *)
(* acyclic graph between them, any number of tokens, any capacity of the   *)
(* message queue, and jobs, shells and jobservers that fail as they like.  *)
(*                                                                         *)
(* The inductive invariant JQInv has six parts: types, the dependency      *)
(* queue's own invariant with the graph it was filled with, where the loop *)
(* of the main thread is, how far each job is, what the messages in flight *)
(* say of the jobs that sent them, and the account of the tokens.  This    *)
(* module states it and shows that the types, the graph and the place of   *)
(* the loop are kept.  JobQueueJobs does that for the jobs and the tokens, *)
(* JobQueueProofs for the messages; it has the theorems.                   *)
(***************************************************************************)
EXTENDS JobQueue, FiniteSetTheorems, TLAPS

-----------------------------------------------------------------------------
(* The inductive invariant. *)

\* The queue holds the graph of the build, and once it is executed all of it.
GraphInv ==
  /\ Q!DQInv
  /\ \A u \in DOMAIN cost : Q!DepsOf(u) = QueueDeps(u)
  /\ drain_at = "enqueue" => ~Q!Prepared
  /\ drain_at # "enqueue" =>
       /\ Q!Prepared
       /\ DOMAIN cost = build.units
       /\ Q!Acyclic
       /\ \A u \in DOMAIN cost : \A p \in Q!DepsOf(u) : p[1] \in DOMAIN cost

\* Errors after which nothing may be started, or something was dropped.
Stopped == errors /\ ~build.keep_going
Dropped == errors /\ build.io_fails

\* Where the main thread is says what it has done: the loop blocks only while jobs
\* are active and ends only when none is; jobs are started only while nothing
\* stops that; what is ready was dequeued and what is pending lacks a token.
LoopInv ==
  /\ drain_at # "handle" => events = <<>>
  /\ drain_at \in {"wait", "pop"} => active # {}
  /\ drain_at \in {"end", "done"} => active = {}
  /\ drain_at \in {"enqueue", "dequeue", "start", "fresh"} => ~Stopped
  /\ drain_at \in {"start", "fresh", "wait", "pop", "end", "done"} /\ ~Stopped => Q!Ready = {}
  /\ drain_at \in {"wait", "end", "done"} /\ ~Stopped /\ ~Dropped
       => pending_queue = <<>> \/ ~HasExtraTokens
  /\ drain_at # "done" => result = "none"

\* The .rmeta of u was announced, by rustc or in its place.
Announced(u, artifact) ==
  IF artifact = "All" THEN job[u] = "done"
  ELSE \/ rmeta[u] = "produced"
       \/ rmeta[u] = "required" /\ job[u] \in {"finish", "done"} /\ outcome[u] = "ok"

\* How far the job of a unit is.
JobInv(u) ==
  /\ job[u] = "idle" => rmeta[u] = "unneeded"
  /\ job[u] = "synthesize" => rmeta[u] = "required" /\ outcome[u] = "ok"
  /\ job[u] \in {"idle", "running", "pushing"} => outcome[u] = "none"
  /\ job[u] # "idle" => u \in Q!Dequeued /\ (RmetaRequired(u) => rmeta[u] # "unneeded")
  /\ u \in active => job[u] # "idle"
  /\ job[u] \in {"running", "pushing", "synthesize", "finish"} => u \in active
  /\ job[u] = "done" => u \in active \/ <<u, "All">> \in finished \/ errors
  /\ u \in Q!Dequeued /\ job[u] = "idle" =>
       Dropped \/ \E i \in DOMAIN pending_queue : pending_queue[i] = u

\* The pending units are different ones, handed out by the queue and not started.
PendingInv ==
  /\ \A i, j \in DOMAIN pending_queue : pending_queue[i] = pending_queue[j] => i = j
  /\ \A i \in DOMAIN pending_queue :
       pending_queue[i] \in Q!Dequeued /\ job[pending_queue[i]] = "idle"

JobsInv == PendingInv /\ \A u \in Unit : JobInv(u)

\* What a message in flight says of the job that sent it.
MessageInv(m) ==
  /\ m.kind # "Token" => m.unit \in active
  /\ m.kind = "Diagnostic" => (m.lint => build.deny_warnings)
  /\ m.kind = "Finish" =>
       /\ Announced(m.unit, m.artifact)
       /\ <<m.unit, m.artifact>> \notin finished
       /\ m.artifact = "All" => (m.ok <=> outcome[m.unit] = "ok")

\* Of two messages of a unit, the one that ends its job comes last, and none twice.
InOrder(m, n) ==
  m.kind = "Finish" /\ n.kind # "Token" /\ n.unit = m.unit =>
    /\ m.artifact # "All"
    /\ n.kind = "Finish" => n.artifact # m.artifact

MessagesInv ==
  /\ \A i \in DOMAIN InFlight : MessageInv(InFlight[i])
  /\ \A i, j \in DOMAIN InFlight : i < j => InOrder(InFlight[i], InFlight[j])
  /\ \A u \in Unit : Announced(u, "Metadata") =>
       <<u, "Metadata">> \in finished \/ \E i \in DOMAIN InFlight : InFlight[i] = FinishMsg(u, "Metadata", TRUE)

\* What was handled.
HandledInv ==
  /\ \A u \in Unit, a \in Artifact : <<u, a>> \in finished => Announced(u, a)
  /\ \A u \in Unit : <<u, "All">> \in finished =>
       /\ Compiled(u) /\ u \notin active
       /\ RmetaRequired(u) => <<u, "Metadata">> \in finished
  /\ failed_scrape_units \subseteq build.scrape
  /\ \A u \in linted : build.deny_warnings /\ (u \in active \/ lint_warnings)
  /\ lint_warnings => build.deny_warnings

JQInv ==
  /\ TypeOK
  /\ GraphInv
  /\ LoopInv
  /\ JobsInv
  /\ MessagesInv
  /\ HandledInv
  /\ TokensAccounted
  /\ OutcomeRight

-----------------------------------------------------------------------------
(* Sequences. *)

\* The first k elements of a sequence, and the others.
LEMMA Prefix ==
  ASSUME NEW S, NEW s \in Seq(S), NEW k \in 0 .. Len(s)
  PROVE  /\ SubSeq(s, 1, k) \in Seq(S) /\ Len(SubSeq(s, 1, k)) = k
         /\ \A i \in 1 .. k : SubSeq(s, 1, k)[i] = s[i]
OBVIOUS

\* What is left of a sequence after its first k elements.
LEMMA Suffix ==
  ASSUME NEW S, NEW s \in Seq(S), NEW k \in 0 .. Len(s)
  PROVE  /\ SubSeq(s, k + 1, Len(s)) \in Seq(S)
         /\ Len(SubSeq(s, k + 1, Len(s))) = Len(s) - k
         /\ \A i \in 1 .. Len(s) - k : SubSeq(s, k + 1, Len(s))[i] = s[k + i]
OBVIOUS

\* An element inserted behind the first k.
InsertAt(s, k, x) == SubSeq(s, 1, k) \o <<x>> \o SubSeq(s, k + 1, Len(s))

\* A sequence with x put in after its first k elements.
LEMMA InsertedAt ==
  ASSUME NEW S, NEW s \in Seq(S), NEW k \in 0 .. Len(s), NEW x \in S
  PROVE  /\ InsertAt(s, k, x) \in Seq(S)
         /\ Len(InsertAt(s, k, x)) = Len(s) + 1
         /\ InsertAt(s, k, x)[k + 1] = x
         /\ \A i \in 1 .. k : InsertAt(s, k, x)[i] = s[i]
         /\ \A i \in k + 2 .. Len(s) + 1 : InsertAt(s, k, x)[i] = s[i - 1]
<1> DEFINE a == SubSeq(s, 1, k)
           b == SubSeq(s, k + 1, Len(s))
<1>1. /\ a \in Seq(S) /\ Len(a) = k /\ \A i \in 1 .. k : a[i] = s[i]
      /\ b \in Seq(S) /\ Len(b) = Len(s) - k /\ \A i \in 1 .. Len(s) - k : b[i] = s[k + i]
  BY Prefix, Suffix
<1>2. InsertAt(s, k, x) = a \o <<x>> \o b
  BY DEF InsertAt
<1>3. Len(s) \in Nat
  OBVIOUS
<1> HIDE DEF a, b
<1>4. LET c == a \o <<x>> \o b
      IN  /\ c \in Seq(S) /\ Len(c) = Len(s) + 1 /\ c[k + 1] = x
          /\ \A i \in 1 .. k : c[i] = a[i]
          /\ \A i \in k + 2 .. Len(s) + 1 : c[i] = b[i - k - 1]
  BY <1>1, <1>3
<1>5. \A i \in k + 2 .. Len(s) + 1 : b[i - k - 1] = s[i - 1]
  <2> SUFFICES ASSUME NEW i \in k + 2 .. Len(s) + 1 PROVE b[i - k - 1] = s[i - 1]
    OBVIOUS
  <2>1. i - k - 1 \in 1 .. Len(s) - k /\ k + (i - k - 1) = i - 1
    BY <1>3
  <2> QED
    BY <2>1, <1>1
<1> QED
  BY <1>1, <1>2, <1>4, <1>5, Zenon

\* Inserting adds one element, and none twice.
LEMMA InsertedOnce ==
  ASSUME NEW S, NEW s \in Seq(S), NEW k \in 0 .. Len(s), NEW x \in S
  PROVE  LET c == InsertAt(s, k, x)
         IN  (\A i \in DOMAIN s : s[i] # x) /\ (\A i, j \in DOMAIN s : s[i] = s[j] => i = j) =>
               /\ \A i, j \in DOMAIN c : c[i] = c[j] => i = j
               /\ \A i \in DOMAIN c : c[i] = x \/ \E j \in DOMAIN s : s[j] = c[i]
               /\ \E i \in DOMAIN c : c[i] = x
               /\ \A j \in DOMAIN s : \E i \in DOMAIN c : c[i] = s[j]
<1> DEFINE c == InsertAt(s, k, x)
<1>1. /\ c \in Seq(S) /\ Len(c) = Len(s) + 1 /\ c[k + 1] = x
      /\ \A i \in 1 .. k : c[i] = s[i]
      /\ \A i \in k + 2 .. Len(s) + 1 : c[i] = s[i - 1]
  <2>1. c \in Seq(S)
    BY InsertedAt
  <2>5. c[k + 1] = x
    BY InsertedAt
  <2>2. \A i \in 1 .. k : c[i] = s[i]
    BY InsertedAt
  <2>3. \A i \in k + 2 .. Len(s) + 1 : c[i] = s[i - 1]
    BY InsertedAt
  <2>4. Len(c) = Len(s) + 1
    BY InsertedAt
  <2> QED
    BY <2>1, <2>2, <2>3, <2>4, <2>5
<1> HIDE DEF c
<1> SUFFICES ASSUME \A i \in DOMAIN s : s[i] # x, \A i, j \in DOMAIN s : s[i] = s[j] => i = j
             PROVE  /\ \A i, j \in DOMAIN c : c[i] = c[j] => i = j
                    /\ \A i \in DOMAIN c : c[i] = x \/ \E j \in DOMAIN s : s[j] = c[i]
                    /\ \E i \in DOMAIN c : c[i] = x
                    /\ \A j \in DOMAIN s : \E i \in DOMAIN c : c[i] = s[j]
  BY DEF c
<1>2. DOMAIN s = 1 .. Len(s) /\ Len(s) \in Nat /\ DOMAIN c = 1 .. Len(s) + 1
  BY <1>1
<1>3. ASSUME NEW i \in DOMAIN c
      PROVE  \/ i = k + 1
             \/ i \in 1 .. k /\ i \in DOMAIN s /\ c[i] = s[i]
             \/ i \in k + 2 .. Len(s) + 1 /\ i - 1 \in DOMAIN s /\ c[i] = s[i - 1]
  BY <1>1, <1>2
<1>4. ASSUME NEW i \in DOMAIN c, NEW j \in DOMAIN c, c[i] = c[j] PROVE i = j
  <2>1. CASE i = k + 1 \/ j = k + 1
    BY <2>1, <1>1, <1>3, <1>4
  <2>2. ASSUME i # k + 1, j # k + 1 PROVE i = j
    <3>1. /\ \/ i \in 1 .. k /\ i \in DOMAIN s /\ c[i] = s[i]
             \/ i \in k + 2 .. Len(s) + 1 /\ i - 1 \in DOMAIN s /\ c[i] = s[i - 1]
          /\ \/ j \in 1 .. k /\ j \in DOMAIN s /\ c[j] = s[j]
             \/ j \in k + 2 .. Len(s) + 1 /\ j - 1 \in DOMAIN s /\ c[j] = s[j - 1]
      BY <2>2, <1>3, Zenon
    <3>2. \/ i \in 1 .. k /\ j \in 1 .. k /\ i = j
          \/ i \in 1 .. k /\ j \in k + 2 .. Len(s) + 1 /\ i = j - 1
          \/ i \in k + 2 .. Len(s) + 1 /\ j \in 1 .. k /\ i - 1 = j
          \/ i \in k + 2 .. Len(s) + 1 /\ j \in k + 2 .. Len(s) + 1 /\ i - 1 = j - 1
      BY <3>1, <1>4, Zenon
    <3> QED
      BY <3>2, <1>2
  <2> QED
    BY <2>1, <2>2
<1>5. \A i \in DOMAIN c : c[i] = x \/ \E j \in DOMAIN s : s[j] = c[i]
  BY <1>1, <1>3, Zenon
<1>6. k + 1 \in DOMAIN c /\ c[k + 1] = x
  BY <1>1, <1>2
<1>7. ASSUME NEW j \in DOMAIN s PROVE \E i \in DOMAIN c : c[i] = s[j]
  <2>1. CASE j <= k
    BY <2>1, <1>1, <1>2
  <2>2. CASE j > k
    <3>1. j + 1 \in k + 2 .. Len(s) + 1 /\ j + 1 \in DOMAIN c /\ j + 1 - 1 = j
      BY <2>2, <1>2
    <3> QED
      BY <3>1, <1>1
  <2> QED
    BY <2>1, <2>2, <1>2
<1> QED
  BY <1>4, <1>5, <1>6, <1>7

\* There are at most as many positions of some kind as there are positions.
LEMMA PositionsCount ==
  ASSUME NEW S, NEW s \in Seq(S), NEW T \in SUBSET DOMAIN s
  PROVE  IsFiniteSet(T) /\ Cardinality(T) \in 0 .. Len(s)
<1>1. Len(s) \in Nat /\ DOMAIN s = 1 .. Len(s)
  OBVIOUS
<1>2. \A n \in Nat : IsFiniteSet(1 .. n) /\ Cardinality(1 .. n) = n
  BY FS_Interval
<1> QED
  BY <1>1, <1>2, FS_Subset, FS_CardinalityType

\* An element appended to a queue comes last of two queues in a row.
LEMMA SentLast ==
  ASSUME NEW S, NEW s \in Seq(S), NEW t \in Seq(S), NEW m \in S
  PROVE  s \o Append(t, m) = Append(s \o t, m)
OBVIOUS

\* The head of the first queue is the first of both.
LEMMA TakenFirst ==
  ASSUME NEW S, NEW s \in Seq(S), NEW t \in Seq(S), s # <<>>
  PROVE  /\ s \o t \in Seq(S) /\ s \o t # <<>>
         /\ Head(s) = (s \o t)[1]
         /\ Tail(s) \o t = Tail(s \o t)
<1>1. Head(s) = (s \o t)[1] /\ s \o t \in Seq(S) /\ s \o t # <<>>
  OBVIOUS
<1>2. Tail(s) \o t = Tail(s \o t)
  OBVIOUS
<1> QED
  BY <1>1, <1>2

\* Moving elements from the second queue to an empty first one changes nothing.
LEMMA PoppedSame ==
  ASSUME NEW S, NEW s \in Seq(S)
  PROVE  /\ s \o <<>> = s /\ <<>> \o s = s
         /\ s # <<>> => <<Head(s)>> \o Tail(s) = s
<1>1. s \o <<>> = s /\ <<>> \o s = s
  OBVIOUS
<1>2. ASSUME s # <<>> PROVE <<Head(s)>> \o Tail(s) = s
  BY <1>2
<1> QED
  BY <1>1, <1>2

\* Where t is in a sequence, how often, and what sending and taking do to that.
Occurs(s, t) == {i \in DOMAIN s : s[i] = t}

\* A message occurs finitely often in a queue.
LEMMA CountFinite ==
  ASSUME NEW S, NEW s \in Seq(S), NEW t
  PROVE  IsFiniteSet(Occurs(s, t)) /\ Cardinality(Occurs(s, t)) \in Nat
<1>1. IsFiniteSet(1 .. Len(s)) /\ DOMAIN s = 1 .. Len(s)
  BY FS_Interval
<1>2. IsFiniteSet(Occurs(s, t))
  BY <1>1, FS_Subset DEF Occurs
<1> QED
  BY <1>2, FS_CardinalityType

\* One that is pushed is counted once more.
LEMMA CountAppend ==
  ASSUME NEW S, NEW s \in Seq(S), NEW m \in S, NEW t
  PROVE  Cardinality(Occurs(Append(s, m), t)) = Cardinality(Occurs(s, t)) + (IF m = t THEN 1 ELSE 0)
<1>1. Len(s) \in Nat /\ DOMAIN s = 1 .. Len(s) /\ DOMAIN Append(s, m) = 1 .. (Len(s) + 1)
  OBVIOUS
<1>2. /\ \A i \in 1 .. Len(s) : Append(s, m)[i] = s[i]
      /\ Append(s, m)[Len(s) + 1] = m
  OBVIOUS
<1>3. /\ Occurs(Append(s, m), t) = IF m = t THEN Occurs(s, t) \union {Len(s) + 1} ELSE Occurs(s, t)
      /\ Len(s) + 1 \notin Occurs(s, t)
  BY <1>1, <1>2 DEF Occurs
<1>4. Cardinality(Occurs(s, t) \union {Len(s) + 1}) = Cardinality(Occurs(s, t)) + 1
  BY <1>3, CountFinite, FS_AddElement, Zenon
<1> QED
  BY <1>3, <1>4, CountFinite, SMTT(30)

\* One that is popped is counted once less.
LEMMA CountTail ==
  ASSUME NEW S, NEW s \in Seq(S), s # <<>>, NEW t
  PROVE  Cardinality(Occurs(s, t)) = Cardinality(Occurs(Tail(s), t)) + (IF s[1] = t THEN 1 ELSE 0)
<1> DEFINE T == Occurs(s, t)
           U == Occurs(Tail(s), t)
           f == [i \in U |-> i + 1]
<1>1. /\ Len(s) \in Nat \ {0} /\ Tail(s) \in Seq(S)
      /\ DOMAIN s = 1 .. Len(s) /\ DOMAIN Tail(s) = 1 .. (Len(s) - 1)
      /\ \A i \in 1 .. (Len(s) - 1) : Tail(s)[i] = s[i + 1]
  OBVIOUS
<1>2. f \in Bijection(U, T \ {1})
  <2>1. f \in [U -> T \ {1}]
    BY <1>1 DEF Occurs
  <2>2. \A a, b \in U : f[a] = f[b] => a = b
    BY <1>1 DEF Occurs
  <2>3. \A b \in T \ {1} : b - 1 \in U /\ f[b - 1] = b
    BY <1>1 DEF Occurs
  <2> QED
    BY <2>1, <2>2, <2>3, Zenon DEF Bijection, Injection, Surjection, IsInjective
<1>3. IsFiniteSet(U) /\ IsFiniteSet(T) /\ Cardinality(T) \in Nat
  BY <1>1, CountFinite, Zenon
<1>4. Cardinality(T \ {1}) = Cardinality(U)
  BY <1>2, <1>3, FS_Bijection DEF ExistsBijection
<1>5. Cardinality(T \ {1}) = IF 1 \in T THEN Cardinality(T) - 1 ELSE Cardinality(T)
  BY <1>3, FS_RemoveElement, Zenon
<1>6. 1 \in T <=> s[1] = t
  BY <1>1 DEF Occurs
<1> QED
  BY <1>3, <1>4, <1>5, <1>6, SMTT(30)

-----------------------------------------------------------------------------
(* Messages and sequences of them. *)

\* Every message a job or the helper thread sends is one.
LEMMA MessagesTyped ==
  ASSUME NEW u \in Unit, NEW b \in BOOLEAN, NEW a \in Artifact
  PROVE  /\ Note(u) \in Message /\ Note(u).kind = "Note" /\ Note(u).unit = u
         /\ Diagnostic(u, b) \in Message /\ Diagnostic(u, b).kind = "Diagnostic"
         /\ Diagnostic(u, b).unit = u /\ Diagnostic(u, b).lint = b
         /\ FinishMsg(u, a, b) \in Message /\ FinishMsg(u, a, b).kind = "Finish"
         /\ FinishMsg(u, a, b).unit = u /\ FinishMsg(u, a, b).artifact = a
         /\ FinishMsg(u, a, b).ok = b
         /\ Token(b) \in Message /\ Token(b).kind = "Token"
BY DEF Message, Note, Diagnostic, FinishMsg, Token

\* The message of a unit whose metadata is there.
LEMMA MetadataTyped ==
  ASSUME NEW u \in Unit
  PROVE  /\ FinishMsg(u, "Metadata", TRUE) \in Message /\ FinishMsg(u, "Metadata", TRUE).kind = "Finish"
         /\ FinishMsg(u, "Metadata", TRUE).unit = u /\ FinishMsg(u, "Metadata", TRUE).artifact = "Metadata"
<1>1. FinishMsg(u, "Metadata", TRUE) \in Message
  <2>1. "Metadata" \in Artifact /\ TRUE \in BOOLEAN
    BY DEF Artifact
  <2> QED
    BY <2>1, MessagesTyped, Zenon
<1>2. /\ FinishMsg(u, "Metadata", TRUE).kind = "Finish" /\ FinishMsg(u, "Metadata", TRUE).unit = u
      /\ FinishMsg(u, "Metadata", TRUE).artifact = "Metadata"
  BY DEF FinishMsg
<1> QED
  BY <1>1, <1>2, Zenon

\* Only a message that carries a token is one.
LEMMA OthersCarryNoToken ==
  ASSUME NEW u \in Unit, NEW b \in BOOLEAN, NEW a \in Artifact
  PROVE  /\ Note(u) # Token(TRUE) /\ Diagnostic(u, b) # Token(TRUE)
         /\ FinishMsg(u, a, b) # Token(TRUE) /\ Token(FALSE) # Token(TRUE)
BY DEF Note, Diagnostic, FinishMsg, Token

\* The unit and the artifact of a message are a unit and an artifact.
LEMMA MessageFields ==
  ASSUME NEW m \in Message
  PROVE  /\ m.kind # "Token" => m.unit \in Unit
         /\ m.kind = "Finish" => m.artifact \in Artifact /\ m.ok \in BOOLEAN
         /\ m.kind = "Diagnostic" => m.lint \in BOOLEAN
         /\ m.kind \in {"Note", "Diagnostic", "Finish", "Token"}
BY DEF Message, Note, Diagnostic, FinishMsg, Token

\* The same for the tokens in flight.
LEMMA TokensCount ==
  ASSUME NEW s \in Seq(Message)
  PROVE  /\ TokensIn(s) \in Nat /\ TokensIn(<<>>) = 0
         /\ \A m \in Message :
              TokensIn(Append(s, m)) = TokensIn(s) + (IF m = Token(TRUE) THEN 1 ELSE 0)
         /\ s # <<>> => TokensIn(s) = TokensIn(Tail(s)) + (IF s[1] = Token(TRUE) THEN 1 ELSE 0)
<1>1. \A q : TokensIn(q) = Cardinality(Occurs(q, Token(TRUE)))
  BY DEF TokensIn, Occurs
<1>2. Occurs(<<>>, Token(TRUE)) = {}
  BY DEF Occurs
<1>3. TokensIn(<<>>) = 0
  BY <1>1, <1>2, FS_EmptySet, Zenon
<1>4. TokensIn(s) \in Nat
  BY <1>1, CountFinite, Zenon
<1>5. ASSUME NEW m \in Message
      PROVE  TokensIn(Append(s, m)) = TokensIn(s) + (IF m = Token(TRUE) THEN 1 ELSE 0)
  <2>1. Cardinality(Occurs(Append(s, m), Token(TRUE)))
          = Cardinality(Occurs(s, Token(TRUE))) + (IF m = Token(TRUE) THEN 1 ELSE 0)
    BY CountAppend, ZenonT(30)
  <2> QED
    BY <2>1, <1>1, Zenon
<1>6. ASSUME s # <<>>
      PROVE  TokensIn(s) = TokensIn(Tail(s)) + (IF s[1] = Token(TRUE) THEN 1 ELSE 0)
  <2>1. Cardinality(Occurs(s, Token(TRUE)))
          = Cardinality(Occurs(Tail(s), Token(TRUE))) + (IF s[1] = Token(TRUE) THEN 1 ELSE 0)
    BY <1>6, CountTail, Zenon
  <2> QED
    BY <2>1, <1>1, Zenon
<1> QED
  BY <1>3, <1>4, <1>5, <1>6, Zenon

-----------------------------------------------------------------------------
(* The dependency queue inside. *)

\* queue_finished accepts the graph and sets the priorities.
LEMMA QueueAccepted ==
  ASSUME Q!QueueFinished
  PROVE  /\ ~Q!Prepared /\ DOMAIN dep_map # {} /\ DOMAIN priority' = DOMAIN dep_map
         /\ UNCHANGED <<dep_map, reverse_dep_map, cost, finished>>
         /\ Q!DepsQueued /\ Q!Acyclic
BY DEF Q!QueueFinished

\* The lemmas of the queue's proofs, for the units of the build.
LEMMA UnitsFiniteThere == Q!IsFiniteSet(Unit) /\ {100} \subseteq Nat
BY UnitsFinite DEF Q!IsFiniteSet, IsFiniteSet

\* The edges a unit is queued with are edges between units.
LEMMA QueueDepsTyped ==
  ASSUME build \in Builds, NEW u \in Unit
  PROVE  /\ QueueDeps(u) \subseteq Unit \X Artifact
         /\ \A p \in QueueDeps(u) : p[2] = "Metadata" => p[1] \in build.deps[u] /\ OnlyRequiresRmeta(u, p[1])
<1>1. build.deps \in [Unit -> SUBSET Unit]
  BY BuildsTyped DEF Build
<1>2. DirectDeps(u) \subseteq Unit /\ DirectDeps(u) \subseteq build.deps[u] /\ DepsOfDeps(u) \subseteq Unit
  BY <1>1, Zenon DEF DirectDeps, DepsOfDeps
<1> QED
  BY <1>2 DEF QueueDeps, Artifact

\* What the graph part says stays when neither the queue nor the build changes.
LEMMA GraphStays ==
  ASSUME GraphInv, UNCHANGED <<build, queue>>, drain_at' = "enqueue" <=> drain_at = "enqueue"
  PROVE  GraphInv'
<1> USE DEF queue
<1>1. Q!DQInv' /\ (Q!Prepared' <=> Q!Prepared) /\ (Q!Acyclic' <=> Q!Acyclic)
  BY DEF GraphInv, Q!DQInv, Q!DQTypeOK, Q!AwaitsTheRest, Q!DequeuedReady, Q!PreparedFirst,
         Q!Dequeued, Q!DepsOf, Q!Prepared, Q!Acyclic
<1>2. \A u \in DOMAIN cost : Q!DepsOf(u)' = Q!DepsOf(u)
  BY DEF Q!DepsOf
<1>3. \A u \in DOMAIN cost : QueueDeps(u)' = QueueDeps(u)
  BY DEF QueueDeps, DirectDeps, DepsOfDeps, OnlyRequiresRmeta
<1> QED
  BY <1>1, <1>2, <1>3, SMTT(30) DEF GraphInv

-----------------------------------------------------------------------------
(* Types. *)

\* What the builds say of units, and which units a jobs' state speaks of.
LEMMA BuildTyped ==
  ASSUME build \in Builds
  PROVE  /\ build.units \subseteq Unit /\ build.deps \in [Unit -> SUBSET Unit]
         /\ build.scrape \intersect build.build_mode = {}
         /\ build.keep_going \in BOOLEAN /\ build.deny_warnings \in BOOLEAN
         /\ build.io_fails \in BOOLEAN /\ build.jobserver_fails \in BOOLEAN
BY BuildsTyped, ScrapeNotBuilt DEF Build

\* What is in flight is a sequence of messages.
LEMMA InFlightTyped == TypeOK => InFlight \in Seq(Message)
<1>1. TypeOK => events \in Seq(Message) /\ messages \in Seq(Message)
  BY Zenon DEF TypeOK
<1>2. events \in Seq(Message) /\ messages \in Seq(Message) => events \o messages \in Seq(Message)
  OBVIOUS
<1> QED
  BY <1>1, <1>2 DEF InFlight

\* The units that are active are finitely many.
LEMMA ActiveFinite ==
  ASSUME TypeOK
  PROVE  IsFiniteSet(active) /\ Cardinality(active) \in Nat
BY UnitsFinite, FS_Subset, FS_CardinalityType, Zenon DEF TypeOK

\* insert at partition_point: u is put between pending units that stay in order.
LEMMA Inserted ==
  ASSUME TypeOK, NEW u
  PROVE  \E k \in 0 .. Len(pending_queue) : InsertPending(u) = InsertAt(pending_queue, k, u)
<1> DEFINE I == {i \in DOMAIN pending_queue : priority[pending_queue[i]] <= priority[u]}
<1>1. pending_queue \in Seq(Unit)
  BY Zenon DEF TypeOK
<1>2. Cardinality(I) \in 0 .. Len(pending_queue)
  BY <1>1, PositionsCount
<1> QED
  BY <1>2, Zenon DEF InsertPending, InsertAt

\* pop of pending_queue: all but the last unit stay.
LEMMA Popped ==
  ASSUME TypeOK, pending_queue # <<>>
  PROVE  /\ PopPending \in Seq(Unit)
         /\ Len(pending_queue) \in Nat \ {0}
         /\ Len(PopPending) = Len(pending_queue) - 1
         /\ \A i \in 1 .. Len(pending_queue) - 1 : PopPending[i] = pending_queue[i]
         /\ pending_queue[Len(pending_queue)] \in Unit
<1>1. pending_queue \in Seq(Unit)
  BY Zenon DEF TypeOK
<1>2. Len(pending_queue) \in Nat \ {0} /\ Len(pending_queue) - 1 \in 0 .. Len(pending_queue)
  BY <1>1
<1>3. pending_queue[Len(pending_queue)] \in Unit
  BY <1>1, <1>2, SMTT(30)
<1> QED
  BY <1>1, <1>2, <1>3, Prefix, Zenon DEF PopPending

\* Nobody waits for messages of no job.
LEMMA WaitsForSome ==
  ASSUME TypeOK, active # {}
  PROVE  Cardinality(active) \in Nat \ {0}
BY ActiveFinite, FS_EmptySet, SMTT(30)

\* No step leaves the types.
LEMMA TypeStep ==
  ASSUME TypeOK, LoopInv, JQNext
  PROVE  TypeOK'
<1>a. tokens \in Nat /\ requested \in Nat /\ available \in Nat /\ others \in Nat
  BY Zenon DEF TypeOK
<1>b. messages \in Seq(Message) /\ events \in Seq(Message) /\ pending_queue \in Seq(Unit)
  BY Zenon DEF TypeOK
<1>c. build \in Builds
  BY Zenon DEF TypeOK
<1>1. ASSUME NEW u \in Unit, Enqueue(u) PROVE TypeOK'
  BY <1>1, Zenon DEF TypeOK, Enqueue, drain, report, jobs, jobserver
<1>2. CASE Execute
  BY <1>2, Zenon DEF TypeOK, Execute, report, jobs, jobserver
<1>3. ASSUME NEW u \in Unit, DequeueUnit(u) PROVE TypeOK'
  <2>1. pending_queue' \in Seq(Unit)
    <3>1. PICK k \in 0 .. Len(pending_queue) : pending_queue' = InsertAt(pending_queue, k, u)
      BY <1>3, Inserted DEF DequeueUnit
    <3> QED
      BY <3>1, <1>b, InsertedAt, SMTT(30)
  <2>2. requested' \in Nat
    BY <1>3, <1>a DEF DequeueUnit
  <2> QED
    BY <1>3, <2>1, <2>2, Zenon DEF TypeOK, DequeueUnit, report, jobs
<1>4. ASSUME NEW u \in Unit, StartJob(u) PROVE TypeOK'
  <2>1. pending_queue' \in Seq(Unit)
    BY <1>4, Popped DEF StartJob
  <2> QED
    BY <1>4, <2>1, Zenon DEF TypeOK, StartJob, report, jobserver
<1>5. CASE DequeueNone \/ FreshJobReturns \/ StartNone \/ EventsHandled
  BY <1>5, Zenon DEF TypeOK, DequeueNone, FreshJobReturns, StartNone, EventsHandled, AfterSpawn,
              report, jobs, jobserver
<1>6. CASE NoteWorkingOnFails
  <2>1. pending_queue' \in Seq(Unit)
    BY <1>6, Popped DEF NoteWorkingOnFails
  <2> QED
    BY <1>6, <2>1, Zenon DEF TypeOK, NoteWorkingOnFails, AfterSpawn, report, jobs, jobserver
<1>7. CASE TryPopAll
  <2>1. events' = messages /\ messages' = <<>> /\ <<>> \in Seq(Message)
    BY <1>7 DEF TryPopAll
  <2> QED
    BY <1>7, <2>1, Zenon DEF TypeOK, TryPopAll, report, jobs, jobserver
<1>8. CASE Pop
  <2>1. events' \in Seq(Message) /\ messages' \in Seq(Message)
    BY <1>8, <1>b DEF Pop
  <2> QED
    BY <1>8, <2>1, Zenon DEF TypeOK, Pop, report, jobs, jobserver
<1>9. CASE TruncateTokens
  <2>1. Cardinality(active) \in Nat \ {0}
    BY <1>9, WaitsForSome DEF LoopInv, TruncateTokens
  <2>2. tokens' \in Nat /\ available' \in Nat
    BY <1>9, <2>1, <1>a DEF TruncateTokens
  <2> QED
    BY <1>9, <2>2, Zenon DEF TypeOK, TruncateTokens, report, jobs
<1>10. CASE Drained
  <2>1. TokensIn(messages) \in Nat
    BY <1>b, TokensCount, Zenon
  <2>2. lint_warnings' \in BOOLEAN /\ errors' \in BOOLEAN
    BY <1>10, <1>c, BuildTyped, Zenon DEF Drained, TypeOK
  <2>3. /\ messages' = <<>> /\ tokens' = 0 /\ requested' = 0
        /\ available' = available + tokens + TokensIn(messages)
    BY <1>10, Zenon DEF Drained
  <2>4. tokens' \in Nat /\ available' \in Nat /\ requested' \in Nat /\ messages' \in Seq(Message)
    BY <2>1, <2>3, <1>a, SMTT(30)
  <2>5. result' \in {"none", "ok", "err", "jobs left"}
    BY <1>10, Zenon DEF Drained
  <2> QED
    BY <1>10, <2>2, <2>4, <2>5, Zenon DEF TypeOK, Drained, jobs
<1>11. ASSUME NEW u \in Unit, HandleFails(u) \/ HandleNote(u) \/ HandleMetadata(u)
      PROVE  TypeOK'
  <2>1. events' = Tail(events) /\ events # <<>>
    BY <1>11, Zenon DEF HandleFails, HandleNote, HandleMetadata, TakeEvent
  <2>2. events' \in Seq(Message)
    BY <2>1, <1>b
  <2> QED
    BY <1>11, <2>2, Zenon DEF TypeOK, HandleFails, HandleNote, HandleMetadata, report, jobs, jobserver
<1>12. ASSUME NEW u \in Unit, NEW b \in BOOLEAN, HandleDiagnostic(u, b) \/ HandleAll(u, b)
      PROVE  TypeOK'
  <2>1. events' = Tail(events) /\ events # <<>>
    BY <1>12 DEF HandleDiagnostic, HandleAll, TakeEvent
  <2>2. events' \in Seq(Message)
    BY <2>1, <1>b
  <2>3. CASE HandleDiagnostic(u, b)
    BY <2>3, <2>2, Zenon DEF TypeOK, HandleDiagnostic, report, jobs, jobserver
  <2>4. CASE HandleAll(u, b)
    <3>1. errors' \in BOOLEAN /\ lint_warnings' \in BOOLEAN /\ failed_scrape_units' \in SUBSET Unit
      BY <2>4, Zenon DEF TypeOK, HandleAll
    <3> QED
      BY <2>4, <2>2, <3>1, Zenon DEF TypeOK, HandleAll, jobs, jobserver
  <2> QED
    BY <1>12, <2>3, <2>4, SMTT(30)
<1>13. ASSUME NEW ok \in BOOLEAN, HandleToken(ok) PROVE TypeOK'
  <2>1. events' = Tail(events) /\ events # <<>>
    BY <1>13 DEF HandleToken, TakeEvent
  <2>2. events' \in Seq(Message)
    BY <2>1, <1>b
  <2>3. tokens' \in Nat /\ errors' \in BOOLEAN
    BY <1>13, <1>a DEF HandleToken
  <2> QED
    BY <1>13, <2>2, <2>3, Zenon DEF TypeOK, HandleToken, report, jobs, jobserver
<1>14. ASSUME NEW u \in Unit, JobThread(u) PROVE TypeOK'
  <2> USE DEF drain, report, jobserver
  <2>1. ASSUME NEW m \in Message, Send(m) PROVE messages' \in Seq(Message)
    BY <2>1, <1>b DEF Send
  <2>s. ASSUME sent' = [sent EXCEPT ![u] = @ + 1] PROVE sent' \in [Unit -> Nat]
    <3>1. sent \in [Unit -> Nat]
      BY Zenon DEF TypeOK
    <3> QED
      BY <2>s, <3>1
  <2>2. CASE JobNote(u)
    <3>1. messages' \in Seq(Message)
      BY <2>1, <2>2, MessagesTyped, Zenon DEF JobNote, Artifact
    <3> QED
      BY <2>2, <2>s, <3>1, Zenon DEF TypeOK, JobNote
  <2>3. CASE JobEmitsDiag(u)
    BY <2>3, <2>s, Zenon DEF TypeOK, JobEmitsDiag
  <2>4. CASE RmetaProduced(u) \/ SynthesizeMetadata(u)
    <3>1. messages' \in Seq(Message)
      BY <2>1, <2>4, MessagesTyped, Zenon DEF RmetaProduced, SynthesizeMetadata, Artifact
    <3> QED
      BY <2>4, <3>1, Zenon DEF TypeOK, RmetaProduced, SynthesizeMetadata
  <2>5. CASE FinishOnDrop(u)
    <3>1. messages' \in Seq(Message)
      BY <2>1, <2>5, MessagesTyped, Zenon DEF FinishOnDrop, Artifact
    <3> QED
      BY <2>5, <3>1, Zenon DEF TypeOK, FinishOnDrop
  <2>6. ASSUME NEW b \in BOOLEAN, JobReplaysDiag(u, b) \/ PushBounded(u, b)
        PROVE  TypeOK'
    <3>1. messages' \in Seq(Message)
      BY <2>1, <2>6, MessagesTyped, SMTT(30) DEF JobReplaysDiag, PushBounded, Artifact
    <3>2. sent' \in [Unit -> Nat]
      BY <2>6, <2>s, Zenon DEF JobReplaysDiag, PushBounded, TypeOK
    <3> QED
      BY <2>6, <3>1, <3>2, ZenonT(30) DEF TypeOK, JobReplaysDiag, PushBounded
  <2>7. ASSUME NEW b \in BOOLEAN, JobReturns(u, b) PROVE TypeOK'
    BY <2>7, Zenon DEF TypeOK, JobReturns
  <2> QED
    BY <1>14, <2>2, <2>3, <2>4, <2>5, <2>6, <2>7, SMTT(30) DEF JobThread
<1>15. CASE Jobserver
  <2> USE DEF drain, report, jobs
  <2>1. CASE HelperAcquires \/ HelperFails
    <3>1. messages' \in Seq(Message)
      <4>1. \E b \in BOOLEAN : messages' = Append(messages, Token(b))
        BY <2>1, Zenon DEF HelperAcquires, HelperFails, Send
      <4>2. \A b \in BOOLEAN : Token(b) \in Message
        BY DEF Message
      <4> QED
        BY <4>1, <4>2, <1>b, SMTT(30)
    <3>2. requested' \in Nat /\ available' \in Nat
      <4>1. /\ requested > 0 /\ requested' = requested - 1
            /\ available' = available \/ (available > 0 /\ available' = available - 1)
        BY <2>1, Zenon DEF HelperAcquires, HelperFails
      <4> QED
        BY <4>1, <1>a
    <3> QED
      BY <2>1, <3>1, <3>2, Zenon DEF TypeOK, HelperAcquires, HelperFails
  <2>2. CASE OthersAcquire \/ OthersRelease
    <3>1. others' \in Nat /\ available' \in Nat
      BY <2>2, <1>a DEF OthersAcquire, OthersRelease
    <3> QED
      BY <2>2, <3>1, Zenon DEF TypeOK, OthersAcquire, OthersRelease
  <2> QED
    BY <1>15, <2>1, <2>2, Zenon DEF Jobserver
<1> QED
  BY <1>1, <1>2, <1>3, <1>4, <1>5, <1>6, <1>7, <1>8, <1>9, <1>10, <1>11, <1>12, <1>13, <1>14, <1>15, SMTT(30)
      DEF JQNext, MainThread, Spawning, Handling

-----------------------------------------------------------------------------
(* The graph. *)

\* enqueue adds a unit with the edges it needs.
LEMMA EnqueueKeepsGraph ==
  ASSUME TypeOK, GraphInv, NEW u \in Unit, Enqueue(u)
  PROVE  GraphInv'
<1>1. QueueDeps(u) \in SUBSET Q!Pair
  BY QueueDepsTyped, Zenon DEF TypeOK, Q!Pair
<1>2. Q!DQInv /\ Q!Queue(u, QueueDeps(u), 100)
  BY DEF Enqueue, GraphInv
<1>3. Q!DQInv'
  BY <1>1, <1>2, UnitsFiniteThere, Q!QueueKeepsInv, SMTT(30)
<1>4. /\ Q!DepsOf(u)' = QueueDeps(u)
      /\ \A v \in DOMAIN cost : Q!DepsOf(v)' = Q!DepsOf(v)
      /\ DOMAIN cost' = DOMAIN cost \union {u}
      /\ ~Q!Prepared'
  BY <1>1, <1>2, UnitsFiniteThere, Q!QueueAddsDeps, ZenonT(30)
<1>5. \A v : QueueDeps(v)' = QueueDeps(v)
  BY DEF QueueDeps, DirectDeps, DepsOfDeps, OnlyRequiresRmeta, Enqueue
<1> QED
  BY <1>3, <1>4, <1>5 DEF GraphInv, Enqueue, drain

\* execute accepts the graph.
LEMMA ExecuteKeepsGraph ==
  ASSUME TypeOK, GraphInv, Execute
  PROVE  GraphInv'
<1>1. Q!DQInv
  BY DEF GraphInv
<1>2. /\ ~Q!Prepared /\ DOMAIN dep_map # {} /\ DOMAIN priority' = DOMAIN dep_map
      /\ UNCHANGED <<dep_map, reverse_dep_map, cost, finished>>
      /\ Q!DepsQueued /\ Q!Acyclic
  BY QueueAccepted DEF Execute
<1>3. Q!DQInv' /\ Q!Prepared'
  BY <1>1, <1>2, UnitsFiniteThere, Q!PrioritiesKeepInv, SMTT(30)
<1>4. Q!Dequeued = {} /\ finished = {} /\ DOMAIN cost = DOMAIN dep_map
  BY <1>1, <1>2, SMTT(30) DEF Q!DQInv, Q!DQTypeOK, Q!PreparedFirst, Q!Dequeued
<1>5. \A u \in DOMAIN cost : Q!DepsOf(u) = dep_map[u] /\ Q!DepsOf(u)' = Q!DepsOf(u)
  BY <1>1, <1>2, <1>4, SMTT(30) DEF Q!DQInv, Q!AwaitsTheRest, Q!DepsOf
<1>6. \A u : QueueDeps(u)' = QueueDeps(u)
  BY DEF QueueDeps, DirectDeps, DepsOfDeps, OnlyRequiresRmeta, Execute
<1>7. Q!Acyclic' /\ DOMAIN cost' = build'.units /\ drain_at' = "dequeue"
  BY <1>2, <1>4, Zenon DEF Q!Acyclic, Execute
<1>8. \A u \in DOMAIN cost : \A p \in Q!DepsOf(u) : p[1] \in DOMAIN cost
  BY <1>2, <1>4, <1>5, SMTT(30) DEF Q!DepsQueued
<1> QED
  BY <1>2, <1>3, <1>5, <1>6, <1>7, <1>8, Zenon DEF GraphInv

\* What the graph part says but for the queue's own invariant, when only dep_map and
\* finished change.
LEMMA EdgesStay ==
  ASSUME GraphInv, Q!DQInv', UNCHANGED <<build, drain_at, reverse_dep_map, cost, priority>>
  PROVE  GraphInv'
<1>1. (Q!Prepared' <=> Q!Prepared) /\ (Q!Acyclic' <=> Q!Acyclic)
  BY DEF Q!Prepared, Q!Acyclic
<1>2. \A u : Q!DepsOf(u)' = Q!DepsOf(u) /\ QueueDeps(u)' = QueueDeps(u)
  BY DEF Q!DepsOf, QueueDeps, DirectDeps, DepsOfDeps, OnlyRequiresRmeta
<1> QED
  BY <1>1, <1>2 DEF GraphInv

\* dequeue hands out one unit.
LEMMA Dequeues ==
  ASSUME TypeOK, GraphInv, NEW u \in Unit, DequeueUnit(u)
  PROVE  /\ GraphInv'
         /\ u \notin Q!Dequeued /\ Q!Dequeued' = Q!Dequeued \union {u}
<1>1. Q!DQInv /\ Q!Dequeue(u)
  BY DEF DequeueUnit, GraphInv
<1>2. Q!DQInv'
  BY <1>1, UnitsFiniteThere, Q!DequeueKeepsInv, SMTT(30)
<1>3. UNCHANGED <<build, drain_at, reverse_dep_map, cost, priority>>
  BY <1>1 DEF DequeueUnit, Q!Dequeue
<1>4. u \in DOMAIN dep_map /\ DOMAIN dep_map' = DOMAIN dep_map \ {u}
  BY <1>1 DEF Q!Dequeue, Q!IsNext, Q!Ready, Q!Restrict
<1>5. DOMAIN dep_map \subseteq DOMAIN cost
  BY <1>1 DEF Q!DQInv, Q!DQTypeOK
<1> QED
  BY <1>2, <1>3, <1>4, <1>5, EdgesStay, Zenon DEF Q!Dequeued

\* finish strikes one pair of a unit that was handed out.
LEMMA Finishes ==
  ASSUME GraphInv, NEW u \in Q!Dequeued, NEW a \in Artifact, Q!Finish(u, a),
         UNCHANGED <<build, drain_at>>
  PROVE  /\ GraphInv'
         /\ finished' = finished \union {<<u, a>>}
         /\ Q!Dequeued' = Q!Dequeued
         /\ DOMAIN dep_map' = DOMAIN dep_map /\ DOMAIN cost' = DOMAIN cost
<1>1. Q!DQInv /\ Q!Finish(u, a)
  BY DEF GraphInv
<1>2. Q!DQInv'
  BY <1>1, UnitsFiniteThere, Q!FinishKeepsInv, SMTT(30)
<1>3. UNCHANGED <<reverse_dep_map, cost, priority>> /\ finished' = finished \union {<<u, a>>}
  BY <1>1 DEF Q!Finish
<1>4. DOMAIN dep_map' = DOMAIN dep_map
  BY <1>1 DEF Q!Finish
<1> QED
  BY <1>2, <1>3, <1>4, EdgesStay, SMTT(30) DEF Q!Dequeued

-----------------------------------------------------------------------------
(* The messages in flight. *)

\* The event that is handled was the first in flight.
LEMMA Takes ==
  ASSUME TypeOK, NEW m, TakeEvent(m), messages' = messages
  PROVE  /\ InFlight # <<>> /\ m = InFlight[1] /\ InFlight' = Tail(InFlight)
         /\ 1 \in DOMAIN InFlight /\ m \in Message
<1>1. events \in Seq(Message) /\ messages \in Seq(Message)
  BY Zenon DEF TypeOK
<1>2. events # <<>> /\ m = Head(events) /\ events' = Tail(events)
  BY DEF TakeEvent
<1>3. /\ InFlight \in Seq(Message) /\ InFlight # <<>>
      /\ Head(events) = InFlight[1] /\ Tail(events) \o messages = Tail(InFlight)
  BY <1>1, <1>2, TakenFirst, SMTT(30) DEF InFlight
<1>4. \A s \in Seq(Message) : s # <<>> => 1 \in DOMAIN s /\ s[1] \in Message
  OBVIOUS
<1> QED
  BY <1>2, <1>3, <1>4, SMTT(30) DEF InFlight

\* A message that is sent is the last in flight.
LEMMA Sends ==
  ASSUME TypeOK, NEW m \in Message, Send(m), events' = events
  PROVE  InFlight' = Append(InFlight, m)
<1>1. events \in Seq(Message) /\ messages \in Seq(Message)
  BY Zenon DEF TypeOK
<1> QED
  BY <1>1, SentLast DEF InFlight, Send

\* What the drain loop pops stays in flight until it is handled.
LEMMA Moves ==
  ASSUME TypeOK, LoopInv, TryPopAll \/ Pop
  PROVE  InFlight' = InFlight
<1>1. messages \in Seq(Message) /\ events = <<>>
  BY Zenon DEF TypeOK, LoopInv, TryPopAll, Pop
<1>2. \/ events' = messages /\ messages' = <<>>
      \/ messages # <<>> /\ events' = <<Head(messages)>> /\ messages' = Tail(messages)
  BY DEF TryPopAll, Pop
<1>3. /\ messages \o <<>> = messages /\ <<>> \o messages = messages
      /\ messages # <<>> => <<Head(messages)>> \o Tail(messages) = messages
  BY <1>1, PoppedSame
<1> QED
  BY <1>1, <1>2, <1>3, Zenon DEF InFlight

\* Only a job that was started announces anything.
LEMMA AnnouncedStarted ==
  ASSUME JobsInv, NEW u \in Unit, NEW a \in Artifact, Announced(u, a)
  PROVE  job[u] # "idle" /\ u \in Q!Dequeued
BY Zenon DEF JobsInv, JobInv, Announced, Artifact

\* The Finish message that is handled next is of a job that was started, and its
\* artifact has not been produced before.
LEMMA HandlesFinish ==
  ASSUME TypeOK, JobsInv, MessagesInv, NEW u \in Unit, NEW a \in Artifact, NEW ok \in BOOLEAN,
         TakeEvent(FinishMsg(u, a, ok)), messages' = messages
  PROVE  /\ u \in Q!Dequeued /\ u \in active /\ <<u, a>> \notin finished /\ Announced(u, a)
         /\ a = "All" => (ok <=> outcome[u] = "ok")
<1>1. 1 \in DOMAIN InFlight /\ InFlight[1] = FinishMsg(u, a, ok)
  BY Takes
<1>2. MessageInv(FinishMsg(u, a, ok))
  BY <1>1 DEF MessagesInv
<1>3. /\ FinishMsg(u, a, ok).kind = "Finish" /\ FinishMsg(u, a, ok).unit = u
      /\ FinishMsg(u, a, ok).artifact = a /\ FinishMsg(u, a, ok).ok = ok
  BY MessagesTyped
<1>4. /\ u \in active /\ <<u, a>> \notin finished /\ Announced(u, a)
      /\ a = "All" => (ok <=> outcome[u] = "ok")
  BY <1>2, <1>3, Zenon DEF MessageInv
<1> QED
  BY <1>4, AnnouncedStarted

\* The graph stays in every step.
LEMMA GraphStep ==
  ASSUME TypeOK, GraphInv, JobsInv, MessagesInv, JQNext
  PROVE  GraphInv'
<1>1. ASSUME NEW u \in Unit, Enqueue(u) PROVE GraphInv'
  BY <1>1, EnqueueKeepsGraph
<1>2. CASE Execute
  BY <1>2, ExecuteKeepsGraph
<1>3. ASSUME NEW u \in Unit, DequeueUnit(u) PROVE GraphInv'
  BY <1>3, Dequeues, SMTT(30)
<1>4. ASSUME NEW u \in Unit, HandleMetadata(u) PROVE GraphInv'
  <2>1. u \in Q!Dequeued
    BY <1>4, HandlesFinish, Zenon DEF HandleMetadata, Artifact
  <2> QED
    BY <1>4, <2>1, Finishes DEF HandleMetadata, Artifact
<1>5. ASSUME NEW u \in Unit, NEW ok \in BOOLEAN, HandleAll(u, ok) PROVE GraphInv'
  <2>1. u \in Q!Dequeued
    BY <1>5, HandlesFinish, Zenon DEF HandleAll, Artifact
  <2>2. UNCHANGED <<build, drain_at>> /\ (UNCHANGED queue \/ Q!Finish(u, "All"))
    BY <1>5 DEF HandleAll
  <2> QED
    BY <2>1, <2>2, Finishes, GraphStays, SMTT(30) DEF Artifact
<1>6. CASE \/ \E u \in Unit : StartJob(u)
           \/ DequeueNone \/ NoteWorkingOnFails \/ FreshJobReturns \/ StartNone
           \/ TryPopAll \/ TruncateTokens \/ Pop \/ EventsHandled \/ Drained
  <2>1. UNCHANGED <<build, queue>>
    BY <1>6, Zenon DEF StartJob, DequeueNone, NoteWorkingOnFails, FreshJobReturns, StartNone,
                TryPopAll, TruncateTokens, Pop, EventsHandled, Drained
  <2>2. drain_at # "enqueue" /\ drain_at' # "enqueue"
    BY <1>6, Zenon DEF StartJob, DequeueNone, NoteWorkingOnFails, FreshJobReturns, StartNone,
                TryPopAll, TruncateTokens, Pop, EventsHandled, Drained, AfterSpawn
  <2> QED
    BY <2>1, <2>2, GraphStays
<1>7. CASE \/ \E u \in Unit : HandleFails(u) \/ HandleNote(u)
           \/ \E u \in Unit, b \in BOOLEAN : HandleDiagnostic(u, b)
           \/ \E ok \in BOOLEAN : HandleToken(ok)
  <2>1. UNCHANGED <<build, queue, drain_at>>
    BY <1>7, Zenon DEF HandleFails, HandleNote, HandleDiagnostic, HandleToken
  <2> QED
    BY <2>1, GraphStays
<1>8. CASE (\E u \in Unit : JobThread(u)) \/ Jobserver
  <2>1. UNCHANGED <<build, queue, drain_at>>
    BY <1>8, Zenon DEF JobThread, JobNote, JobReplaysDiag, JobEmitsDiag, PushBounded, RmetaProduced,
                JobReturns, SynthesizeMetadata, FinishOnDrop, Jobserver, HelperAcquires,
                HelperFails, OthersAcquire, OthersRelease, drain
  <2> QED
    BY <2>1, GraphStays, Zenon
<1> QED
  BY <1>1, <1>2, <1>3, <1>4, <1>5, <1>6, <1>7, <1>8, SMTT(30) DEF JQNext, MainThread, Spawning, Handling

-----------------------------------------------------------------------------
(* A job's own thread. *)

\* A step of a job's own thread leaves the other jobs alone.
LEMMA ThreadsApart ==
  ASSUME TypeOK, NEW u \in Unit, JobThread(u)
  PROVE  /\ UNCHANGED <<build, queue, drain, tokens, jobserver>>
         /\ \A v \in Unit \ {u} : UNCHANGED <<job[v], outcome[v], rmeta[v]>>
         /\ job[u] \notin {"idle", "done"} /\ job'[u] # "idle"
         /\ job' \in [Unit -> {"idle", "running", "pushing", "synthesize", "finish", "done"}]
<1>1. /\ job \in [Unit -> {"idle", "running", "pushing", "synthesize", "finish", "done"}]
      /\ outcome \in [Unit -> {"none", "ok", "err"}]
      /\ rmeta \in [Unit -> {"unneeded", "required", "produced"}]
  BY Zenon DEF TypeOK
<1>2. ASSUME NEW b \in BOOLEAN, JobReplaysDiag(u, b) \/ PushBounded(u, b) \/ JobReturns(u, b)
      PROVE  /\ UNCHANGED <<build, queue, drain, tokens, jobserver>>
             /\ \A v \in Unit \ {u} : UNCHANGED <<job[v], outcome[v], rmeta[v]>>
             /\ job[u] \notin {"idle", "done"} /\ job'[u] # "idle"
             /\ job' \in [Unit -> {"idle", "running", "pushing", "synthesize", "finish", "done"}]
  BY <1>1, <1>2, Zenon DEF JobReplaysDiag, PushBounded, JobReturns
<1>3. CASE JobNote(u) \/ JobEmitsDiag(u) \/ RmetaProduced(u) \/ SynthesizeMetadata(u) \/ FinishOnDrop(u)
  BY <1>1, <1>3, Zenon DEF JobNote, JobEmitsDiag, RmetaProduced, SynthesizeMetadata, FinishOnDrop
<1> QED
  BY <1>2, <1>3, Zenon DEF JobThread

-----------------------------------------------------------------------------
(* Where the loop is. *)

\* While messages are handled only the queue of events and the result are known of.
LEMMA HandlingKeepsLoop ==
  ASSUME LoopInv, drain_at' = "handle", result' = "none"
  PROVE  LoopInv'
BY DEF LoopInv

\* Nothing is said of the jobs, the messages not taken yet and the jobserver's own state.
LEMMA LoopStays ==
  ASSUME LoopInv, UNCHANGED <<build, dep_map, drain, tokens>>
  PROVE  LoopInv'
<1>1. Q!Ready' = Q!Ready
  BY DEF Q!Ready
<1> QED
  BY <1>1 DEF LoopInv, drain, report, Stopped, Dropped, HasExtraTokens

\* After an error or for want of tokens or units the spawning ends.
LEMMA SpawningEnds ==
  ASSUME LoopInv, drain_at \in {"start", "handle"}, events = <<>>, drain_at' = AfterSpawn(active),
         UNCHANGED <<build, dep_map, active, tokens, events, result>>, errors => errors',
         drain_at = "handle" => Stopped,
         Stopped' \/ Dropped' \/ pending_queue' = <<>> \/ ~HasExtraTokens
  PROVE  LoopInv'
<1>1. Q!Ready' = Q!Ready
  BY DEF Q!Ready
<1>2. /\ drain_at' \in {"wait", "end"} /\ events' = <<>> /\ result' = "none"
      /\ ~Stopped' => ~Stopped
      /\ HasExtraTokens' <=> HasExtraTokens
  BY DEF AfterSpawn, Stopped, HasExtraTokens, LoopInv
<1>3. drain_at' = "wait" => active' # {}
  BY DEF AfterSpawn
<1>4. drain_at' = "end" => active' = {}
  BY DEF AfterSpawn
<1>5. ~Stopped' => Q!Ready' = {}
  BY <1>1, <1>2 DEF LoopInv
<1>6. ~Stopped' /\ ~Dropped' => pending_queue' = <<>> \/ ~HasExtraTokens'
  BY <1>2
<1> QED
  BY <1>2, <1>3, <1>4, <1>5, <1>6, SMTT(30) DEF LoopInv

\* The main thread is where the invariant says.
LEMMA LoopStep ==
  ASSUME TypeOK, GraphInv, LoopInv, JQNext
  PROVE  LoopInv'
<1>1. ASSUME NEW u \in Unit, Enqueue(u) \/ DequeueUnit(u) PROVE LoopInv'
  <2>1. /\ drain_at' = drain_at /\ drain_at \in {"enqueue", "dequeue"}
        /\ UNCHANGED <<build, events, errors, result>>
    BY <1>1, Zenon DEF Enqueue, DequeueUnit, drain, report
  <2> QED
    BY <2>1, Zenon DEF LoopInv, Stopped
<1>2. CASE Execute
  BY <1>2 DEF Execute, LoopInv, Stopped, report
<1>3. CASE DequeueNone
  <2>1. Q!Ready' = {}
    BY <1>3 DEF DequeueNone, queue, Q!Ready
  <2> QED
    BY <1>3, <2>1 DEF DequeueNone, LoopInv, Stopped, report
<1>4. ASSUME NEW u \in Unit, StartJob(u) PROVE LoopInv'
  <2>1. Q!Ready' = Q!Ready
    BY <1>4 DEF StartJob, queue, Q!Ready
  <2>2. /\ drain_at = "start" /\ drain_at' \in {"fresh", "start"}
        /\ UNCHANGED <<build, events, errors, result>>
    BY <1>4, SMTT(30) DEF StartJob, report
  <2> QED
    BY <2>1, <2>2, SMTT(30) DEF LoopInv, Stopped
<1>5. CASE FreshJobReturns
  <2>1. Q!Ready' = Q!Ready
    BY <1>5, Zenon DEF FreshJobReturns, queue, Q!Ready
  <2> QED
    BY <1>5, <2>1 DEF FreshJobReturns, LoopInv, Stopped, report
<1>6. CASE NoteWorkingOnFails
  <2>1. Dropped'
    BY <1>6, Zenon DEF NoteWorkingOnFails, Dropped
  <2> QED
    BY <1>6, <2>1, SpawningEnds, SMTT(30) DEF NoteWorkingOnFails, queue, report, LoopInv
<1>7. CASE StartNone
  BY <1>7, SpawningEnds, SMTT(30) DEF StartNone, queue, report, LoopInv
<1>8. CASE TryPopAll \/ Pop
  BY <1>8, HandlingKeepsLoop DEF TryPopAll, Pop, report, LoopInv
<1>9. CASE TruncateTokens
  <2>1. Q!Ready' = Q!Ready
    BY <1>9 DEF TruncateTokens, queue, Q!Ready
  <2>2. /\ drain_at = "wait" /\ drain_at' = "pop"
        /\ UNCHANGED <<build, active, events, errors, result>>
    BY <1>9 DEF TruncateTokens, report
  <2> QED
    BY <2>1, <2>2, Zenon DEF LoopInv, Stopped
<1>10. CASE \/ \E u \in Unit : HandleFails(u) \/ HandleNote(u) \/ HandleMetadata(u)
            \/ \E u \in Unit, b \in BOOLEAN : HandleDiagnostic(u, b) \/ HandleAll(u, b)
            \/ \E ok \in BOOLEAN : HandleToken(ok)
  <2>1. drain_at = "handle" /\ drain_at' = drain_at /\ result' = result
    BY <1>10, Zenon DEF HandleFails, HandleNote, HandleMetadata, HandleDiagnostic, HandleAll, HandleToken,
                 TakeEvent, report
  <2> QED
    BY <2>1, HandlingKeepsLoop DEF LoopInv
<1>11. CASE EventsHandled
  <2>1. CASE Stopped
    <3>1. Stopped' /\ drain_at' = AfterSpawn(active)
      BY <1>11, <2>1, Zenon DEF EventsHandled, Stopped
    <3> QED
      BY <1>11, <2>1, <3>1, SpawningEnds, SMTT(30) DEF EventsHandled, queue, report
  <2>2. CASE ~Stopped
    BY <1>11, <2>2, SMTT(30) DEF EventsHandled, Stopped, LoopInv, report
  <2> QED
    BY <2>1, <2>2, SMTT(30)
<1>12. CASE Drained
  <2>1. Q!Ready' = Q!Ready
    BY <1>12, Zenon DEF Drained, queue, Q!Ready
  <2>2. /\ drain_at = "end" /\ drain_at' = "done" /\ active' = active /\ active = {}
        /\ UNCHANGED <<build, events, pending_queue>>
    BY <1>12, Zenon DEF Drained, LoopInv
  <2>4. errors => errors'
    BY <1>12, Zenon DEF Drained, TypeOK
  <2>3. HasExtraTokens
    <3>1. Cardinality(active) = 0 /\ tokens \in Nat
      BY <2>2, FS_EmptySet, ZenonT(30) DEF TypeOK
    <3> QED
      BY <3>1 DEF HasExtraTokens
  <2> QED
    BY <2>1, <2>2, <2>3, <2>4, SMTT(30) DEF LoopInv, Stopped, Dropped
<1>13. ASSUME NEW u \in Unit, JobThread(u) PROVE LoopInv'
  BY <1>13, ThreadsApart, LoopStays, SMTT(30) DEF queue
<1>14. CASE Jobserver
  BY <1>14, LoopStays, Zenon DEF Jobserver, HelperAcquires, HelperFails, OthersAcquire, OthersRelease, queue
<1> QED
  BY <1>1, <1>2, <1>3, <1>4, <1>5, <1>6, <1>7, <1>8, <1>9, <1>10, <1>11, <1>12, <1>13, <1>14, SMTT(30)
      DEF JQNext, MainThread, Spawning, Handling
=============================================================================
