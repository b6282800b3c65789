----------------------------- MODULE HttpClient -----------------------------
(***************************************************************************)
(* The HTTP client (util/network/http_async.rs): callers that send a       *)
(* request to a worker thread over a channel and wait for one answer, the  *)
(* loop of the worker around curl, its low speed timeout for all transfers *)
(* together, and the retries of a caller (util/network/retry.rs).          *)
(***************************************************************************)
EXTENDS Integers, FiniteSets

CONSTANTS
  Fetch,          \* callers
  MaxRetries,     \* net.retry
  Timeout,        \* http.timeout, in ticks
  LowSpeedLimit,  \* http.low-speed-limit
  BodySize        \* bound: bytes of a body

ASSUME HttpNatural == {MaxRetries, Timeout, LowSpeedLimit, BodySize} \subseteq Nat

VARIABLES
  fetch,        \* [Fetch -> [at, retries, left]]
  incoming_work, \* callers whose request is in the channel
  handles,      \* callers whose request curl performs
  worker,       \* where the worker is in its loop
  window,       \* the low speed window: its age in ticks, and the bytes since it began
  busy          \* ticks since the worker last waited for work

hvars == <<fetch, incoming_work, handles, worker, window, busy>>

HInit ==
  /\ fetch = [f \in Fetch |-> [at |-> "start", retries |-> 0, left |-> 0]]
  /\ incoming_work = {} /\ handles = {}
  /\ worker = "drain"
  /\ window = [age |-> 0, bytes |-> 0]
  /\ busy = 0
-----------------------------------------------------------------------------
(* Retry and Client. *)

\* Client::request: the message goes to the worker, which must still be there.
Request(f) ==
  /\ fetch[f].at \in {"start", "sleep"}
  /\ worker # "stopped"
  /\ \E size \in 0 .. BodySize : fetch' = [fetch EXCEPT ![f].at = "sent", ![f].left = size]
  /\ incoming_work' = incoming_work \union {f}
  /\ UNCHANGED <<handles, worker, window, busy>>

\* Mutant: an error that may go away is retried without end.
TriedForever(r, result) ==
  CASE result = "ok" -> [r EXCEPT !.at = "ok"]
    [] result = "spurious" -> [r EXCEPT !.at = "sleep"]
    [] OTHER -> [r EXCEPT !.at = "error"]

\* Retry::try, on an answer: maybe_spurious errors are retried after a while.
Tried(r, result) ==
  CASE result = "ok" -> [r EXCEPT !.at = "ok"]
    [] result = "spurious" /\ r.retries < MaxRetries -> [r EXCEPT !.at = "sleep", !.retries = @ + 1]
    [] OTHER -> [r EXCEPT !.at = "error"]

Answered(f) == fetch[f].at \in {"ok", "error"}

\* Client::drop, when nobody needs it: the channel is closed, and the worker joined.
ClientDrop ==
  /\ worker = "recv" /\ \A f \in Fetch : Answered(f)
  /\ worker' = "stopped"
  /\ UNCHANGED <<fetch, incoming_work, handles, window, busy>>
-----------------------------------------------------------------------------
(* WorkerServer::worker_loop. *)

NewWindow == [age |-> 0, bytes |-> 0]

\* All messages of the channel are handed to curl, which may refuse one.
Drain ==
  /\ worker = "drain"
  /\ \E refused \in SUBSET incoming_work :
       /\ Cardinality(refused) <= 1
       /\ handles' = handles \union (incoming_work \ refused)
       /\ fetch' = [f \in Fetch |-> IF f \in refused THEN Tried(fetch[f], "fatal") ELSE fetch[f]]
  /\ incoming_work' = {}
  /\ worker' = "perform"
  /\ UNCHANGED <<window, busy>>

\* fail_and_drain: everybody gets the error.
FailAndDrain(result) ==
  /\ handles' = {}
  /\ fetch' = [f \in Fetch |-> IF f \in handles THEN Tried(fetch[f], result) ELSE fetch[f]]

\* Multi::perform fails.
PerformFails ==
  /\ worker = "perform" /\ handles # {}
  /\ FailAndDrain("fatal")
  /\ worker' = "drain"
  /\ UNCHANGED <<incoming_work, window, busy>>

\* Some transfers get a byte, some end, and their callers are answered.
Perform(moved, done, result) ==
  /\ worker = "perform"
  /\ moved \subseteq {f \in handles : fetch[f].left > 0} /\ done \subseteq handles \ moved
  /\ result = "ok" => \A f \in done : fetch[f].left = 0
  /\ handles' = handles \ done
  /\ fetch' = [f \in Fetch |->
       CASE f \in done -> Tried(fetch[f], result)
         [] f \in moved -> [fetch[f] EXCEPT !.left = @ - 1]
         [] OTHER -> fetch[f]]
  /\ window' = [window EXCEPT !.bytes = IF @ + Cardinality(moved) > LowSpeedLimit
                                        THEN LowSpeedLimit ELSE @ + Cardinality(moved)]
  /\ worker' = IF handles' = {} THEN "recv" ELSE "check"
  /\ UNCHANGED <<incoming_work, busy>>

\* check_low_speed_timeout, at the end of a window.
TooSlow ==
  /\ worker = "check" /\ window.age >= Timeout /\ window.bytes < LowSpeedLimit
  /\ FailAndDrain("spurious")
  /\ window' = NewWindow
  /\ worker' = "drain"
  /\ UNCHANGED <<incoming_work, busy>>

FastEnough ==
  /\ worker = "check" /\ ~(window.age >= Timeout /\ window.bytes < LowSpeedLimit)
  /\ window' = IF window.age >= Timeout THEN NewWindow ELSE window
  /\ worker' = "wait"
  /\ UNCHANGED <<fetch, incoming_work, handles, busy>>

\* Multi::wait, which may fail.
Wait ==
  /\ worker = "wait"
  /\ FailAndDrain("fatal") \/ UNCHANGED <<fetch, handles>>
  /\ worker' = "drain"
  /\ UNCHANGED <<incoming_work, window, busy>>

\* Mutant: the time without work counts.
RecvKeepsWindow(f) ==
  /\ worker = "recv" /\ f \in incoming_work
  /\ incoming_work' = incoming_work \ {f}
  /\ handles' = {f}
  /\ busy' = 0
  /\ worker' = "drain"
  /\ UNCHANGED <<fetch, window>>

\* Without transfers, the worker sleeps until there is work, which curl may refuse.
Recv(f) ==
  /\ worker = "recv" /\ f \in incoming_work
  /\ incoming_work' = incoming_work \ {f}
  /\ \/ handles' = {f} /\ UNCHANGED fetch
     \/ handles' = {} /\ fetch' = [fetch EXCEPT ![f] = Tried(@, "fatal")]
  /\ window' = NewWindow /\ busy' = 0
  /\ worker' = "drain"

Later(n) == IF n < Timeout THEN n + 1 ELSE n
TimePasses ==
  /\ worker # "stopped"
  /\ window' = [window EXCEPT !.age = Later(@)]
  /\ busy' = IF worker = "recv" THEN 0 ELSE Later(busy)
  /\ UNCHANGED <<fetch, incoming_work, handles, worker>>

WorkerStep ==
  \/ Drain \/ PerformFails \/ TooSlow \/ FastEnough \/ Wait \/ \E f \in Fetch : Recv(f)
  \/ \E moved, done \in SUBSET Fetch, result \in {"ok", "spurious", "fatal"} : Perform(moved, done, result)

HNext == WorkerStep \/ ClientDrop \/ TimePasses \/ \E f \in Fetch : Request(f)

\* The threads run and the clock goes on; the network may do nothing.
HFairSpec == HInit /\ [][HNext]_hvars
  /\ WF_hvars(WorkerStep) /\ WF_hvars(TimePasses) /\ WF_hvars(ClientDrop)
  /\ \A f \in Fetch : WF_hvars(Request(f))
-----------------------------------------------------------------------------
(* Properties. *)

\* Every caller gets an answer, though the network stalls, and the worker stops: no
\* message is left in the channel while the worker sleeps, stalled transfers time out,
\* and retries end.
AllAnswered == worker = "stopped" \/ \A f \in Fetch : fetch[f].at = "start"

\* Transfers are given up as too slow only when the worker has had work for as long as
\* the timeout: a request sent after a pause is not failed for the pause.
SlowOnlyWhenBusy == [][TooSlow => busy >= Timeout]_hvars
=============================================================================
