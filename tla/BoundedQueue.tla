---------------------------- MODULE BoundedQueue ----------------------------
(***************************************************************************)
(* What util/queue.rs promises its callers: "A simple, threadsafe, queue   *)
(* of items".  Every call takes effect in one step between its start and   *)
(* its return; push never waits, push_bounded waits for room, pop waits    *)
(* for an item or for its timeout, try_pop_all never waits.  JobQueue uses *)
(* the queue in this form; MessageQueue is shown to implement it.          *)
(***************************************************************************)
EXTENDS Integers, Sequences

CONSTANTS
  Thread,  \* the threads that hold the queue
  Item,    \* what is sent
  Bound    \* the capacity push_bounded respects

VARIABLES
  items,   \* the queue
  call     \* [Thread -> the call in progress]

bqvars == <<items, call>>

\* A call in progress: its stage is before or after it takes effect, its data
\* are its arguments before and its results after.
NoCall == [op |-> "none", stage |-> "before", data |-> <<>>]

Calls == [op : {"push", "push_bounded"}, stage : {"before"}, data : {<<i>> : i \in Item}]
           \union [op : {"pop", "try_pop_all"}, stage : {"before"}, data : {<<>>}]

BQInit ==
  /\ items = <<>>
  /\ call = [t \in Thread |-> NoCall]

Start(t) ==
  /\ call[t] = NoCall /\ call'[t] \in Calls
  /\ call' = [call EXCEPT ![t] = call'[t]]
  /\ UNCHANGED items

\* The call takes effect: the queue changes and the results are known.
Effect(t, op, new, results) ==
  /\ call[t].op = op
  /\ call[t].stage = "before"
  /\ items' = new
  /\ call' = [call EXCEPT ![t] = [op |-> op, stage |-> "after", data |-> results]]

Push(t) == Effect(t, "push", items \o call[t].data, <<>>)

PushBounded(t) ==
  /\ Len(items) < Bound
  /\ Effect(t, "push_bounded", items \o call[t].data, <<>>)

Pop(t) ==
  /\ items # <<>>
  /\ Effect(t, "pop", Tail(items), <<Head(items)>>)

PopNone(t) ==
  /\ items = <<>>
  /\ Effect(t, "pop", items, <<>>)

TryPopAll(t) == Effect(t, "try_pop_all", <<>>, items)

Return(t) ==
  /\ call[t].stage = "after"
  /\ call' = [call EXCEPT ![t] = NoCall]
  /\ UNCHANGED items

BQNext == \E t \in Thread :
  \/ Start(t) \/ Return(t)
  \/ Push(t) \/ PushBounded(t) \/ Pop(t) \/ PopNone(t) \/ TryPopAll(t)

BQSpec == BQInit /\ [][BQNext]_bqvars
=============================================================================
