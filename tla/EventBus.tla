------------------------------ MODULE EventBus ------------------------------
(***************************************************************************)
(* streaming/event_bus.py: in-process fan-out of PipelineEvents by         *)
(* correlation_id.  One unbounded asyncio.Queue per subscriber; a queue is *)
(* named by the stream that owns it.  No method awaits between reading and *)
(* changing _subscribers, so each is one atomic operator here.             *)
(***************************************************************************)
EXTENDS Naturals, Sequences

CONSTANTS
  Streams,   \* the subscribers: one streamed request each
  Ids        \* correlation ids

VARIABLES
  subscribers,   \* _subscribers; no entry for a topic is the empty set
  queue,         \* what waits in each subscriber's asyncio.Queue
  heard          \* history: all that was ever put into each queue

busVars == <<subscribers, queue, heard>>

BusInit ==
  /\ subscribers = [i \in Ids |-> {}]
  /\ queue = [s \in Streams |-> <<>>]
  /\ heard = [s \in Streams |-> <<>>]

\* A new, empty queue.
Subscribe(s, i) ==
  /\ subscribers' = [subscribers EXCEPT ![i] = @ \cup {s}]
  /\ UNCHANGED <<queue, heard>>

\* The topic goes with its last queue, and the queue's unread events with it.
Unsubscribe(s, i) ==
  /\ subscribers' = [subscribers EXCEPT ![i] = @ \ {s}]
  /\ queue' = [queue EXCEPT ![s] = <<>>]
  /\ heard' = heard

\* Mutants: every subscriber of every topic gets the events; the newest events
\* come first.
PublishToAll(i, es) ==
  LET all == UNION {subscribers[j] : j \in Ids}
  IN  /\ queue' = [s \in Streams |-> IF s \in all THEN queue[s] \o es ELSE queue[s]]
      /\ heard' = [s \in Streams |-> IF s \in all THEN heard[s] \o es ELSE heard[s]]
      /\ subscribers' = subscribers
PublishNewestFirst(i, es) ==
  /\ queue' = [s \in Streams |-> IF s \in subscribers[i] THEN es \o queue[s] ELSE queue[s]]
  /\ heard' = [s \in Streams |-> IF s \in subscribers[i] THEN heard[s] \o es ELSE heard[s]]
  /\ subscribers' = subscribers

\* A coroutine step that publishes the events `es`, in order, on topic i.
Publish(i, es) ==
  /\ queue' = [s \in Streams |-> IF s \in subscribers[i] THEN queue[s] \o es ELSE queue[s]]
  /\ heard' = [s \in Streams |-> IF s \in subscribers[i] THEN heard[s] \o es ELSE heard[s]]
  /\ subscribers' = subscribers

\* asyncio.Queue.get on a non-empty queue.
Take(s) ==
  /\ queue[s] # <<>>
  /\ queue' = [queue EXCEPT ![s] = Tail(@)]
  /\ UNCHANGED <<subscribers, heard>>
=============================================================================
