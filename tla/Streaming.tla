----------------------------- MODULE Streaming -----------------------------
(***************************************************************************)
(* Concurrent streamed requests: stream_pipeline_events and its two        *)
(* background tasks (streaming/subscriber.py) over the EventBus, as driven *)
(* by POST /query/stream and /ws/query (streaming/sse.py, websocket.py).   *)
(*                                                                         *)
(* Everything runs on one asyncio loop, so an action is what one task does *)
(* between two suspensions.  The only suspension inside a pipeline run is  *)
(* its database call: all that precedes it (the LLM call included) and all *)
(* that follows it is published in one uninterrupted step each.  The       *)
(* events of such a step before the terminal one are one "started" event,  *)
(* or none, here; Pipeline.tla has them all.                               *)
(*                                                                         *)
(* /ws/query makes a fresh correlation_id; POST /query/stream takes the    *)
(* client's X-Correlation-ID, so two streams may share one.                *)
(***************************************************************************)
EXTENDS EventBus

CONSTANTS
  IdChoices,       \* the ways correlation ids may fall to the streams
  AskEnds,         \* how the task running ask may end, see RunEnds
  MaxHeartbeats,   \* bound: heartbeats over all streams
  MaxCuts          \* bound: cancellations that hit one stream's consumer

VARIABLES
  cid,       \* correlation_id of each stream
  gen,       \* where the generator stream_pipeline_events stands
  run,       \* pipeline_task
  hb,        \* heartbeat_task
  beats,     \* heartbeats published so far
  sent,      \* history: events yielded to the client
  cuts,      \* history: cancellations of the consumer (client gone, shutdown)
  lateCut    \* history: was the consumer cancelled inside its `finally`?

vars == <<subscribers, queue, heard, cid, gen, run, hb, beats, sent, cuts, lateCut>>

ASSUME StreamingAssumption ==
  /\ IdChoices \subseteq [Streams -> Ids]
  /\ AskEnds \subseteq {"terminal", "raises", "silent"}
  /\ MaxHeartbeats \in Nat
  /\ MaxCuts \in Nat
-----------------------------------------------------------------------------
Kinds == {"started", "heartbeat", "final"}
Event == [kind : Kinds, of : Streams]
Ev(kind, s) == [kind |-> kind, of |-> s]
\* "final" is pipeline_completed or pipeline_failed: the consumer ends on both.
Terminal(e) == e.kind = "final"

\* "waiting": in asyncio.wait on the next event and on pipeline_task;
\* "yielded": an event is with the transport;  "closing": in the `finally`,
\* inside the task that consumes the stream;  "detached": in the `finally`
\* run by the loop's async-generator finalizer;  "aborted": in the `finally`,
\* with a CancelledError waiting at the gather.
GenStates == {"idle", "waiting", "yielded", "closing", "detached", "aborted", "closed"}
InCleanup == {"closing", "detached", "aborted"}

\* "ready": created, not yet started;  "executing": suspended in the database
\* call;  "cancelling": cancel() requested.
RunStates == {"none", "ready", "executing", "cancelling", "finished", "raised", "cancelled"}
RunEnds == {"finished", "raised", "cancelled"}
HbStates == {"none", "ready", "waiting", "cancelling", "done"}

Init ==
  /\ BusInit
  /\ cid \in IdChoices
  /\ gen = [s \in Streams |-> "idle"]
  /\ run = [s \in Streams |-> "none"]
  /\ hb = [s \in Streams |-> "none"]
  /\ beats = 0
  /\ sent = [s \in Streams |-> <<>>]
  /\ cuts = [s \in Streams |-> 0]
  /\ lateCut = [s \in Streams |-> FALSE]

\* The first __anext__: subscribe, then create both tasks, then wait.
Open(s) ==
  /\ gen[s] = "idle"
  /\ Subscribe(s, cid[s])
  /\ gen' = [gen EXCEPT ![s] = "waiting"]
  /\ run' = [run EXCEPT ![s] = "ready"]
  /\ hb' = [hb EXCEPT ![s] = "ready"]
  /\ UNCHANGED <<cid, beats, sent, cuts, lateCut>>

\* The loop is FIFO and runs the two new tasks next to each other, before the
\* consumer can be woken again: pipeline_task's first step reaches the
\* database call and heartbeat_task goes into wait_for ...
RunReachesDatabase(s) ==
  /\ run[s] = "ready"
  /\ Publish(cid[s], <<Ev("started", s)>>)
  /\ run' = [run EXCEPT ![s] = "executing"]
  /\ hb' = [hb EXCEPT ![s] = "waiting"]
  /\ UNCHANGED <<cid, gen, beats, sent, cuts, lateCut>>

\* ... or the run is over before it (a stage raised, or the guard rejected the
\* SQL) and heartbeat_task ends at its `while not pipeline_task.done()`.
RunEndsEarly(s) ==
  /\ run[s] = "ready"
  /\ "terminal" \in AskEnds
  /\ Publish(cid[s], <<Ev("started", s), Ev("final", s)>>)
  /\ run' = [run EXCEPT ![s] = "finished"]
  /\ hb' = [hb EXCEPT ![s] = "done"]
  /\ UNCHANGED <<cid, gen, beats, sent, cuts, lateCut>>

\* The database call returned: the rest of the run, to its terminal event.
RunEndsFinal(s) ==
  /\ run[s] = "executing"
  /\ "terminal" \in AskEnds
  /\ Publish(cid[s], <<Ev("final", s)>>)
  /\ run' = [run EXCEPT ![s] = "finished"]
  /\ UNCHANGED <<cid, gen, hb, beats, sent, cuts, lateCut>>

\* ask breaking its contract: the task ends without a terminal event, by an
\* exception or by returning.
RunEndsMute(s, end) ==
  /\ run[s] = "executing"
  /\ \/ end = "raised" /\ "raises" \in AskEnds
     \/ end = "finished" /\ "silent" \in AskEnds
  /\ run' = [run EXCEPT ![s] = end]
  /\ UNCHANGED <<subscribers, queue, heard, cid, gen, hb, beats, sent, cuts, lateCut>>

\* CancelledError unwinds the run; it publishes nothing.
RunCancelled(s) ==
  /\ run[s] = "cancelling"
  /\ run' = [run EXCEPT ![s] = "cancelled"]
  /\ UNCHANGED <<subscribers, queue, heard, cid, gen, hb, beats, sent, cuts, lateCut>>

\* wait_for timed out: publish and test `pipeline_task.done()` again.  The
\* timer may win against a completion the task has not seen yet.
HeartbeatFires(s) ==
  /\ hb[s] = "waiting"
  /\ beats < MaxHeartbeats
  /\ Publish(cid[s], <<Ev("heartbeat", s)>>)
  /\ beats' = beats + 1
  /\ hb' = [hb EXCEPT ![s] = IF run[s] \in RunEnds THEN "done" ELSE "waiting"]
  /\ UNCHANGED <<cid, gen, run, sent, cuts, lateCut>>

\* The shielded run ended during the wait, or heartbeat_task was cancelled.
HeartbeatEnds(s) ==
  /\ \/ hb[s] = "waiting" /\ run[s] \in RunEnds
     \/ hb[s] = "cancelling"
  /\ hb' = [hb EXCEPT ![s] = "done"]
  /\ UNCHANGED <<subscribers, queue, heard, cid, gen, run, beats, sent, cuts, lateCut>>

\* The `finally` up to the gather: cancel whatever is not done yet.
EnterCleanup(s, how) ==
  /\ gen' = [gen EXCEPT ![s] = how]
  /\ hb' = [hb EXCEPT ![s] = IF @ = "done" THEN "done" ELSE "cancelling"]
  /\ run' = [run EXCEPT ![s] = IF @ \in RunEnds THEN @ ELSE "cancelling"]

\* get_event_task is done: yield its event.  A queued event is always taken
\* before pipeline_task's end is looked at.
Deliver(s) ==
  /\ gen[s] = "waiting"
  /\ run[s] # "ready"
  /\ Take(s)
  /\ sent' = [sent EXCEPT ![s] = Append(@, Head(queue[s]))]
  /\ gen' = [gen EXCEPT ![s] = "yielded"]
  /\ UNCHANGED <<cid, run, hb, beats, cuts, lateCut>>

\* The transport asks for the next event: return after a terminal one.
Resume(s) ==
  /\ gen[s] = "yielded"
  /\ IF Terminal(sent[s][Len(sent[s])])
     THEN EnterCleanup(s, "closing")
     ELSE gen' = [gen EXCEPT ![s] = "waiting"] /\ UNCHANGED <<run, hb>>
  /\ UNCHANGED <<subscribers, queue, heard, cid, beats, sent, cuts, lateCut>>

\* Mutant: no final event is made up for a run that raised.
DefensiveYieldNever(s) == FALSE

\* pipeline_task is done and nothing is queued: the defensive branch.  If the
\* task raised, a PipelineFailedEvent is synthesized and the generator, when
\* resumed after it, returns.
DefensiveYield(s) ==
  /\ gen[s] = "waiting"
  /\ queue[s] = <<>>
  /\ run[s] = "raised"
  /\ sent' = [sent EXCEPT ![s] = Append(@, Ev("final", s))]
  /\ gen' = [gen EXCEPT ![s] = "yielded"]
  /\ UNCHANGED <<subscribers, queue, heard, cid, run, hb, beats, cuts, lateCut>>

\* Mutant: the end of pipeline_task is looked at before the queue.
DefensiveReturnEager(s) ==
  /\ gen[s] = "waiting"
  /\ run[s] \in {"finished", "cancelled"}
  /\ EnterCleanup(s, "closing")
  /\ UNCHANGED <<subscribers, queue, heard, cid, beats, sent, cuts, lateCut>>

DefensiveReturn(s) ==
  /\ gen[s] = "waiting"
  /\ queue[s] = <<>>
  /\ run[s] \in {"finished", "cancelled"}
  /\ EnterCleanup(s, "closing")
  /\ UNCHANGED <<subscribers, queue, heard, cid, beats, sent, cuts, lateCut>>

\* The consuming task is cancelled (the client is gone).  Waiting, the
\* generator unwinds inside that task; at a yield it is left to the
\* async-generator finalizer; already in its `finally`, the cancellation
\* reaches the gather.
Cut(s) ==
  /\ gen[s] \in {"waiting", "yielded", "closing"}
  /\ run[s] # "ready"
  /\ cuts[s] < MaxCuts
  /\ cuts' = [cuts EXCEPT ![s] = @ + 1]
  /\ CASE gen[s] = "waiting" -> EnterCleanup(s, "closing") /\ lateCut' = lateCut
       [] gen[s] = "yielded" -> EnterCleanup(s, "detached") /\ lateCut' = lateCut
       [] OTHER -> /\ gen' = [gen EXCEPT ![s] = "aborted"]
                   /\ lateCut' = [lateCut EXCEPT ![s] = TRUE]
                   /\ UNCHANGED <<run, hb>>
  /\ UNCHANGED <<subscribers, queue, heard, cid, beats, sent>>

\* Mutant: only the heartbeat task is gathered.
TasksDoneHeartbeatOnly(s) == hb[s] = "done"

\* gather: both tasks are done.
TasksDone(s) == run[s] \in RunEnds /\ hb[s] = "done"

CleanupEnds(s) ==
  /\ gen[s] \in {"closing", "detached"}
  /\ TasksDone(s)
  /\ Unsubscribe(s, cid[s])
  /\ gen' = [gen EXCEPT ![s] = "closed"]
  /\ UNCHANGED <<cid, run, hb, beats, sent, cuts, lateCut>>

\* The cancelled gather still waits for its children, then raises: the
\* unsubscribe after it does not run.
CleanupAborts(s) ==
  /\ gen[s] = "aborted"
  /\ TasksDone(s)
  /\ gen' = [gen EXCEPT ![s] = "closed"]
  /\ UNCHANGED <<subscribers, queue, heard, cid, run, hb, beats, sent, cuts, lateCut>>

RunStep(s) ==
  \/ RunReachesDatabase(s)
  \/ RunEndsEarly(s)
  \/ RunEndsFinal(s)
  \/ \E end \in {"raised", "finished"} : RunEndsMute(s, end)
  \/ RunCancelled(s)

ConsumerStep(s) ==
  \/ Deliver(s)
  \/ Resume(s)
  \/ DefensiveYield(s)
  \/ DefensiveReturn(s)
  \/ CleanupEnds(s)
  \/ CleanupAborts(s)

Next ==
  \E s \in Streams :
    Open(s) \/ RunStep(s) \/ HeartbeatFires(s) \/ HeartbeatEnds(s) \/ ConsumerStep(s) \/ Cut(s)

\* The loop runs every ready task; a run's database call ends (30 s timeout);
\* the transport keeps asking for events.
Fairness ==
  \A s \in Streams :
    WF_vars(RunStep(s)) /\ WF_vars(HeartbeatEnds(s)) /\ WF_vars(ConsumerStep(s))

Spec == Init /\ [][Next]_vars /\ Fairness
-----------------------------------------------------------------------------
\* Types of the bus and of the three tasks of every stream.
TypeOK ==
  /\ subscribers \in [Ids -> SUBSET Streams]
  /\ queue \in [Streams -> Seq(Event)]
  /\ heard \in [Streams -> Seq(Event)]
  /\ cid \in [Streams -> Ids]
  /\ gen \in [Streams -> GenStates]
  /\ run \in [Streams -> RunStates]
  /\ hb \in [Streams -> HbStates]
  /\ beats \in 0..MaxHeartbeats
  /\ sent \in [Streams -> Seq(Event)]
  /\ cuts \in [Streams -> 0..MaxCuts]
  /\ lateCut \in [Streams -> BOOLEAN]

\* Rule 8: a closed stream leaves neither its run nor its heartbeat task
\* behind, and unless a cancellation reached its clean-up it is off the bus.
\* While it is open it is on the bus, so the unsubscribe cannot raise
\* UnknownSubscriptionError.
CleanClose ==
  \A s \in Streams :
    /\ gen[s] = "closed" => run[s] \in RunEnds /\ hb[s] = "done"
    /\ gen[s] = "closed" /\ ~lateCut[s] => \A i \in Ids : s \notin subscribers[i]
    /\ gen[s] \notin {"idle", "closed"} => s \in subscribers[cid[s]]

\* Nothing put into a subscriber's queue is lost, doubled or reordered on the
\* way to its client: what was yielded, then what is queued, is what was put.
Fifo ==
  \A s \in Streams : gen[s] = "waiting" => sent[s] \o queue[s] = heard[s]

\* The run ended by returning, without a terminal event of its own.
Silent(s) ==
  run[s] = "finished" /\ \A k \in DOMAIN heard[s] : ~(Terminal(heard[s][k]) /\ heard[s][k].of = s)

\* A terminal event is the last a client gets, and a client that stayed got
\* one: its run's, one made up for a run that raised, or another run's under
\* the same id.  It may miss it in one case, a run that ended silently: "always
\* emit a final event before closing must hold regardless" is not kept for it,
\* because the defensive branch makes one up for an exception only
\* (stream_pipeline_events).
FinalEvent ==
  \A s \in Streams :
    /\ gen[s] = "closed" /\ cuts[s] = 0 /\ ~Silent(s) =>
         sent[s] # <<>> /\ Terminal(sent[s][Len(sent[s])])
    /\ \A k \in DOMAIN sent[s] : Terminal(sent[s][k]) => k = Len(sent[s])

\* A stream whose correlation_id is its own shows its client its own run
\* only, and that run is cancelled only because its own client went away.
OwnRunOnly ==
  \A s \in Streams :
    (\A t \in Streams \ {s} : cid[t] # cid[s]) =>
      /\ \A k \in DOMAIN sent[s] : sent[s][k].of = s
      /\ run[s] \in {"cancelling", "cancelled"} => cuts[s] > 0

\* Every stream that was opened is closed in the end, and stays so
\* (stream_pipeline_events: the loop ends with the run, the `finally` with its tasks).
EventuallyClosed == <>[](\A s \in Streams : gen[s] \in {"idle", "closed"})
=============================================================================
