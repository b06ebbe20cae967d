------------------------------ MODULE Pipeline ------------------------------
(***************************************************************************)
(* One run of the QueryMind orchestrator: PipelineRunner.run,              *)
(* .generate_sql and .repair_sql (orchestrator/pipeline.py) under          *)
(* QueryMindEngine.ask, .ask_for_sql and .repair (orchestrator/engine.py). *)
(*                                                                         *)
(* The stages' own work is abstracted to the outcomes the orchestrator     *)
(* tells apart: a call returns or raises, SQL is valid or not, repair ends *)
(* with one of its statuses, execution with one of its own.  What is kept  *)
(* is the control: order of stages, StageTimings, the events handed to the *)
(* StageEventPublisher, the artifacts a failure carries and the response.  *)
(* Durations, messages and prompts are left out.                           *)
(***************************************************************************)
EXTENDS Naturals, Sequences, FiniteSets

CONSTANT Entries      \* the public methods of QueryMindEngine that are called

ASSUME EntriesAssumption == Entries \subseteq {"ask", "ask_for_sql", "repair"}

VARIABLES
  entry,             \* the QueryMindEngine method this run serves
  publisher,         \* was an event_publisher passed to `ask`?
  pc,                \* control point, see Points
  stage,             \* current_stage
  timings,           \* stage_timings, as the sequence of their stages
  art,               \* generated_sql, validation, repair and execution results
  repair_attempted,
  repair_performed,
  events,            \* everything the publisher was notified of, in order
  response           \* what the caller got back, kind "pending" until then

vars == <<entry, publisher, pc, stage, timings, art, repair_attempted,
          repair_performed, events, response>>
-----------------------------------------------------------------------------
Stages == {"nlu", "schema_linking", "business_knowledge", "retrieval",
           "prompt_compilation", "sql_generation", "llm", "sql_validation",
           "sql_repair", "sql_execution", "result_formatting"}

RepairStatus == {"repaired", "max_attempts_reached", "no_progress", "unrepairable"}

ExecutionStatus == {"success", "failed", "timeout", "rejected"}

Artifacts == [sql        : {"none", "generated", "repaired"},
              validation : {"none", "valid", "invalid"},
              repair     : {"none"} \cup RepairStatus,
              execution  : {"none"} \cup ExecutionStatus,
              answer     : BOOLEAN]

\* "begin": the next statement notifies stage_started;  "call": inside the
\* stage's own call;  "executed": execute() has returned;  "reply": every
\* call has returned and pipeline_completed is about to be published.
Points == {"idle", "begin", "call", "executed", "reply", "done", "cancelled"}

Event(type, s, status) == [type |-> type, stage |-> s, status |-> status]
Started(s)       == Event("stage_started", s, "none")
Completed(s)     == Event("stage_completed", s, "none")
StageFailed(s)   == Event("stage_failed", s, "none")
PipelineStarted  == Event("pipeline_started", "none", "none")
PipelineCompleted(status) == Event("pipeline_completed", "none", status)
PipelineFailed   == Event("pipeline_failed", "none", "failed")

EventTypes == {"pipeline_started", "stage_started", "stage_completed",
               "stage_failed", "pipeline_completed", "pipeline_failed"}
Events == [type : EventTypes, stage : Stages \cup {"none"},
           status : {"none", "success", "failed"}]
Terminals == {"pipeline_completed", "pipeline_failed"}

\* Every notification in the runner is guarded by `if event_publisher is not None`.
Notify(es) == events' = IF publisher THEN events \o es ELSE events

\* Mutant: the LLM call gets no timing of its own.
MeasureFirstOnly(ss) == timings' = IF entry = "repair" THEN timings ELSE timings \o <<ss[1]>>

\* `repair_sql` measures nothing; the other two append a StageTiming per stage.
Measure(ss) == timings' = IF entry = "repair" THEN timings ELSE timings \o ss

\* The stage that follows when the current one's call returns and nothing
\* branches; `repair_sql` goes from retrieval straight to the repair engine.
NextStage(s) ==
  CASE s = "nlu"                -> "schema_linking"
    [] s = "schema_linking"     -> "business_knowledge"
    [] s = "business_knowledge" -> "retrieval"
    [] s = "retrieval"          -> IF entry = "repair" THEN "sql_repair"
                                   ELSE "prompt_compilation"
    [] OTHER                    -> "sql_generation"

\* QueryMindResponse, GeneratedSqlResult, SQLRepairResult or a raised error.
Response(kind, status) ==
  [kind |-> kind, status |-> status, art |-> art', timings |-> timings',
   repair_attempted |-> repair_attempted', repair_performed |-> repair_performed']
-----------------------------------------------------------------------------
Init ==
  /\ entry \in Entries
  /\ publisher \in BOOLEAN
  /\ entry # "ask" => ~publisher
  /\ pc = "idle"
  /\ stage = "nlu"
  /\ timings = <<>>
  /\ art \in IF entry = "repair"
             THEN {[sql |-> "generated", validation |-> v, repair |-> "none",
                    execution |-> "none", answer |-> FALSE] : v \in {"valid", "invalid"}}
             ELSE {[sql |-> "none", validation |-> "none", repair |-> "none",
                    execution |-> "none", answer |-> FALSE]}
  /\ repair_attempted = FALSE
  /\ repair_performed = FALSE
  /\ events = <<>>
  /\ response = [kind |-> "pending", status |-> "none", art |-> art, timings |-> <<>>,
                 repair_attempted |-> FALSE, repair_performed |-> FALSE]

\* run(): pipeline_started is published before the first stage, outside any try.
Start ==
  /\ pc = "idle"
  /\ pc' = "begin"
  /\ Notify(<<PipelineStarted>>)
  /\ UNCHANGED <<entry, publisher, stage, timings, art, repair_attempted,
                 repair_performed, response>>

\* _notify_started, or the inline stage_started of run().
BeginStage ==
  /\ pc = "begin"
  /\ pc' = "call"
  /\ Notify(<<Started(stage)>>)
  /\ UNCHANGED <<entry, publisher, stage, timings, art, repair_attempted,
                 repair_performed, response>>

\* parse / link / load / retrieve / compile returned; _notify_completed.
PreparationReturns ==
  /\ pc = "call"
  /\ stage \in {"nlu", "schema_linking", "business_knowledge", "retrieval",
                "prompt_compilation"}
  /\ Measure(<<stage>>)
  /\ Notify(<<Completed(stage)>>)
  /\ stage' = NextStage(stage)
  /\ pc' = "begin"
  /\ UNCHANGED <<entry, publisher, art, repair_attempted, repair_performed, response>>

\* Mutant: the LLM's pair of events is published inside the generation's.
GenerationReturnsNested ==
  /\ pc = "call"
  /\ stage = "sql_generation"
  /\ art' = [art EXCEPT !.sql = "generated"]
  /\ Measure(<<"llm", "sql_generation">>)
  /\ Notify(<<Started("llm"), Completed("llm"), Completed("sql_generation")>>)
  /\ stage' = "sql_validation"
  /\ pc' = "begin"
  /\ UNCHANGED <<entry, publisher, repair_attempted, repair_performed, response>>

\* generate() returned; the LLM call inside it gets a timing and a pair of
\* events of its own, after the SQL_GENERATION ones.
GenerationReturns ==
  /\ pc = "call"
  /\ stage = "sql_generation"
  /\ art' = [art EXCEPT !.sql = "generated"]
  /\ Measure(<<"sql_generation", "llm">>)
  /\ Notify(<<Completed("sql_generation"), Started("llm"), Completed("llm")>>)
  /\ stage' = "sql_validation"
  /\ pc' = "begin"
  /\ UNCHANGED <<entry, publisher, repair_attempted, repair_performed, response>>

\* What follows once the final SQL and its validation are known:
\* generate_sql answers, run() goes on to execution.
AfterGeneration ==
  IF entry = "ask_for_sql"
  THEN /\ pc' = "done"
       /\ stage' = stage
       /\ response' = Response("generated_sql", "none")
  ELSE /\ pc' = "begin"
       /\ stage' = "sql_execution"
       /\ response' = response

ValidationReturns(verdict) ==
  /\ pc = "call"
  /\ stage = "sql_validation"
  /\ art' = [art EXCEPT !.validation = verdict]
  /\ Measure(<<stage>>)
  /\ Notify(<<Completed(stage)>>)
  /\ repair_attempted' = (verdict = "invalid")
  /\ repair_performed' = repair_performed
  /\ IF verdict = "valid"
     THEN AfterGeneration
     ELSE pc' = "begin" /\ stage' = "sql_repair" /\ response' = response
  /\ UNCHANGED <<entry, publisher>>

\* Mutant: every repair counts as performed, whatever its status.
RepairReturnsOptimistic(status, tried) ==
  /\ pc = "call"
  /\ stage = "sql_repair"
  /\ status # "unrepairable" => tried
  /\ art' = [art EXCEPT
               !.repair = status,
               !.sql = IF tried THEN "repaired" ELSE art.sql,
               !.validation = IF status = "repaired" THEN "valid"
                              ELSE IF tried THEN "invalid" ELSE art.validation]
  /\ Measure(<<stage>>)
  /\ Notify(<<Completed(stage)>>)
  /\ repair_attempted' = repair_attempted
  /\ repair_performed' = TRUE
  /\ IF entry = "repair"
     THEN pc' = "done" /\ stage' = stage /\ response' = Response("repair_result", "none")
     ELSE AfterGeneration
  /\ UNCHANGED <<entry, publisher>>

\* SQLRepairResult.status is REPAIRED exactly when the last attempt's SQL is
\* valid; with no attempt at all (unrepairable) SQL and validation are the
\* ones that went in (RepairLoop.tla shows both).
RepairReturns(status, tried) ==
  /\ pc = "call"
  /\ stage = "sql_repair"
  /\ status # "unrepairable" => tried
  /\ art' = [art EXCEPT
               !.repair = status,
               !.sql = IF tried THEN "repaired" ELSE art.sql,
               !.validation = IF status = "repaired" THEN "valid"
                              ELSE IF tried THEN "invalid" ELSE art.validation]
  /\ Measure(<<stage>>)
  /\ Notify(<<Completed(stage)>>)
  /\ repair_attempted' = repair_attempted
  /\ repair_performed' = (entry # "repair" /\ status = "repaired")
  /\ IF entry = "repair"
     THEN pc' = "done" /\ stage' = stage /\ response' = Response("repair_result", "none")
     ELSE AfterGeneration
  /\ UNCHANGED <<entry, publisher>>

\* Mutant: the guard does not look at the validation result.
ExecutionReturnsUnguarded(status) ==
  /\ pc = "call"
  /\ stage = "sql_execution"
  /\ art' = [art EXCEPT !.execution = status]
  /\ Measure(<<stage>>)
  /\ Notify(<<Completed(stage)>>)
  /\ pc' = "executed"
  /\ UNCHANGED <<entry, publisher, stage, repair_attempted, repair_performed, response>>

\* execute() returned a SQLExecutionResult.  ExecutionGuard.check rejects SQL
\* whose validation is not valid, and may reject valid SQL too.
ExecutionReturns(status) ==
  /\ pc = "call"
  /\ stage = "sql_execution"
  /\ art.validation = "valid" \/ status = "rejected"
  /\ art' = [art EXCEPT !.execution = status]
  /\ Measure(<<stage>>)
  /\ Notify(<<Completed(stage)>>)
  /\ pc' = "executed"
  /\ UNCHANGED <<entry, publisher, stage, repair_attempted, repair_performed, response>>

\* Mutant: the listener is told that a run whose SQL failed was a success.
SoftFailureAsSuccess ==
  /\ pc = "executed"
  /\ art.execution # "success"
  /\ Notify(<<PipelineCompleted("success")>>)
  /\ pc' = "done"
  /\ UNCHANGED <<entry, publisher, stage, timings, art, repair_attempted, repair_performed>>
  /\ response' = Response("response", "failed")

\* status is not SUCCESS: a FAILED response is returned, not raised, and
\* pipeline_completed is published all the same.
SoftFailure ==
  /\ pc = "executed"
  /\ art.execution # "success"
  /\ Notify(<<PipelineCompleted("failed")>>)
  /\ pc' = "done"
  /\ UNCHANGED <<entry, publisher, stage, timings, art, repair_attempted, repair_performed>>
  /\ response' = Response("response", "failed")

ContinueToFormatting ==
  /\ pc = "executed"
  /\ art.execution = "success"
  /\ stage' = "result_formatting"
  /\ pc' = "begin"
  /\ UNCHANGED <<entry, publisher, timings, art, repair_attempted, repair_performed,
                 events, response>>

FormattingReturns ==
  /\ pc = "call"
  /\ stage = "result_formatting"
  /\ Measure(<<stage>>)
  /\ Notify(<<Completed(stage)>>)
  /\ pc' = "reply"
  /\ UNCHANGED <<entry, publisher, stage, art, repair_attempted, repair_performed, response>>

\* The SUCCESS response is built and pipeline_completed published.
Reply ==
  /\ pc = "reply"
  /\ art' = [art EXCEPT !.answer = TRUE]
  /\ Notify(<<PipelineCompleted("success")>>)
  /\ pc' = "done"
  /\ UNCHANGED <<entry, publisher, stage, timings, repair_attempted, repair_performed>>
  /\ response' = Response("response", "success")

\* The two `except Exception` handlers: stage_failed, wrap, pipeline_failed,
\* raise; `ask` turns the wrapped error into a FAILED response with every
\* artifact it carries.  ask_for_sql and repair let the error out.
HandleException ==
  /\ Notify(<<StageFailed(stage), PipelineFailed>>)
  /\ pc' = "done"
  /\ UNCHANGED <<entry, publisher, stage, timings, art, repair_attempted, repair_performed>>
  /\ response' = IF entry = "ask" THEN Response("response", "failed")
                 ELSE Response("raised", "none")

\* A stage's own call raises.
StageRaises ==
  /\ pc = "call"
  /\ HandleException

\* PipelineCompletedEvent.create dumps the BusinessAnswer to JSON inside the
\* try; its cells are of type Any, and one that has no JSON form raises there.
AnswerNotSerializable ==
  /\ pc = "reply"
  /\ publisher
  /\ HandleException

\* Cancellation can only land at the one real suspension point, the database
\* call (reached with valid SQL only).  CancelledError is not an Exception: no
\* handler runs and nothing more is published.
Cancel ==
  /\ pc = "call"
  /\ stage = "sql_execution"
  /\ art.validation = "valid"
  /\ pc' = "cancelled"
  /\ UNCHANGED <<entry, publisher, stage, timings, art, repair_attempted,
                 repair_performed, events, response>>

Step ==
  \/ Start
  \/ BeginStage
  \/ PreparationReturns
  \/ GenerationReturns
  \/ \E verdict \in {"valid", "invalid"} : ValidationReturns(verdict)
  \/ \E status \in RepairStatus, tried \in BOOLEAN : RepairReturns(status, tried)
  \/ \E status \in ExecutionStatus : ExecutionReturns(status)
  \/ SoftFailure
  \/ ContinueToFormatting
  \/ FormattingReturns
  \/ Reply
  \/ StageRaises
  \/ AnswerNotSerializable

Next == Step \/ Cancel

\* Every stage call is bounded (LLM retries are finite, execution has a
\* timeout), so a run that is not cancelled keeps moving.
Spec == Init /\ [][Next]_vars /\ WF_vars(Step)
-----------------------------------------------------------------------------
Responses == [kind : {"pending", "response", "generated_sql", "repair_result", "raised"},
              status : {"none", "success", "failed"},
              art : Artifacts, timings : Seq(Stages),
              repair_attempted : BOOLEAN, repair_performed : BOOLEAN]

\* The variables hold what the orchestrator's annotations say they hold.
TypeOK ==
  /\ entry \in Entries
  /\ publisher \in BOOLEAN
  /\ pc \in Points
  /\ stage \in Stages
  /\ timings \in Seq(Stages)
  /\ art \in Artifacts
  /\ repair_attempted \in BOOLEAN
  /\ repair_performed \in BOOLEAN
  /\ events \in Seq(Events)
  /\ response \in Responses

\* Stages begun and not yet ended among the first k notifications.
OpenAfter(k) ==
  {s \in Stages : \E i \in 1..k :
     /\ events[i] = Started(s)
     /\ \A j \in i..k : events[j] \notin {Completed(s), StageFailed(s)}}

\* A listener can follow the run with one "current stage": at every point of
\* the published trace at most one stage is open, no stage begins twice, and
\* a stage is reported completed only while it is the open one.
StagesNest ==
  \A k \in DOMAIN events :
    /\ \A s, t \in OpenAfter(k) : s = t
    /\ events[k].type = "stage_completed" => OpenAfter(k - 1) = {events[k].stage}
    /\ events[k].type = "stage_started" =>
         \A i \in 1..(k - 1) : events[i] # events[k]

\* How many stages the first k notifications report completed.
CompletedAfter(k) == Cardinality({i \in 1..k : events[i].type = "stage_completed"})

\* The stages a listener saw completed are the stages the response's
\* statistics are built from, in the same order, also after a failure: the
\* n-th completion published is the n-th timing.
EventsMatchTimings ==
  publisher =>
    /\ Len(timings) = CompletedAfter(Len(events))
    /\ \A k \in DOMAIN events : events[k].type = "stage_completed" =>
         timings[CompletedAfter(k)] = events[k].stage

\* A terminal event is published exactly when the caller is answered, it is
\* the last event, and it tells the listener what the caller is told: a
\* pipeline_failed always means a FAILED response, and follows the
\* stage_failed of the stage the error names.
TerminalAgrees ==
  /\ \A i \in DOMAIN events :
       events[i].type \in Terminals =>
         /\ i = Len(events)
         /\ pc = "done"
         /\ events[i].status = response.status
         /\ events[i].type = "pipeline_failed" => events[i - 1] = StageFailed(stage)
  /\ publisher /\ pc = "done" => events[Len(events)].type \in Terminals

\* A response is "as complete and honest as possible": each artifact is there
\* exactly when its stage is timed as finished, repair is reported performed
\* only if the SQL handed back is the repaired and valid one, and an answer
\* comes with SUCCESS only.
ResponseHonest ==
  LET a == response.art
      Timed(s) == \E i \in DOMAIN response.timings : response.timings[i] = s
  IN  response.kind \in {"response", "generated_sql"} =>
        /\ Timed("sql_generation") <=> a.sql # "none"
        /\ Timed("sql_validation") <=> a.validation # "none"
        /\ Timed("sql_repair") <=> a.repair # "none"
        /\ Timed("sql_execution") <=> a.execution # "none"
        /\ response.repair_performed <=> a.repair = "repaired"
        /\ response.repair_performed => a.sql = "repaired" /\ a.validation = "valid"
        /\ a.repair # "none" => response.repair_attempted
        /\ response.status = "success" <=> a.answer

\* QueryContract.tla's view of a run.
Contract == INSTANCE QueryContract WITH
  mayRun  <- entry = "ask",
  vetted  <- art.validation = "valid",
  ran     <- CASE art.execution = "success" -> "ok"
               [] art.execution \in {"failed", "timeout"} -> "bad"
               [] OTHER -> "no",
  outcome <- CASE pc = "cancelled" -> "cancelled"
               [] pc # "cancelled" /\ response.kind = "pending" -> "open"
               [] response.kind = "raised" -> "raised"
               [] response.kind = "response" -> response.status
               [] OTHER -> "returned"

\* The orchestrator implements QueryContract, liveness included.
ImplementsContract == Contract!QSpec
=============================================================================
