--------------------------- MODULE PipelineProofs ---------------------------
(***************************************************************************)
(* The orchestrator keeps its types and implements QueryContract (its      *)
(* safety part) for every choice of entry points; its events, timings and  *)
(* answers agree.  Where (below) is the strengthening for the first two:   *)
(* which artifacts a control point implies.  Traced, Told and Honest add   *)
(* what the events, the last event and the answer say of the stages.       *)
(***************************************************************************)
EXTENDS Pipeline, FiniteSetTheorems, TLAPS

ArtType == art \in Artifacts
RepairStages == {"nlu", "schema_linking", "business_knowledge", "retrieval", "sql_repair"}
LateStages == {"sql_execution", "result_formatting"}

\* Control and artifacts agree: only `ask` gets to execution, execution
\* happens once, after validation, and an answer exists only at the end.
Where ==
  /\ response.kind = "pending" <=> pc # "done"
  /\ entry = "repair" => stage \in RepairStages
  /\ stage \in LateStages => entry = "ask"
  /\ pc \in {"executed", "reply"} => stage \in LateStages
  /\ pc = "executed" => stage = "sql_execution" /\ art.execution # "none"
  /\ pc = "reply" => stage = "result_formatting"
  /\ pc = "idle" => stage = "nlu"
  /\ stage = "result_formatting" => art.execution = "success"
  /\ stage # "result_formatting" /\ pc \notin {"executed", "done"} => art.execution = "none"
  /\ art.execution \in {"success", "failed", "timeout"} => art.validation = "valid"

IInv == TypeOK /\ Where

\* The sequences of events and timings only grow by well-typed pieces.
LEMMA NotifyTyped ==
  ASSUME events \in Seq(Events), NEW es \in Seq(Events), Notify(es)
  PROVE  events' \in Seq(Events)
  BY DEF Notify

LEMMA MeasureTyped ==
  ASSUME timings \in Seq(Stages), NEW ss \in Seq(Stages), Measure(ss)
  PROVE  timings' \in Seq(Stages)
  BY DEF Measure

LEMMA EventsTyped ==
  /\ PipelineStarted \in Events
  /\ PipelineFailed \in Events
  /\ PipelineCompleted("success") \in Events
  /\ PipelineCompleted("failed") \in Events
  /\ \A s \in Stages : Started(s) \in Events /\ Completed(s) \in Events /\ StageFailed(s) \in Events
  BY DEF PipelineStarted, PipelineFailed, PipelineCompleted, Started, Completed, StageFailed,
         Event, Events, EventTypes

LEMMA ResponseTyped ==
  ASSUME art' \in Artifacts, timings' \in Seq(Stages), repair_attempted' \in BOOLEAN,
         repair_performed' \in BOOLEAN,
         NEW kind \in {"response", "generated_sql", "repair_result", "raised"},
         NEW status \in {"none", "success", "failed"}
  PROVE  /\ Response(kind, status) \in Responses
         /\ Response(kind, status).kind = kind
         /\ Response(kind, status).status = status
  BY DEF Response, Responses

LEMMA InitIInv == Init => IInv
<1> SUFFICES ASSUME Init PROVE IInv
  OBVIOUS
<1>1. art \in Artifacts /\ art.execution = "none"
  <2>1. CASE entry = "repair"
    <3>1. PICK v \in {"valid", "invalid"} :
            art = [sql |-> "generated", validation |-> v, repair |-> "none",
                   execution |-> "none", answer |-> FALSE]
      BY <2>1 DEF Init
    <3> QED BY <3>1 DEF Artifacts
  <2>2. CASE entry # "repair"
    <3>1. art = [sql |-> "none", validation |-> "none", repair |-> "none",
                 execution |-> "none", answer |-> FALSE]
      BY <2>2 DEF Init
    <3> QED BY <3>1 DEF Artifacts
  <2> QED BY <2>1, <2>2
<1>2. response \in Responses /\ response.kind = "pending"
  BY <1>1 DEF Init, Responses
<1>3. TypeOK
  <2>1. timings \in Seq(Stages) /\ events \in Seq(Events)
    BY DEF Init
  <2>2. pc \in Points /\ stage \in Stages
    BY DEF Init, Points, Stages
  <2> QED BY <1>1, <1>2, <2>1, <2>2 DEF Init, TypeOK
<1>4. Where
  BY <1>1, <1>2 DEF Init, Where, RepairStages, LateStages
<1> QED BY <1>3, <1>4 DEF IInv

LEMMA StartKeepsIInv == IInv /\ (Start \/ BeginStage) => IInv'
<1> SUFFICES ASSUME IInv, Start \/ BeginStage PROVE IInv'
  OBVIOUS
<1>1. events' \in Seq(Events)
  <2>1. <<PipelineStarted>> \in Seq(Events) /\ <<Started(stage)>> \in Seq(Events)
    BY EventsTyped DEF IInv, TypeOK
  <2>2. CASE Start
    BY <2>1, <2>2, NotifyTyped DEF IInv, TypeOK, Start
  <2>3. CASE BeginStage
    BY <2>1, <2>3, NotifyTyped DEF IInv, TypeOK, BeginStage
  <2> QED BY <2>2, <2>3
<1>2. TypeOK'
  BY <1>1 DEF IInv, TypeOK, Start, BeginStage, Points
<1>3. Where'
  BY DEF IInv, TypeOK, Where, Start, BeginStage, LateStages
<1> QED BY <1>2, <1>3 DEF IInv

LEMMA PreparationKeepsIInv == IInv /\ PreparationReturns => IInv'
<1> SUFFICES ASSUME IInv, PreparationReturns PROVE IInv'
  OBVIOUS
<1> USE DEF IInv, TypeOK, PreparationReturns
<1>1. stage' \in Stages
  BY DEF NextStage, Stages
<1>2. events' \in Seq(Events) /\ timings' \in Seq(Stages)
  <2>1. <<Completed(stage)>> \in Seq(Events) /\ <<stage>> \in Seq(Stages)
    BY EventsTyped
  <2> QED BY <2>1, NotifyTyped, MeasureTyped
<1>3. TypeOK'
  BY <1>1, <1>2 DEF Points
<1>4. Where'
  BY <1>1 DEF Where, NextStage, LateStages, RepairStages
<1> QED BY <1>3, <1>4

LEMMA GenerationKeepsIInv == IInv /\ GenerationReturns => IInv'
<1> SUFFICES ASSUME IInv, GenerationReturns PROVE IInv'
  OBVIOUS
<1> USE DEF IInv, TypeOK, GenerationReturns
<1>1. stage \in Stages /\ "llm" \in Stages /\ stage' \in Stages /\ "sql_generation" \in Stages
  BY DEF Stages
<1>2. events' \in Seq(Events) /\ timings' \in Seq(Stages)
  <2>1. <<Completed("sql_generation"), Started("llm"), Completed("llm")>> \in Seq(Events)
    BY <1>1, EventsTyped
  <2>2. <<"sql_generation", "llm">> \in Seq(Stages)
    BY <1>1
  <2> QED BY <2>1, <2>2, NotifyTyped, MeasureTyped
<1>3. art' \in Artifacts /\ art'.validation = art.validation /\ art'.execution = art.execution
  BY DEF Artifacts
<1>4. TypeOK'
  BY <1>1, <1>2, <1>3 DEF Points
<1>5. Where'
  BY <1>1, <1>3 DEF Where, LateStages, RepairStages
<1> QED BY <1>4, <1>5

\* Common to the stages that end in AfterGeneration or in a response.
LEMMA ValidationKeepsIInv ==
  ASSUME IInv, NEW verdict \in {"valid", "invalid"}, ValidationReturns(verdict)
  PROVE  IInv'
<1> USE DEF IInv, TypeOK, ValidationReturns
<1>1. events' \in Seq(Events) /\ timings' \in Seq(Stages)
  <2>1. <<Completed(stage)>> \in Seq(Events) /\ <<stage>> \in Seq(Stages)
    BY EventsTyped
  <2> QED BY <2>1, NotifyTyped, MeasureTyped
<1>2. art' \in Artifacts /\ art'.execution = art.execution /\ art'.validation = verdict
  BY DEF Artifacts
<1>3. repair_attempted' \in BOOLEAN /\ repair_performed' \in BOOLEAN
  OBVIOUS
<1>4. art.execution = "none" /\ entry # "repair" /\ response.kind = "pending"
  BY DEF Where, RepairStages
<1>5. /\ Response("generated_sql", "none") \in Responses
      /\ Response("generated_sql", "none").kind = "generated_sql"
  BY <1>1, <1>2, <1>3, ResponseTyped
<1>6. /\ stage' \in Stages /\ pc' \in Points /\ response' \in Responses
      /\ \/ pc' = "done" /\ stage' = "sql_validation" /\ response'.kind = "generated_sql"
         \/ pc' = "begin" /\ stage' = "sql_execution" /\ response' = response /\ entry = "ask"
         \/ pc' = "begin" /\ stage' = "sql_repair" /\ response' = response
  <2>1. entry \in {"ask", "ask_for_sql"}
    BY <1>4, EntriesAssumption
  <2> QED BY <1>5, <2>1 DEF AfterGeneration, Stages, Points
<1>7. TypeOK'
  BY <1>1, <1>2, <1>3, <1>6
<1>8. Where'
  BY <1>2, <1>4, <1>6 DEF Where, LateStages, RepairStages
<1> QED BY <1>7, <1>8

LEMMA RepairKeepsIInv ==
  ASSUME IInv, NEW status \in RepairStatus, NEW tried \in BOOLEAN, RepairReturns(status, tried)
  PROVE  IInv'
<1> USE DEF IInv, TypeOK, RepairReturns
<1>1. events' \in Seq(Events) /\ timings' \in Seq(Stages)
  <2>1. <<Completed(stage)>> \in Seq(Events) /\ <<stage>> \in Seq(Stages)
    BY EventsTyped
  <2> QED BY <2>1, NotifyTyped, MeasureTyped
<1>2. art' \in Artifacts /\ art'.execution = art.execution
  BY DEF Artifacts
<1>3. repair_attempted' \in BOOLEAN /\ repair_performed' \in BOOLEAN
  OBVIOUS
<1>4. art.execution = "none" /\ response.kind = "pending"
  BY DEF Where
<1>5. /\ Response("generated_sql", "none") \in Responses
      /\ Response("generated_sql", "none").kind = "generated_sql"
      /\ Response("repair_result", "none") \in Responses
      /\ Response("repair_result", "none").kind = "repair_result"
  BY <1>1, <1>2, <1>3, ResponseTyped
<1>6. /\ stage' \in Stages /\ pc' \in Points /\ response' \in Responses
      /\ \/ pc' = "done" /\ stage' = "sql_repair" /\ entry # "ask"
            /\ response'.kind \in {"generated_sql", "repair_result"}
         \/ pc' = "begin" /\ stage' = "sql_execution" /\ response' = response /\ entry = "ask"
  <2>1. entry \in {"ask", "ask_for_sql", "repair"}
    BY EntriesAssumption
  <2> QED BY <1>5, <2>1 DEF AfterGeneration, Stages, Points
<1>7. TypeOK'
  BY <1>1, <1>2, <1>3, <1>6
<1>8. Where'
  BY <1>2, <1>4, <1>6 DEF Where, LateStages, RepairStages
<1> QED BY <1>7, <1>8

LEMMA ExecutionKeepsIInv ==
  ASSUME IInv, NEW status \in ExecutionStatus, ExecutionReturns(status)
  PROVE  IInv'
<1> USE DEF IInv, TypeOK, ExecutionReturns
<1>1. events' \in Seq(Events) /\ timings' \in Seq(Stages)
  <2>1. <<Completed(stage)>> \in Seq(Events) /\ <<stage>> \in Seq(Stages)
    BY EventsTyped
  <2> QED BY <2>1, NotifyTyped, MeasureTyped
<1>2. art' \in Artifacts /\ art'.execution = status /\ art'.validation = art.validation
      /\ status # "none"
  BY DEF Artifacts, ExecutionStatus
<1>3. TypeOK'
  BY <1>1, <1>2 DEF Points
<1>4. Where'
  BY <1>2 DEF Where, LateStages, RepairStages
<1> QED BY <1>3, <1>4

LEMMA FormattingKeepsIInv == IInv /\ (ContinueToFormatting \/ FormattingReturns) => IInv'
<1> SUFFICES ASSUME IInv, ContinueToFormatting \/ FormattingReturns PROVE IInv'
  OBVIOUS
<1> USE DEF IInv, TypeOK
<1>1. CASE ContinueToFormatting
  <2>1. TypeOK'
    BY <1>1 DEF ContinueToFormatting, Stages, Points
  <2>2. Where'
    BY <1>1 DEF ContinueToFormatting, Where, LateStages, RepairStages
  <2> QED BY <2>1, <2>2
<1>2. CASE FormattingReturns
  <2>1. events' \in Seq(Events) /\ timings' \in Seq(Stages)
    <3>1. <<Completed(stage)>> \in Seq(Events) /\ <<stage>> \in Seq(Stages)
      BY EventsTyped
    <3> QED BY <1>2, <3>1, NotifyTyped, MeasureTyped DEF FormattingReturns
  <2>2. TypeOK'
    BY <1>2, <2>1 DEF FormattingReturns, Points
  <2>3. Where'
    BY <1>2 DEF FormattingReturns, Where, LateStages, RepairStages
  <2> QED BY <2>2, <2>3
<1> QED BY <1>1, <1>2

\* The steps that answer the caller with what is at hand.
LEMMA AnswerKeepsIInv ==
  ASSUME IInv, SoftFailure \/ Reply \/ StageRaises \/ AnswerNotSerializable
  PROVE  IInv'
<1> USE DEF IInv, TypeOK
<1>1. /\ pc \in {"executed", "reply", "call"} /\ pc' = "done"
      /\ UNCHANGED <<entry, publisher, stage, timings, repair_attempted, repair_performed>>
  BY DEF SoftFailure, Reply, StageRaises, AnswerNotSerializable, HandleException
<1>2. events' \in Seq(Events)
  <2>1. /\ <<PipelineCompleted("failed")>> \in Seq(Events)
        /\ <<PipelineCompleted("success")>> \in Seq(Events)
        /\ <<StageFailed(stage), PipelineFailed>> \in Seq(Events)
    BY EventsTyped
  <2>2. \E es \in Seq(Events) : Notify(es)
    BY <2>1 DEF SoftFailure, Reply, StageRaises, AnswerNotSerializable, HandleException
  <2> QED BY <2>2, NotifyTyped
<1>3. art' \in Artifacts /\ art'.execution = art.execution /\ art'.validation = art.validation
  BY DEF SoftFailure, Reply, StageRaises, AnswerNotSerializable, HandleException, Artifacts
<1>4. response' \in Responses /\ response'.kind # "pending"
  <2>1. \E kind \in {"response", "raised"}, status \in {"none", "success", "failed"} :
          response' = Response(kind, status)
    BY DEF SoftFailure, Reply, StageRaises, AnswerNotSerializable, HandleException
  <2>2. PICK kind \in {"response", "raised"}, status \in {"none", "success", "failed"} :
          response' = Response(kind, status)
    BY <2>1
  <2> QED BY <2>2, <1>1, <1>3, ResponseTyped
<1>5. TypeOK'
  BY <1>1, <1>2, <1>3, <1>4 DEF Points
<1>6. Where'
  BY <1>1, <1>3, <1>4 DEF Where, LateStages, RepairStages
<1> QED BY <1>5, <1>6

LEMMA CancelKeepsIInv == IInv /\ Cancel => IInv'
  BY DEF IInv, TypeOK, Where, Cancel, Points, LateStages, RepairStages

LEMMA NextKeepsIInv == IInv /\ [Next]_vars => IInv'
<1> SUFFICES ASSUME IInv, [Next]_vars PROVE IInv'
  OBVIOUS
<1>1. CASE UNCHANGED vars
  BY <1>1 DEF IInv, TypeOK, Where, vars
<1>2. CASE Step
  BY <1>2, StartKeepsIInv, PreparationKeepsIInv, GenerationKeepsIInv, ValidationKeepsIInv,
     RepairKeepsIInv, ExecutionKeepsIInv, FormattingKeepsIInv, AnswerKeepsIInv DEF Step
<1>3. CASE Cancel
  BY <1>3, CancelKeepsIInv
<1> QED BY <1>1, <1>2, <1>3 DEF Next

\* Types, and what each control point implies, hold in every run.
THEOREM Invariance == Spec => []IInv
  BY InitIInv, NextKeepsIInv, PTL DEF Spec

\* In every run of the orchestrator its variables hold what they should.
THEOREM TypeCorrect == Spec => []TypeOK
<1>1. IInv => TypeOK
  BY DEF IInv
<1> QED BY Invariance, <1>1, PTL
-----------------------------------------------------------------------------
(* The refinement.  Ran and Outcome are the substitutions of Contract. *)

Ran == CASE art.execution = "success" -> "ok"
         [] art.execution \in {"failed", "timeout"} -> "bad"
         [] OTHER -> "no"

Outcome == CASE pc = "cancelled" -> "cancelled"
             [] pc # "cancelled" /\ response.kind = "pending" -> "open"
             [] response.kind = "raised" -> "raised"
             [] response.kind = "response" -> response.status
             [] OTHER -> "returned"

LEMMA RanOf ==
  ASSUME IInv
  PROVE  /\ Ran \in {"no", "ok", "bad"}
         /\ Ran = "ok" <=> art.execution = "success"
         /\ art.execution \in {"none", "rejected"} => Ran = "no"
         /\ pc \notin {"done", "cancelled"} => Outcome = "open"
  BY DEF IInv, TypeOK, Where, Artifacts, ExecutionStatus, Ran, Outcome

LEMMA InitRefines == Init => Contract!QInit
<1> SUFFICES ASSUME Init PROVE Contract!QInit
  OBVIOUS
<1>1. IInv /\ pc = "idle" /\ art.execution = "none"
  BY InitIInv DEF Init, IInv, Where
<1>2. Ran = "no" /\ Outcome = "open"
  BY <1>1, RanOf
<1> QED BY <1>2 DEF Contract!QInit, Ran, Outcome

\* A step that keeps entry, artifacts and answer, and cancels nothing, is
\* invisible to the contract.
LEMMA InvisibleStep ==
  ASSUME entry' = entry, art' = art, response' = response, pc # "cancelled", pc' # "cancelled"
  PROVE  UNCHANGED Contract!qvars
  BY DEF Contract!qvars

LEMMA VetRefines ==
  ASSUME IInv, entry' = entry, response' = response, art'.execution = art.execution,
         art.execution = "none", pc \notin {"done", "cancelled"}, pc' # "cancelled"
  PROVE  Contract!Vet
  BY RanOf DEF Contract!Vet, Ran, Outcome

LEMMA RunRefines ==
  ASSUME IInv, entry' = entry, response' = response, entry = "ask",
         art'.execution \in {"success", "failed", "timeout"},
         art.execution = "none", art.validation = "valid", art'.validation = art.validation,
         pc \notin {"done", "cancelled"}, pc' # "cancelled"
  PROVE  Contract!Run
<1>1. Ran = "no" /\ Outcome = "open"
  BY RanOf
<1>2. Ran' \in {"ok", "bad"} /\ Outcome' = Outcome
  BY DEF Ran, Outcome
<1> QED BY <1>1, <1>2 DEF Contract!Run, Ran, Outcome

LEMMA AnswerRefines ==
  ASSUME IInv, entry' = entry, art'.execution = art.execution,
         pc \notin {"done", "cancelled"}, pc' = "done",
         art.execution = "none" \/ art'.validation = art.validation,
         \/ /\ entry = "ask"
            /\ response'.kind = "response"
            /\ \/ response'.status = "failed"
               \/ response'.status = "success" /\ art.execution = "success"
         \/ /\ entry # "ask"
            /\ response'.kind \in {"raised", "generated_sql", "repair_result"}
  PROVE  Contract!Answer
<1>1. Outcome = "open" /\ (art.execution = "none" => Ran = "no")
      /\ (Ran = "ok" <=> art.execution = "success")
  BY RanOf
<1>2. Ran' = Ran
  BY DEF Ran
<1>3. \/ entry = "ask" /\ Outcome' = "success" /\ Ran = "ok"
      \/ entry = "ask" /\ Outcome' = "failed"
      \/ entry # "ask" /\ Outcome' \in {"returned", "raised"}
  BY <1>1 DEF Outcome
<1> QED BY <1>1, <1>2, <1>3 DEF Contract!Answer, Ran, Outcome

LEMMA AbandonRefines == IInv /\ Cancel => Contract!Abandon
<1> SUFFICES ASSUME IInv, Cancel PROVE Contract!Abandon
  OBVIOUS
<1>1. entry = "ask" /\ art.execution = "none" /\ Ran = "no" /\ Outcome = "open"
  BY RanOf DEF IInv, Where, Cancel, LateStages
<1>2. Outcome' = "cancelled"
  <2>1. pc' = "cancelled" /\ response'.kind = "pending"
    BY DEF Cancel, IInv, Where
  <2> QED BY <2>1 DEF Outcome
<1>3. Ran' = Ran
  BY DEF Cancel, Ran
<1> QED BY <1>1, <1>2, <1>3 DEF Cancel, Contract!Abandon, Ran, Outcome

\* What the fields of a response are, without typing the rest of it.
LEMMA ResponseFields ==
  ASSUME NEW kind, NEW status
  PROVE  Response(kind, status).kind = kind /\ Response(kind, status).status = status
  BY DEF Response

LEMMA StepRefines ==
  ASSUME IInv, Step
  PROVE  Contract!QNext \/ UNCHANGED Contract!qvars
<1>1. CASE Start \/ BeginStage \/ PreparationReturns \/ ContinueToFormatting \/ FormattingReturns
  BY <1>1, InvisibleStep
     DEF Start, BeginStage, PreparationReturns, ContinueToFormatting, FormattingReturns
<1>2. CASE GenerationReturns
  <2>1. art.execution = "none" /\ art'.execution = art.execution
    BY <1>2 DEF GenerationReturns, IInv, TypeOK, Where, Artifacts
  <2> QED BY <1>2, <2>1, VetRefines DEF GenerationReturns, Contract!QNext
<1>3. ASSUME NEW verdict \in {"valid", "invalid"}, ValidationReturns(verdict)
      PROVE  Contract!QNext
  <2>1. art.execution = "none" /\ art'.execution = art.execution /\ entry # "repair"
    BY <1>3 DEF ValidationReturns, IInv, TypeOK, Where, Artifacts, RepairStages
  <2>2. CASE pc' = "done"
    <3>1. entry # "ask" /\ response' = Response("generated_sql", "none")
      BY <1>3, <2>2 DEF ValidationReturns, AfterGeneration
    <3>2. response'.kind = "generated_sql"
      BY <3>1, ResponseFields
    <3> QED BY <1>3, <2>1, <2>2, <3>1, <3>2, AnswerRefines DEF ValidationReturns, Contract!QNext
  <2>3. CASE pc' # "done"
    <3>1. response' = response /\ pc' = "begin"
      BY <1>3, <2>3 DEF ValidationReturns, AfterGeneration
    <3> QED BY <1>3, <2>1, <3>1, VetRefines DEF ValidationReturns, Contract!QNext
  <2> QED BY <2>2, <2>3
<1>4. ASSUME NEW status \in RepairStatus, NEW tried \in BOOLEAN, RepairReturns(status, tried)
      PROVE  Contract!QNext
  <2>1. art.execution = "none" /\ art'.execution = art.execution
    BY <1>4 DEF RepairReturns, IInv, TypeOK, Where, Artifacts
  <2>2. CASE pc' = "done"
    <3>1. entry # "ask" /\ \E kind \in {"generated_sql", "repair_result"} :
                               response' = Response(kind, "none")
      BY <1>4, <2>2 DEF RepairReturns, AfterGeneration
    <3>2. response'.kind \in {"generated_sql", "repair_result"}
      BY <3>1, ResponseFields
    <3> QED BY <1>4, <2>1, <2>2, <3>1, <3>2, AnswerRefines DEF RepairReturns, Contract!QNext
  <2>3. CASE pc' # "done"
    <3>1. response' = response /\ pc' = "begin"
      BY <1>4, <2>3 DEF RepairReturns, AfterGeneration
    <3> QED BY <1>4, <2>1, <3>1, VetRefines DEF RepairReturns, Contract!QNext
  <2> QED BY <2>2, <2>3
<1>5. ASSUME NEW status \in ExecutionStatus, ExecutionReturns(status)
      PROVE  Contract!QNext \/ UNCHANGED Contract!qvars
  <2>1. art.execution = "none" /\ entry = "ask" /\ art'.execution = status
        /\ art'.validation = art.validation
    BY <1>5 DEF ExecutionReturns, IInv, TypeOK, Where, Artifacts, LateStages
  <2>2. CASE status = "rejected"
    <3>1. Ran' = Ran /\ Outcome' = Outcome
      BY <1>5, <2>1, <2>2 DEF ExecutionReturns, Ran, Outcome
    <3> QED BY <1>5, <2>1, <3>1 DEF ExecutionReturns, Contract!qvars, Ran, Outcome
  <2>3. CASE status # "rejected"
    BY <1>5, <2>1, <2>3, RunRefines DEF ExecutionReturns, ExecutionStatus, Contract!QNext
  <2> QED BY <2>2, <2>3
<1>6. CASE SoftFailure
  <2>1. response'.kind = "response" /\ response'.status = "failed" /\ entry = "ask"
    BY <1>6, ResponseFields DEF SoftFailure, IInv, Where
  <2> QED BY <1>6, <2>1, AnswerRefines DEF SoftFailure, Contract!QNext
<1>7. CASE Reply
  <2>1. response'.kind = "response" /\ response'.status = "success" /\ entry = "ask"
        /\ art.execution = "success"
    BY <1>7, ResponseFields DEF Reply, IInv, Where
  <2>2. art'.execution = art.execution /\ art'.validation = art.validation
    BY <1>7 DEF Reply, IInv, TypeOK, Artifacts
  <2> QED BY <1>7, <2>1, <2>2, AnswerRefines DEF Reply, Contract!QNext
<1>8. CASE StageRaises \/ AnswerNotSerializable
  <2>1. CASE entry = "ask"
    <3>1. response'.kind = "response" /\ response'.status = "failed"
      BY <1>8, <2>1, ResponseFields DEF StageRaises, AnswerNotSerializable, HandleException
    <3> QED BY <1>8, <2>1, <3>1, AnswerRefines
            DEF StageRaises, AnswerNotSerializable, HandleException, Contract!QNext
  <2>2. CASE entry # "ask"
    <3>1. response'.kind = "raised"
      BY <1>8, <2>2, ResponseFields DEF StageRaises, AnswerNotSerializable, HandleException
    <3> QED BY <1>8, <2>2, <3>1, AnswerRefines
            DEF StageRaises, AnswerNotSerializable, HandleException, Contract!QNext
  <2> QED BY <2>1, <2>2
<1> QED BY <1>1, <1>2, <1>3, <1>4, <1>5, <1>6, <1>7, <1>8 DEF Step

\* The orchestrator implements the safety of QueryContract: SQL runs only
\* validated and only for ask, a SUCCESS only after it ran, one answer each.
THEOREM Refinement == Spec => Contract!QSafety
<1>1. IInv /\ [Next]_vars => [Contract!QNext]_(Contract!qvars)
  <2> SUFFICES ASSUME IInv, [Next]_vars PROVE Contract!QNext \/ UNCHANGED Contract!qvars
    OBVIOUS
  <2>1. CASE UNCHANGED vars
    BY <2>1 DEF vars, Contract!qvars
  <2>2. CASE Step
    BY <2>2, StepRefines
  <2>3. CASE Cancel
    BY <2>3, AbandonRefines DEF Contract!QNext
  <2> QED BY <2>1, <2>2, <2>3 DEF Next
<1> QED BY InitRefines, Invariance, <1>1, PTL DEF Spec, Contract!QSafety
-----------------------------------------------------------------------------
(* The published trace, as a sequence es of its own: the stages open after  *)
(* its first k events, the order of the stages, and what the listener has   *)
(* been told of the timings.                                                *)

Ends(s) == {Completed(s), StageFailed(s)}

OpenIn(es, k) ==
  {s \in Stages : \E i \in 1..k : es[i] = Started(s) /\ \A j \in i..k : es[j] \notin Ends(s)}

Rank == [nlu |-> 1, schema_linking |-> 2, business_knowledge |-> 3, retrieval |-> 4,
         prompt_compilation |-> 5, sql_generation |-> 6, llm |-> 7, sql_validation |-> 8,
         sql_repair |-> 9, sql_execution |-> 10, result_formatting |-> 11]

\* The trace es is well nested, stage set o is open at its end, and only
\* stages up to rank n were begun.
Nested(es, o, n) ==
  /\ \A k \in 1..Len(es) :
       /\ \A s, t \in OpenIn(es, k) : s = t
       /\ es[k].type = "stage_completed" => OpenIn(es, k - 1) = {es[k].stage}
       /\ es[k].type = "stage_started" => \A i \in 1..(k - 1) : es[i] # es[k]
  /\ OpenIn(es, Len(es)) = o
  /\ \A k \in 1..Len(es) :
       es[k].type = "stage_started" => es[k].stage \in Stages /\ Rank[es[k].stage] <= n

\* The completions among the first k events, and the timings they stand for.
DoneIn(es, k) == {i \in 1..k : es[i].type = "stage_completed"}

Matched(es, ts) ==
  /\ Len(ts) = Cardinality(DoneIn(es, Len(es)))
  /\ \A k \in 1..Len(es) :
       es[k].type = "stage_completed" => ts[Cardinality(DoneIn(es, k))] = es[k].stage

\* What the events tell at point c of a run, in stage s.
TraceAt(c, s, es, ts) ==
  /\ Matched(es, ts)
  /\ c \in {"idle", "begin"} => Nested(es, {}, Rank[s] - 1)
  /\ c \in {"call", "cancelled"} => Nested(es, {s}, Rank[s])
  /\ c \in {"executed", "reply", "done"} => Nested(es, {}, Rank[s])

Traced ==
  /\ publisher => entry = "ask"
  /\ ~publisher => events = <<>>
  /\ publisher => TraceAt(pc, stage, events, timings)

\* No terminal event before the answer; with it, exactly the one that says so.
NoTerminal(es) == \A i \in 1..Len(es) : es[i].type \notin Terminals

Told == (pc # "done" => NoTerminal(events)) /\ TerminalAgrees

\* What the response will say is true of the run all along: every artifact is
\* there once its stage is timed, and the flags of the repair fit it.
Timed(s) == \E i \in DOMAIN timings : timings[i] = s

ArtsTimed ==
  /\ Timed("sql_generation") <=> art.sql # "none"
  /\ Timed("sql_validation") <=> art.validation # "none"
  /\ Timed("sql_repair") <=> art.repair # "none"
  /\ Timed("sql_execution") <=> art.execution # "none"

RepairTold ==
  /\ repair_performed <=> art.repair = "repaired"
  /\ repair_performed => art.sql = "repaired" /\ art.validation = "valid"
  /\ art.repair # "none" => repair_attempted
  /\ stage = "sql_repair" => repair_attempted

EarlyStages == {"nlu", "schema_linking", "business_knowledge", "retrieval",
                "prompt_compilation", "sql_generation"}

SoFar ==
  /\ stage \in EarlyStages => art.sql = "none" /\ art.validation = "none"
  /\ stage \in EarlyStages \cup {"sql_validation"} => art.repair = "none"
  /\ stage = "sql_validation" /\ pc # "done" => art.validation = "none"
  /\ stage = "sql_repair" /\ pc # "done" => art.repair = "none"
  /\ stage = "sql_validation" => art.sql # "none"
  /\ stage = "sql_repair" => art.sql # "none" /\ art.validation # "none"

\* The answer is the state it was made from.
Said ==
  /\ pc # "done" => ~art.answer
  /\ pc = "done" => /\ response.art = art /\ response.timings = timings
                    /\ response.repair_attempted = repair_attempted
                    /\ response.repair_performed = repair_performed
                    /\ response.kind \in {"response", "generated_sql"} =>
                         entry # "repair" /\ (response.status = "success" <=> art.answer)

Honest == (entry # "repair" => ArtsTimed /\ RepairTold /\ SoFar) /\ Said

LEMMA EventFields ==
  ASSUME NEW s \in Stages
  PROVE  /\ Started(s) \in Events /\ Started(s).type = "stage_started" /\ Started(s).stage = s
         /\ Completed(s) \in Events /\ Completed(s).type = "stage_completed"
         /\ Completed(s).stage = s
         /\ StageFailed(s) \in Events /\ StageFailed(s).type = "stage_failed"
         /\ StageFailed(s).stage = s
BY EventsTyped DEF Started, Completed, StageFailed, Event

LEMMA EventsApart ==
  ASSUME NEW s \in Stages, NEW t \in Stages
  PROVE  /\ Started(s) = Started(t) => s = t
         /\ Started(s) \notin Ends(t)
         /\ \A e \in Ends(s) : e \in Ends(t) => s = t
         /\ Ends(s) \subseteq Events
BY EventFields DEF Ends

LEMMA AppendIs ==
  ASSUME NEW es \in Seq(Events), NEW e \in Events
  PROVE  LET f == Append(es, e)
         IN  /\ f \in Seq(Events) /\ Len(f) = Len(es) + 1 /\ Len(es) \in Nat
             /\ f[Len(es) + 1] = e /\ \A k \in 1..Len(es) : f[k] = es[k]
OBVIOUS

LEMMA OpenPrefix ==
  ASSUME NEW es \in Seq(Events), NEW e \in Events, NEW k \in 0..Len(es)
  PROVE  OpenIn(Append(es, e), k) = OpenIn(es, k)
<1> DEFINE f == Append(es, e)
<1>1. Len(es) \in Nat /\ \A i \in 1..Len(es) : f[i] = es[i]
  BY AppendIs
<1> HIDE DEF f
<1>2. \A i \in 1..k : f[i] = es[i] /\ \A j \in i..k : f[j] = es[j]
  BY <1>1
<1>3. OpenIn(f, k) = OpenIn(es, k)
  BY <1>2 DEF OpenIn
<1> QED BY <1>3 DEF f

\* The open stages after one more event.
LEMMA OpenLast ==
  ASSUME NEW es \in Seq(Events), NEW e \in Events, NEW s \in Stages
  PROVE  s \in OpenIn(Append(es, e), Len(es) + 1) <=>
           e = Started(s) \/ (s \in OpenIn(es, Len(es)) /\ e \notin Ends(s))
<1> DEFINE f == Append(es, e)
           n == Len(es)
<1>1. n \in Nat /\ f[n + 1] = e /\ \A i \in 1..n : f[i] = es[i]
  BY AppendIs
<1> HIDE DEF f, n
<1>2. ASSUME s \in OpenIn(f, n + 1), e # Started(s)
      PROVE  s \in OpenIn(es, n) /\ e \notin Ends(s)
  <2>1. PICK i \in 1..(n + 1) :
          f[i] = Started(s) /\ \A j \in i..(n + 1) : f[j] \notin Ends(s)
    BY <1>2 DEF OpenIn
  <2>2. i \in 1..n
    BY <1>1, <1>2, <2>1
  <2>3. es[i] = Started(s) /\ \A j \in i..n : es[j] \notin Ends(s)
    BY <1>1, <2>1, <2>2
  <2>4. e \notin Ends(s)
    BY <1>1, <2>1, <2>2
  <2> QED BY <2>2, <2>3, <2>4 DEF OpenIn
<1>3. ASSUME e = Started(s) PROVE s \in OpenIn(f, n + 1)
  <2>1. f[n + 1] = Started(s) /\ \A j \in (n + 1)..(n + 1) : f[j] \notin Ends(s)
    BY <1>1, <1>3, EventsApart
  <2> QED BY <1>1, <2>1 DEF OpenIn
<1>4. ASSUME s \in OpenIn(es, n), e \notin Ends(s) PROVE s \in OpenIn(f, n + 1)
  <2>1. PICK i \in 1..n : es[i] = Started(s) /\ \A j \in i..n : es[j] \notin Ends(s)
    BY <1>4 DEF OpenIn
  <2>2. f[i] = Started(s) /\ \A j \in i..(n + 1) : f[j] \notin Ends(s)
    BY <1>1, <1>4, <2>1
  <2>3. i \in 1..(n + 1)
    BY <1>1
  <2> QED BY <2>2, <2>3 DEF OpenIn
<1> QED BY <1>2, <1>3, <1>4 DEF f, n

\* One more event leaves a well nested trace when what it says fits.
LEMMA NestedAppend ==
  ASSUME NEW es \in Seq(Events), NEW e \in Events, NEW o, NEW o2, NEW n \in Int, NEW m \in Int,
         Nested(es, o, n), n <= m, OpenIn(Append(es, e), Len(es) + 1) = o2,
         \A s, t \in o2 : s = t,
         e.type = "stage_completed" => o = {e.stage},
         e.type = "stage_started" => e.stage \in Stages /\ n < Rank[e.stage] /\ Rank[e.stage] <= m
  PROVE  Nested(Append(es, e), o2, m)
<1> DEFINE f == Append(es, e)
           l == Len(es)
<1>1. /\ l \in Nat /\ Len(f) = l + 1 /\ f[l + 1] = e /\ \A i \in 1..l : f[i] = es[i]
      /\ f \in Seq(Events)
  BY AppendIs
<1>2. \A k \in 0..l : OpenIn(f, k) = OpenIn(es, k)
  BY OpenPrefix
<1>3. OpenIn(f, l + 1) = o2 /\ OpenIn(es, l) = o
  BY DEF Nested
<1>4. \A i \in 1..l : es[i].type = "stage_started" =>
                        es[i].stage \in Stages /\ Rank[es[i].stage] <= n
  BY DEF Nested
<1>5. \A s \in Stages : Rank[s] \in Int
  BY DEF Rank, Stages
<1> HIDE DEF f, l
<1>6. ASSUME NEW k \in 1..(l + 1)
      PROVE  /\ \A s, t \in OpenIn(f, k) : s = t
             /\ f[k].type = "stage_completed" => OpenIn(f, k - 1) = {f[k].stage}
             /\ f[k].type = "stage_started" => \A i \in 1..(k - 1) : f[i] # f[k]
  <2>1. CASE k \in 1..l
    <3>1. k - 1 \in 0..l /\ k \in 0..l /\ \A i \in 1..(k - 1) : i \in 1..l
      BY <1>1, <2>1
    <3>2. f[k] = es[k] /\ \A i \in 1..(k - 1) : f[i] = es[i]
      BY <1>1, <2>1, <3>1
    <3>3. OpenIn(f, k) = OpenIn(es, k) /\ OpenIn(f, k - 1) = OpenIn(es, k - 1)
      BY <1>2, <3>1
    <3>4. /\ \A s, t \in OpenIn(es, k) : s = t
          /\ es[k].type = "stage_completed" => OpenIn(es, k - 1) = {es[k].stage}
          /\ es[k].type = "stage_started" => \A i \in 1..(k - 1) : es[i] # es[k]
      BY <2>1 DEF Nested, l
    <3> QED BY <3>2, <3>3, <3>4
  <2>2. CASE k = l + 1
    <3>1. k - 1 = l /\ f[k] = e
      BY <1>1, <2>2
    <3>2. OpenIn(f, k) = o2 /\ OpenIn(f, k - 1) = o
      BY <1>1, <1>2, <1>3, <2>2, <3>1
    <3>3. ASSUME e.type = "stage_started", NEW i \in 1..l PROVE f[i] # e
      BY <1>1, <1>4, <1>5, <3>3
    <3> QED BY <3>1, <3>2, <3>3
  <2> QED BY <1>1, <2>1, <2>2
<1>7. ASSUME NEW k \in 1..(l + 1), f[k].type = "stage_started"
      PROVE  f[k].stage \in Stages /\ Rank[f[k].stage] <= m
  <2>1. CASE k \in 1..l
    BY <1>1, <1>4, <1>5, <1>7, <2>1
  <2>2. CASE k = l + 1
    BY <1>1, <1>7, <2>2
  <2> QED BY <1>1, <2>1, <2>2
<1> QED BY <1>1, <1>3, <1>6, <1>7 DEF Nested, f, l

LEMMA BeginNested ==
  ASSUME NEW es \in Seq(Events), NEW s \in Stages, NEW n \in Int, n < Rank[s], Nested(es, {}, n)
  PROVE  Nested(Append(es, Started(s)), {s}, Rank[s])
<1> DEFINE e == Started(s)
<1>1. e \in Events /\ e.type = "stage_started" /\ e.stage = s
  BY EventFields
<1>2. OpenIn(es, Len(es)) = {} /\ Rank[s] \in Int
  BY DEF Nested, Rank, Stages
<1>3. \A t \in Stages : Started(s) = Started(t) => s = t
  BY EventsApart
<1> HIDE DEF e
<1>4. \A t \in Stages : t \in OpenIn(Append(es, e), Len(es) + 1) <=> t = s
  BY <1>1, <1>2, <1>3, OpenLast DEF e
<1>5. OpenIn(Append(es, e), Len(es) + 1) \subseteq Stages
  BY DEF OpenIn
<1>6. OpenIn(Append(es, e), Len(es) + 1) = {s}
  BY <1>4, <1>5
<1>7. Nested(Append(es, e), {s}, Rank[s])
  <2>1. PICK m \in Int : m = Rank[s]
    BY <1>2
  <2>2. PICK o2 : o2 = {s}
    OBVIOUS
  <2>3. n <= m /\ (\A a, b \in o2 : a = b) /\ OpenIn(Append(es, e), Len(es) + 1) = o2
    BY <1>6, <2>1, <2>2
  <2>4. /\ e.type = "stage_completed" => {} = {e.stage}
        /\ e.type = "stage_started" => e.stage \in Stages /\ n < Rank[e.stage] /\ Rank[e.stage] <= m
    BY <1>1, <2>1
  <2>5. Nested(Append(es, e), o2, m)
    BY <1>1, <2>3, <2>4, NestedAppend
  <2> QED BY <2>1, <2>2, <2>5
<1> QED BY <1>7 DEF e

LEMMA EndNested ==
  ASSUME NEW es \in Seq(Events), NEW s \in Stages, NEW n \in Int, NEW e \in Ends(s),
         Nested(es, {s}, n)
  PROVE  Nested(Append(es, e), {}, n)
<1>1. e \in Events /\ e.type # "stage_started" /\ e.stage = s
  BY EventFields DEF Ends
<1>2. OpenIn(es, Len(es)) = {s}
  BY DEF Nested
<1>3. \A t \in Stages : e # Started(t)
  BY <1>1, EventFields
<1>4. \A t \in Stages : t \notin OpenIn(Append(es, e), Len(es) + 1)
  BY <1>1, <1>2, <1>3, OpenLast
<1>5. OpenIn(Append(es, e), Len(es) + 1) = {}
  BY <1>4 DEF OpenIn
<1>6. PICK o : o = {s}
  OBVIOUS
<1>7. PICK o2 : o2 = {}
  OBVIOUS
<1>8. /\ Nested(es, o, n) /\ OpenIn(Append(es, e), Len(es) + 1) = o2 /\ \A a, b \in o2 : a = b
      /\ e.type = "stage_completed" => o = {e.stage}
  BY <1>1, <1>5, <1>6, <1>7
<1>9. Nested(Append(es, e), o2, n)
  BY <1>1, <1>8, NestedAppend
<1> QED BY <1>7, <1>9

\* An event of the run, or the failure of a stage that is not open.
LEMMA OtherNested ==
  ASSUME NEW es \in Seq(Events), NEW n \in Int, NEW e \in Events,
         e.type \notin {"stage_started", "stage_completed"}, Nested(es, {}, n)
  PROVE  Nested(Append(es, e), {}, n)
<1>1. OpenIn(es, Len(es)) = {}
  BY DEF Nested
<1>2. \A t \in Stages : e # Started(t)
  BY EventFields
<1>3. \A t \in Stages : t \notin OpenIn(Append(es, e), Len(es) + 1)
  BY <1>1, <1>2, OpenLast
<1>4. OpenIn(Append(es, e), Len(es) + 1) = {}
  BY <1>3 DEF OpenIn
<1> QED BY <1>4, NestedAppend

LEMMA WeakenNested ==
  ASSUME NEW es, NEW o, NEW n \in Int, NEW m \in Int, n <= m, Nested(es, o, n)
  PROVE  Nested(es, o, m)
<1>1. \A s \in Stages : Rank[s] \in Int
  BY DEF Rank, Stages
<1> QED BY <1>1 DEF Nested

LEMMA DoneFinite ==
  ASSUME NEW es, NEW k \in Nat
  PROVE  IsFiniteSet(DoneIn(es, k)) /\ Cardinality(DoneIn(es, k)) \in Nat
<1>1. IsFiniteSet(1..k)
  BY FS_Interval
<1>2. DoneIn(es, k) \subseteq 1..k
  BY DEF DoneIn
<1> QED BY <1>1, <1>2, FS_Subset, FS_CardinalityType

LEMMA DonePrefix ==
  ASSUME NEW es \in Seq(Events), NEW e \in Events
  PROVE  /\ \A k \in 0..Len(es) : DoneIn(Append(es, e), k) = DoneIn(es, k)
         /\ DoneIn(Append(es, e), Len(es) + 1) =
              IF e.type = "stage_completed" THEN DoneIn(es, Len(es)) \cup {Len(es) + 1}
              ELSE DoneIn(es, Len(es))
<1> DEFINE f == Append(es, e)
           l == Len(es)
<1>1. l \in Nat /\ f[l + 1] = e /\ \A i \in 1..l : f[i] = es[i]
  BY AppendIs
<1> HIDE DEF f, l
<1>2. \A k \in 0..l : DoneIn(f, k) = DoneIn(es, k)
  BY <1>1 DEF DoneIn
<1>3. 1..(l + 1) = (1..l) \cup {l + 1}
  BY <1>1
<1>4. DoneIn(f, l + 1) = IF e.type = "stage_completed" THEN DoneIn(es, l) \cup {l + 1}
                         ELSE DoneIn(es, l)
  BY <1>1, <1>3 DEF DoneIn
<1> QED BY <1>2, <1>4 DEF f, l

LEMMA MatchedSame ==
  ASSUME NEW es \in Seq(Events), NEW ts \in Seq(Stages), NEW e \in Events,
         e.type # "stage_completed", Matched(es, ts)
  PROVE  Matched(Append(es, e), ts)
<1> DEFINE f == Append(es, e)
           l == Len(es)
<1>1. l \in Nat /\ Len(f) = l + 1 /\ f[l + 1] = e /\ \A i \in 1..l : f[i] = es[i]
  BY AppendIs
<1>2. (\A k \in 0..l : DoneIn(f, k) = DoneIn(es, k)) /\ DoneIn(f, l + 1) = DoneIn(es, l)
  BY DonePrefix
<1>3. /\ Len(ts) = Cardinality(DoneIn(es, l))
      /\ \A k \in 1..l : es[k].type = "stage_completed" => ts[Cardinality(DoneIn(es, k))] = es[k].stage
  BY DEF Matched
<1> HIDE DEF f, l
<1>4. ASSUME NEW k \in 1..(l + 1), f[k].type = "stage_completed"
      PROVE  ts[Cardinality(DoneIn(f, k))] = f[k].stage
  <2>1. k \in 1..l
    BY <1>1, <1>4
  <2>2. f[k] = es[k] /\ DoneIn(f, k) = DoneIn(es, k)
    BY <1>1, <1>2, <2>1
  <2> QED BY <1>3, <1>4, <2>1, <2>2
<1> QED BY <1>1, <1>2, <1>3, <1>4 DEF Matched, f, l

LEMMA MatchedMore ==
  ASSUME NEW es \in Seq(Events), NEW ts \in Seq(Stages), NEW s \in Stages, Matched(es, ts)
  PROVE  Matched(Append(es, Completed(s)), Append(ts, s))
<1> DEFINE e == Completed(s)
           f == Append(es, e)
           us == Append(ts, s)
           l == Len(es)
           c == Cardinality(DoneIn(es, l))
<1>1. e \in Events /\ e.type = "stage_completed" /\ e.stage = s
  BY EventFields
<1> HIDE DEF e
<1>2. l \in Nat /\ Len(f) = l + 1 /\ f[l + 1] = e /\ \A i \in 1..l : f[i] = es[i]
  BY <1>1, AppendIs
<1>3. /\ \A k \in 0..l : DoneIn(f, k) = DoneIn(es, k)
      /\ DoneIn(f, l + 1) = DoneIn(es, l) \cup {l + 1}
  BY <1>1, DonePrefix
<1>4. /\ Len(ts) = c
      /\ \A k \in 1..l : es[k].type = "stage_completed" => ts[Cardinality(DoneIn(es, k))] = es[k].stage
  BY DEF Matched
<1>5. Len(us) = Len(ts) + 1 /\ us[Len(ts) + 1] = s /\ \A i \in 1..Len(ts) : us[i] = ts[i]
  OBVIOUS
<1> HIDE DEF f, us, l
<1>6. IsFiniteSet(DoneIn(es, l)) /\ l + 1 \notin DoneIn(es, l)
  BY <1>2, DoneFinite DEF DoneIn
<1>7. Cardinality(DoneIn(f, l + 1)) = c + 1
  BY <1>3, <1>6, FS_AddElement
<1>8. ASSUME NEW k \in 1..(l + 1), f[k].type = "stage_completed"
      PROVE  us[Cardinality(DoneIn(f, k))] = f[k].stage
  <2>1. CASE k \in 1..l
    <3>1. f[k] = es[k] /\ DoneIn(f, k) = DoneIn(es, k) /\ k \in Nat
      BY <1>2, <1>3, <2>1
    <3>2. k \in DoneIn(es, k) /\ DoneIn(es, k) \subseteq DoneIn(es, l)
      BY <1>2, <1>8, <2>1, <3>1 DEF DoneIn
    <3>3. /\ IsFiniteSet(DoneIn(es, k)) /\ Cardinality(DoneIn(es, k)) \in Nat
          /\ Cardinality(DoneIn(es, k)) <= c
      BY <1>6, <3>1, <3>2, DoneFinite, FS_Subset
    <3>4. Cardinality(DoneIn(es, k)) # 0
      BY <3>2, <3>3, FS_EmptySet
    <3>5. Cardinality(DoneIn(es, k)) \in 1..Len(ts)
      BY <1>4, <3>3, <3>4
    <3> QED BY <1>4, <1>5, <1>8, <2>1, <3>1, <3>5
  <2>2. CASE k = l + 1
    BY <1>1, <1>2, <1>4, <1>5, <1>7, <2>2
  <2> QED BY <1>2, <2>1, <2>2
<1>9. Matched(f, us)
  BY <1>2, <1>4, <1>5, <1>7, <1>8 DEF Matched
<1> QED BY <1>9 DEF f, us, e
-----------------------------------------------------------------------------
(* The trace of a run.                                                      *)

LEMMA NotifyIs ==
  ASSUME publisher, events \in Seq(Events), NEW e \in Events
  PROVE  /\ Notify(<<e>>) => events' = Append(events, e)
         /\ \A d \in Events : Notify(<<e, d>>) => events' = Append(Append(events, e), d)
BY DEF Notify

LEMMA MeasureIs ==
  ASSUME entry = "ask", timings \in Seq(Stages), NEW s \in Stages
  PROVE  /\ Measure(<<s>>) => timings' = Append(timings, s)
         /\ \A t \in Stages : Measure(<<s, t>>) => timings' = Append(Append(timings, s), t)
BY DEF Measure

LEMMA RanksAre ==
  /\ \A s \in Stages : Rank[s] \in Int /\ Rank[s] - 1 \in Int /\ Rank[s] - 1 < Rank[s]
  /\ Rank["nlu"] = 1 /\ Rank["schema_linking"] = 2 /\ Rank["business_knowledge"] = 3
  /\ Rank["retrieval"] = 4 /\ Rank["prompt_compilation"] = 5 /\ Rank["sql_generation"] = 6
  /\ Rank["llm"] = 7 /\ Rank["sql_validation"] = 8 /\ Rank["sql_repair"] = 9
  /\ Rank["sql_execution"] = 10 /\ Rank["result_formatting"] = 11
BY DEF Rank, Stages

\* A stage is done: its completion is published and its timing appended.
LEMMA StageDone ==
  ASSUME IInv, publisher, entry = "ask", TraceAt(pc, stage, events, timings), pc = "call",
         Measure(<<stage>>), Notify(<<Completed(stage)>>)
  PROVE  Matched(events', timings') /\ Nested(events', {}, Rank[stage])
<1>1. events \in Seq(Events) /\ timings \in Seq(Stages) /\ stage \in Stages /\ Rank[stage] \in Int
  BY RanksAre DEF IInv, TypeOK
<1>2. Matched(events, timings) /\ Nested(events, {stage}, Rank[stage])
  BY DEF TraceAt
<1>3. Completed(stage) \in Events /\ Completed(stage) \in Ends(stage)
  BY <1>1, EventFields DEF Ends
<1>4. events' = Append(events, Completed(stage)) /\ timings' = Append(timings, stage)
  BY <1>1, <1>3, NotifyIs, MeasureIs
<1>5. Matched(events', timings')
  BY <1>1, <1>2, <1>4, MatchedMore
<1>6. Nested(events', {}, Rank[stage])
  BY <1>1, <1>2, <1>3, <1>4, EndNested
<1> QED BY <1>5, <1>6

\* What a stage leaves open is what the next one starts from.
LEMMA NextStageTraced ==
  ASSUME IInv, Matched(events', timings'), Nested(events', {}, Rank[stage]),
         stage' \in Stages, Rank[stage] < Rank[stage'], pc' = "begin"
  PROVE  TraceAt(pc', stage', events', timings')
<1>1. stage \in Stages
  BY DEF IInv, TypeOK
<1>2. Rank[stage] \in Int /\ Rank[stage'] - 1 \in Int /\ Rank[stage] <= Rank[stage'] - 1
  BY <1>1, RanksAre
<1>3. Nested(events', {}, Rank[stage'] - 1)
  BY <1>2, WeakenNested
<1> QED BY <1>3 DEF TraceAt

LEMMA EventsOfTheRun ==
  /\ PipelineStarted.type = "pipeline_started" /\ PipelineFailed.type = "pipeline_failed"
  /\ PipelineFailed.status = "failed"
  /\ PipelineCompleted("success").type = "pipeline_completed"
  /\ PipelineCompleted("success").status = "success"
  /\ PipelineCompleted("failed").type = "pipeline_completed"
  /\ PipelineCompleted("failed").status = "failed"
BY DEF PipelineStarted, PipelineFailed, PipelineCompleted, Event

LEMMA StartTraced ==
  ASSUME IInv, publisher, entry = "ask", TraceAt(pc, stage, events, timings), Start \/ BeginStage
  PROVE  TraceAt(pc', stage', events', timings')
<1>1. /\ events \in Seq(Events) /\ timings \in Seq(Stages) /\ stage \in Stages
      /\ Matched(events, timings)
  BY DEF IInv, TypeOK, TraceAt
<1>2. Rank[stage] \in Int /\ Rank[stage] - 1 \in Int /\ Rank[stage] - 1 < Rank[stage]
  BY <1>1, RanksAre
<1>3. CASE Start
  <2>1. events' = Append(events, PipelineStarted) /\ pc' = "begin" /\ stage' = stage
        /\ timings' = timings /\ Nested(events, {}, Rank[stage] - 1)
    BY <1>1, <1>3, NotifyIs, EventsTyped DEF Start, TraceAt
  <2>2. Matched(events', timings')
    BY <1>1, <2>1, EventsTyped, EventsOfTheRun, MatchedSame
  <2>3. Nested(events', {}, Rank[stage] - 1)
    BY <1>1, <1>2, <2>1, EventsTyped, EventsOfTheRun, OtherNested
  <2> QED BY <2>1, <2>2, <2>3 DEF TraceAt
<1>4. CASE BeginStage
  <2>1. events' = Append(events, Started(stage)) /\ pc' = "call" /\ stage' = stage
        /\ timings' = timings /\ Nested(events, {}, Rank[stage] - 1)
    BY <1>1, <1>4, NotifyIs, EventsTyped DEF BeginStage, TraceAt
  <2>2. Matched(events', timings')
    BY <1>1, <2>1, EventFields, MatchedSame
  <2>3. Nested(events', {stage}, Rank[stage])
    BY <1>1, <1>2, <2>1, BeginNested
  <2> QED BY <2>1, <2>2, <2>3 DEF TraceAt
<1> QED BY <1>3, <1>4

LEMMA GenerationTraced ==
  ASSUME IInv, publisher, entry = "ask", TraceAt(pc, stage, events, timings), GenerationReturns
  PROVE  TraceAt(pc', stage', events', timings')
<1> DEFINE e1 == Append(events, Completed("sql_generation"))
           e2 == Append(e1, Started("llm"))
           e3 == Append(e2, Completed("llm"))
           t1 == Append(timings, "sql_generation")
           t2 == Append(t1, "llm")
<1>1. /\ events \in Seq(Events) /\ timings \in Seq(Stages) /\ stage = "sql_generation"
      /\ Matched(events, timings) /\ Nested(events, {"sql_generation"}, 6)
      /\ "sql_generation" \in Stages /\ "llm" \in Stages /\ "sql_validation" \in Stages
  BY RanksAre DEF IInv, TypeOK, TraceAt, GenerationReturns, Stages
<1>2. /\ Completed("sql_generation") \in Events /\ Started("llm") \in Events
      /\ Completed("llm") \in Events /\ Started("llm").type # "stage_completed"
      /\ Completed("sql_generation") \in Ends("sql_generation")
      /\ Completed("llm") \in Ends("llm")
  BY <1>1, EventFields DEF Ends
<1>3. events' = e3 /\ timings' = t2 /\ pc' = "begin" /\ stage' = "sql_validation"
  BY <1>1, <1>2, SMTT(30) DEF GenerationReturns, Notify, Measure
<1>4. e1 \in Seq(Events) /\ e2 \in Seq(Events) /\ e3 \in Seq(Events) /\ t1 \in Seq(Stages)
  BY <1>1, <1>2
<1>5. 6 \in Int /\ 7 \in Int /\ Rank["llm"] = 7 /\ Rank["sql_validation"] - 1 = 7 /\ 6 < 7
  BY RanksAre
<1> HIDE DEF e1, e2, e3, t1, t2
<1>6. Nested(e1, {}, 6)
  BY <1>1, <1>2, <1>5, EndNested DEF e1
<1>7. Nested(e2, {"llm"}, 7)
  BY <1>1, <1>4, <1>5, <1>6, BeginNested DEF e2
<1>8. Nested(e3, {}, 7)
  BY <1>1, <1>2, <1>4, <1>5, <1>7, EndNested DEF e3
<1>9. Matched(e1, t1)
  BY <1>1, MatchedMore DEF e1, t1
<1>10. Matched(e2, t1)
  BY <1>2, <1>4, <1>9, MatchedSame DEF e2
<1>11. Matched(e3, t2)
  BY <1>1, <1>4, <1>10, MatchedMore DEF e3, t2
<1> QED BY <1>3, <1>5, <1>8, <1>11 DEF TraceAt

LEMMA ReturnsTraced ==
  ASSUME IInv, publisher, entry = "ask", TraceAt(pc, stage, events, timings),
         \/ PreparationReturns \/ FormattingReturns
         \/ \E verdict \in {"valid", "invalid"} : ValidationReturns(verdict)
         \/ \E status \in RepairStatus, tried \in BOOLEAN : RepairReturns(status, tried)
         \/ \E status \in ExecutionStatus : ExecutionReturns(status)
  PROVE  TraceAt(pc', stage', events', timings')
<1>1. pc = "call" /\ Measure(<<stage>>) /\ Notify(<<Completed(stage)>>)
  BY DEF PreparationReturns, FormattingReturns, ValidationReturns, RepairReturns, ExecutionReturns
<1>2. Matched(events', timings') /\ Nested(events', {}, Rank[stage])
  BY <1>1, StageDone
<1>3. CASE FormattingReturns \/ \E status \in ExecutionStatus : ExecutionReturns(status)
  <2>1. pc' \in {"executed", "reply"} /\ stage' = stage
    BY <1>3 DEF FormattingReturns, ExecutionReturns
  <2> QED BY <1>2, <2>1 DEF TraceAt
<1>4. CASE ~(FormattingReturns \/ \E status \in ExecutionStatus : ExecutionReturns(status))
  <2>1. /\ pc' = "begin"
        /\ \/ stage = "nlu" /\ stage' = "schema_linking"
           \/ stage = "schema_linking" /\ stage' = "business_knowledge"
           \/ stage = "business_knowledge" /\ stage' = "retrieval"
           \/ stage = "retrieval" /\ stage' = "prompt_compilation"
           \/ stage = "prompt_compilation" /\ stage' = "sql_generation"
           \/ stage = "sql_validation" /\ stage' \in {"sql_repair", "sql_execution"}
           \/ stage = "sql_repair" /\ stage' = "sql_execution"
    BY <1>4 DEF PreparationReturns, ValidationReturns, RepairReturns, NextStage, AfterGeneration
  <2>2. stage' \in Stages /\ Rank[stage] < Rank[stage']
    BY <2>1, RanksAre DEF Stages
  <2> QED BY <1>2, <2>1, <2>2, NextStageTraced
<1> QED BY <1>3, <1>4

LEMMA AnswerTraced ==
  ASSUME IInv, publisher, entry = "ask", TraceAt(pc, stage, events, timings),
         SoftFailure \/ Reply \/ StageRaises \/ AnswerNotSerializable
  PROVE  TraceAt(pc', stage', events', timings')
<1>1. /\ events \in Seq(Events) /\ timings \in Seq(Stages) /\ stage \in Stages
      /\ Matched(events, timings) /\ Rank[stage] \in Int
  BY RanksAre DEF IInv, TypeOK, TraceAt
<1>2. pc' = "done" /\ stage' = stage /\ timings' = timings
  BY DEF SoftFailure, Reply, StageRaises, AnswerNotSerializable, HandleException
<1>3. ASSUME NEW e \in Events, e.type \notin {"stage_started", "stage_completed"},
             NEW es \in Seq(Events), Matched(es, timings), Nested(es, {}, Rank[stage]),
             events' = Append(es, e)
      PROVE  TraceAt(pc', stage', events', timings')
  <2>1. Matched(events', timings')
    BY <1>1, <1>2, <1>3, MatchedSame
  <2>2. Nested(events', {}, Rank[stage])
    BY <1>1, <1>3, OtherNested
  <2> QED BY <1>2, <2>1, <2>2 DEF TraceAt
<1>4. CASE SoftFailure \/ Reply
  <2>1. pc \in {"executed", "reply"} /\ Nested(events, {}, Rank[stage])
    BY <1>4 DEF SoftFailure, Reply, TraceAt
  <2>2. \E e \in Events : /\ e.type \notin {"stage_started", "stage_completed"}
                          /\ events' = Append(events, e)
    BY <1>1, <1>4, NotifyIs, EventsTyped, EventsOfTheRun DEF SoftFailure, Reply
  <2> QED BY <1>1, <1>3, <2>1, <2>2
<1>5. CASE StageRaises \/ AnswerNotSerializable
  <2> DEFINE d == StageFailed(stage)
             es == Append(events, d)
  <2>1. d \in Events /\ d.type = "stage_failed" /\ d \in Ends(stage)
    BY <1>1, EventFields DEF Ends
  <2>2. PipelineFailed \in Events /\ PipelineFailed.type \notin {"stage_started", "stage_completed"}
    BY EventsTyped, EventsOfTheRun
  <2>3. Notify(<<d, PipelineFailed>>)
    BY <1>5 DEF StageRaises, AnswerNotSerializable, HandleException
  <2>4. events' = Append(es, PipelineFailed)
    BY <1>1, <2>1, <2>2, <2>3, NotifyIs
  <2> HIDE DEF d
  <2>5. Matched(es, timings)
    BY <1>1, <2>1, MatchedSame
  <2>6. Nested(es, {}, Rank[stage])
    <3>1. CASE pc = "call"
      <4>1. Nested(events, {stage}, Rank[stage])
        BY <3>1 DEF TraceAt
      <4> QED BY <1>1, <2>1, <4>1, EndNested
    <3>2. CASE pc = "reply"
      <4>1. Nested(events, {}, Rank[stage])
        BY <3>2 DEF TraceAt
      <4> QED BY <1>1, <2>1, <4>1, OtherNested
    <3> QED BY <1>5, <3>1, <3>2 DEF StageRaises, AnswerNotSerializable
  <2>7. es \in Seq(Events)
    BY <1>1, <2>1
  <2> HIDE DEF es
  <2> QED BY <1>3, <2>2, <2>4, <2>5, <2>6, <2>7
<1> QED BY <1>4, <1>5

LEMMA StepCases ==
  ASSUME Step
  PROVE  \/ Start \/ BeginStage
         \/ \/ PreparationReturns \/ FormattingReturns
            \/ \E verdict \in {"valid", "invalid"} : ValidationReturns(verdict)
            \/ \E status \in RepairStatus, tried \in BOOLEAN : RepairReturns(status, tried)
            \/ \E status \in ExecutionStatus : ExecutionReturns(status)
         \/ GenerationReturns \/ ContinueToFormatting
         \/ SoftFailure \/ Reply \/ StageRaises \/ AnswerNotSerializable
BY DEF Step

\* The caller and the listener are the same all along, and nobody is told
\* anything without one.
LEMMA StepFrame ==
  ASSUME Step \/ Cancel
  PROVE  entry' = entry /\ publisher' = publisher /\ (~publisher => events' = events)
BY DEF Step, Cancel, Start, BeginStage, PreparationReturns, GenerationReturns, ValidationReturns,
       RepairReturns, ExecutionReturns, SoftFailure, ContinueToFormatting, FormattingReturns, Reply,
       StageRaises, AnswerNotSerializable, HandleException, Notify

LEMMA NextKeepsTraced == IInv /\ Traced /\ [Next]_vars => Traced'
<1> SUFFICES ASSUME IInv, Traced, [Next]_vars PROVE Traced'
  OBVIOUS
<1>1. CASE UNCHANGED vars
  BY <1>1 DEF vars, Traced
<1>2. CASE Step \/ Cancel
  <2>1. entry' = entry /\ publisher' = publisher /\ (~publisher => events' = events)
    BY <1>2, StepFrame
  <2>2. ASSUME publisher PROVE TraceAt(pc', stage', events', timings')
    <3>1. entry = "ask" /\ TraceAt(pc, stage, events, timings)
      BY <2>2 DEF Traced
    <3>2. CASE Cancel
      BY <3>1, <3>2 DEF Cancel, TraceAt
    <3>3. CASE ContinueToFormatting
      <4>1. /\ Matched(events', timings') /\ Nested(events', {}, Rank[stage])
            /\ stage = "sql_execution" /\ stage' = "result_formatting" /\ pc' = "begin"
        BY <3>1, <3>3 DEF ContinueToFormatting, TraceAt, IInv, Where
      <4>2. stage' \in Stages /\ Rank[stage] < Rank[stage']
        BY <4>1, RanksAre DEF Stages
      <4> QED BY <4>1, <4>2, NextStageTraced
    <3>4. CASE Step
      BY <2>2, <3>1, <3>3, <3>4, StepCases, StartTraced, ReturnsTraced, GenerationTraced, AnswerTraced
    <3> QED BY <1>2, <3>2, <3>4
  <2> QED BY <2>1, <2>2 DEF Traced
<1> QED BY <1>1, <1>2 DEF Next

LEMMA InitTraced == Init => Traced
<1> SUFFICES ASSUME Init PROVE Traced
  OBVIOUS
<1>1. pc = "idle" /\ stage = "nlu" /\ events = <<>> /\ timings = <<>> /\ publisher \in BOOLEAN
  BY DEF Init
<1>2. publisher => entry = "ask"
  BY DEF Init
<1>3. OpenIn(<<>>, 0) = {} /\ DoneIn(<<>>, 0) = {}
  BY DEF OpenIn, DoneIn
<1>4. Matched(<<>>, <<>>)
  <2>1. Cardinality(DoneIn(<<>>, Len(<<>>))) = 0
    BY <1>3, FS_EmptySet
  <2> QED BY <2>1 DEF Matched
<1>5. Nested(<<>>, {}, Rank["nlu"] - 1)
  BY <1>3 DEF Nested
<1>6. TraceAt(pc, stage, events, timings)
  BY <1>1, <1>4, <1>5 DEF TraceAt
<1> QED BY <1>1, <1>2, <1>6 DEF Traced
-----------------------------------------------------------------------------
(* The end of the trace.                                                    *)

LEMMA NoTerminalAppend ==
  ASSUME NEW es \in Seq(Events), NEW e \in Events, NoTerminal(es), e.type \notin Terminals
  PROVE  NoTerminal(Append(es, e)) /\ Append(es, e) \in Seq(Events)
<1> DEFINE f == Append(es, e)
<1>1. /\ Len(es) \in Nat /\ Len(f) = Len(es) + 1 /\ f[Len(es) + 1] = e
      /\ \A k \in 1..Len(es) : f[k] = es[k] /\ f \in Seq(Events)
  BY AppendIs
<1> HIDE DEF f
<1>2. NoTerminal(f)
  BY <1>1 DEF NoTerminal
<1> QED BY <1>2 DEF f

LEMMA StageEventsGoOn ==
  ASSUME NEW s \in Stages
  PROVE  /\ Started(s) \in Events /\ Started(s).type \notin Terminals
         /\ Completed(s) \in Events /\ Completed(s).type \notin Terminals
         /\ StageFailed(s) \in Events /\ StageFailed(s).type \notin Terminals
BY EventFields DEF Terminals

\* A step that does not answer publishes no terminal event.
LEMMA GoesOn ==
  ASSUME IInv, publisher, NoTerminal(events), Step \/ Cancel, pc' # "done"
  PROVE  NoTerminal(events')
<1>1. events \in Seq(Events) /\ stage \in Stages
  BY DEF IInv, TypeOK
<1>2. CASE events' = events
  BY <1>2
<1>3. CASE \E e \in Events : Notify(<<e>>) /\ e.type \notin Terminals
  BY <1>1, <1>3, NotifyIs, NoTerminalAppend
<1>4. CASE GenerationReturns
  <2> DEFINE e1 == Append(events, Completed("sql_generation"))
             e2 == Append(e1, Started("llm"))
  <2>1. /\ Completed("sql_generation") \in Events /\ Started("llm") \in Events
        /\ Completed("llm") \in Events /\ Completed("sql_generation").type \notin Terminals
        /\ Started("llm").type \notin Terminals /\ Completed("llm").type \notin Terminals
    BY StageEventsGoOn DEF Stages
  <2>2. events' = Append(e2, Completed("llm"))
    BY <1>1, <1>4, <2>1 DEF GenerationReturns, Notify
  <2>3. NoTerminal(e1) /\ e1 \in Seq(Events)
    BY <1>1, <2>1, NoTerminalAppend
  <2> HIDE DEF e1
  <2>4. NoTerminal(e2) /\ e2 \in Seq(Events)
    BY <2>1, <2>3, NoTerminalAppend
  <2> HIDE DEF e2
  <2> QED BY <2>1, <2>2, <2>4, NoTerminalAppend
<1>5. CASE Step /\ ~GenerationReturns
  <2>1. CASE Start
    <3>1. PipelineStarted \in Events /\ PipelineStarted.type \notin Terminals
      BY EventsTyped, EventsOfTheRun DEF Terminals
    <3> QED BY <1>3, <2>1, <3>1 DEF Start
  <2>2. CASE BeginStage
    BY <1>1, <1>3, <2>2, StageEventsGoOn DEF BeginStage
  <2>3. CASE \/ PreparationReturns \/ FormattingReturns
             \/ \E verdict \in {"valid", "invalid"} : ValidationReturns(verdict)
             \/ \E status \in RepairStatus, tried \in BOOLEAN : RepairReturns(status, tried)
             \/ \E status \in ExecutionStatus : ExecutionReturns(status)
    <3>1. Notify(<<Completed(stage)>>)
      BY <2>3 DEF PreparationReturns, FormattingReturns, ValidationReturns, RepairReturns,
                  ExecutionReturns
    <3> QED BY <1>1, <1>3, <3>1, StageEventsGoOn
  <2>4. CASE ContinueToFormatting
    BY <1>2, <2>4 DEF ContinueToFormatting
  <2>5. CASE SoftFailure \/ Reply \/ StageRaises \/ AnswerNotSerializable
    BY <2>5 DEF SoftFailure, Reply, StageRaises, AnswerNotSerializable, HandleException
  <2> QED BY <1>5, <2>1, <2>2, <2>3, <2>4, <2>5, StepCases
<1>6. CASE Cancel
  BY <1>2, <1>6 DEF Cancel
<1> QED BY <1>4, <1>5, <1>6

\* A terminal event e at the end of a trace without one, telling what the
\* caller is told.
LEMMA TerminalAppended ==
  ASSUME NEW es \in Seq(Events), NEW e \in Events, NoTerminal(es), e.type \in Terminals,
         events' = Append(es, e), pc' = "done", e.status = response'.status,
         e.type = "pipeline_failed" => Len(es) # 0 /\ es[Len(es)] = StageFailed(stage')
  PROVE  TerminalAgrees'
<1> DEFINE f == Append(es, e)
           l == Len(es)
<1>1. /\ l \in Nat /\ Len(f) = l + 1 /\ f[l + 1] = e /\ \A k \in 1..l : f[k] = es[k]
      /\ f \in Seq(Events) /\ DOMAIN f = 1..(l + 1) /\ events' = f
  BY AppendIs
<1>2. \A i \in 1..l : f[i].type \notin Terminals
  BY <1>1 DEF NoTerminal
<1>3. e.type = "pipeline_failed" => f[l] = StageFailed(stage')
  BY <1>1
<1> HIDE DEF f, l
<1>4. ASSUME NEW i \in DOMAIN f, f[i].type \in Terminals PROVE i = l + 1
  BY <1>1, <1>2, <1>4
<1>5. \A i \in DOMAIN f : f[i].type \in Terminals =>
        /\ i = Len(f) /\ f[i].status = response'.status
        /\ f[i].type = "pipeline_failed" => f[i - 1] = StageFailed(stage')
  <2> SUFFICES ASSUME NEW i \in DOMAIN f, f[i].type \in Terminals
               PROVE  /\ i = Len(f) /\ f[i].status = response'.status
                      /\ f[i].type = "pipeline_failed" => f[i - 1] = StageFailed(stage')
    OBVIOUS
  <2>1. i = l + 1 /\ i - 1 = l /\ f[i] = e
    BY <1>1, <1>4
  <2> QED BY <1>1, <1>3, <2>1
<1> QED BY <1>1, <1>5 DEF TerminalAgrees

LEMMA NextKeepsTold == IInv /\ Traced /\ Told /\ [Next]_vars => Told'
<1> SUFFICES ASSUME IInv, Traced, Told, [Next]_vars PROVE Told'
  OBVIOUS
<1>1. CASE UNCHANGED vars
  BY <1>1 DEF vars, Told, TerminalAgrees
<1>2. CASE Step \/ Cancel
  <2>1. entry' = entry /\ publisher' = publisher /\ (~publisher => events' = events)
    BY <1>2, StepFrame
  <2>2. pc # "done"
    BY <1>2 DEF Step, Cancel, Start, BeginStage, PreparationReturns, GenerationReturns,
       ValidationReturns, RepairReturns, ExecutionReturns, SoftFailure, ContinueToFormatting,
       FormattingReturns, Reply, StageRaises, AnswerNotSerializable
  <2>3. NoTerminal(events) /\ events \in Seq(Events) /\ stage \in Stages
    BY <2>2 DEF Told, IInv, TypeOK
  <2>4. CASE ~publisher
    <3>1. events' = <<>> /\ ~publisher'
      BY <2>1, <2>4 DEF Traced
    <3> QED BY <3>1 DEF Told, NoTerminal, TerminalAgrees
  <2>5. CASE publisher /\ pc' # "done"
    <3>1. NoTerminal(events') /\ DOMAIN events' = 1..Len(events')
      <4>1. events' \in Seq(Events)
        BY NextKeepsIInv DEF IInv, TypeOK
      <4> QED BY <1>2, <2>3, <2>5, <4>1, GoesOn
    <3> QED BY <2>5, <3>1 DEF Told, NoTerminal, TerminalAgrees
  <2>6. CASE publisher /\ pc' = "done"
    <3>1. entry = "ask"
      BY <2>6 DEF Traced
    <3>2. SoftFailure \/ Reply \/ StageRaises \/ AnswerNotSerializable
      BY <1>2, <2>6, <3>1 DEF Step, Cancel, Start, BeginStage, PreparationReturns,
         GenerationReturns, ValidationReturns, RepairReturns, ExecutionReturns, AfterGeneration,
         ContinueToFormatting, FormattingReturns
    <3>3. CASE SoftFailure
      <4>1. events' = Append(events, PipelineCompleted("failed")) /\ response'.status = "failed"
        BY <2>3, <2>6, <3>3, NotifyIs, EventsTyped, ResponseFields DEF SoftFailure
      <4> QED BY <2>3, <2>6, <4>1, EventsTyped, EventsOfTheRun, TerminalAppended DEF Told, Terminals
    <3>4. CASE Reply
      <4>1. events' = Append(events, PipelineCompleted("success")) /\ response'.status = "success"
        BY <2>3, <2>6, <3>4, NotifyIs, EventsTyped, ResponseFields DEF Reply
      <4> QED BY <2>3, <2>6, <4>1, EventsTyped, EventsOfTheRun, TerminalAppended DEF Told, Terminals
    <3>5. CASE StageRaises \/ AnswerNotSerializable
      <4> DEFINE es == Append(events, StageFailed(stage))
      <4>1. StageFailed(stage) \in Events /\ StageFailed(stage).type \notin Terminals
        BY <2>3, StageEventsGoOn
      <4>2. /\ events' = Append(es, PipelineFailed) /\ response'.status = "failed"
            /\ stage' = stage
        <5>1. /\ Notify(<<StageFailed(stage), PipelineFailed>>) /\ stage' = stage
              /\ response' = Response("response", "failed")
          BY <3>1, <3>5 DEF StageRaises, AnswerNotSerializable, HandleException
        <5>2. events' = Append(es, PipelineFailed)
          BY <2>3, <2>6, <4>1, <5>1, NotifyIs, EventsTyped
        <5>3. response'.status = "failed"
          BY <5>1, ResponseFields
        <5> QED BY <5>1, <5>2, <5>3
      <4>3. NoTerminal(es) /\ es \in Seq(Events)
        BY <2>3, <4>1, NoTerminalAppend
      <4>4. Len(es) # 0 /\ es[Len(es)] = StageFailed(stage')
        BY <2>3, <4>1, <4>2, AppendIs
      <4> HIDE DEF es
      <4>5. /\ PipelineFailed \in Events /\ PipelineFailed.type \in Terminals
            /\ PipelineFailed.status = "failed"
        BY EventsTyped, EventsOfTheRun DEF Terminals
      <4> QED BY <2>6, <4>2, <4>3, <4>4, <4>5, TerminalAppended DEF Told
    <3> QED BY <3>2, <3>3, <3>4, <3>5
  <2> QED BY <2>4, <2>5, <2>6
<1> QED BY <1>1, <1>2 DEF Next

LEMMA InitTold == Init => Told
BY DEF Init, Told, NoTerminal, TerminalAgrees
-----------------------------------------------------------------------------
(* What the response says.                                                  *)

LEMMA ResponseIs ==
  ASSUME NEW kind, NEW status, response' = Response(kind, status)
  PROVE  /\ response'.kind = kind /\ response'.status = status
         /\ response'.art = art' /\ response'.timings = timings'
         /\ response'.repair_attempted = repair_attempted'
         /\ response'.repair_performed = repair_performed'
BY DEF Response

\* Each measured stage adds itself to the timings.
LEMMA TimedGrows ==
  ASSUME IInv, entry # "repair", NEW s \in Stages, Measure(<<s>>)
  PROVE  \A t \in Stages : Timed(t)' <=> t = s \/ Timed(t)
<1>1. timings \in Seq(Stages) /\ timings' = Append(timings, s)
  BY DEF IInv, TypeOK, Measure
<1>2. /\ Len(timings) \in Nat /\ DOMAIN timings = 1..Len(timings)
      /\ DOMAIN timings' = 1..(Len(timings) + 1) /\ timings'[Len(timings) + 1] = s
      /\ \A i \in 1..Len(timings) : timings'[i] = timings[i]
  BY <1>1
<1>3. DOMAIN timings' = DOMAIN timings \cup {Len(timings) + 1}
  BY <1>2
<1> QED BY <1>2, <1>3 DEF Timed

\* Steps that touch neither artifacts nor timings, and do not answer.
LEMMA SameArtHonest ==
  ASSUME IInv, Honest, Start \/ BeginStage \/ ContinueToFormatting \/ Cancel
  PROVE  Honest'
<1>1. /\ UNCHANGED <<entry, timings, art, repair_attempted, repair_performed>>
      /\ pc # "done" /\ pc' # "done"
      /\ stage' = stage \/ stage' = "result_formatting"
  BY DEF Start, BeginStage, ContinueToFormatting, Cancel
<1>2. Said'
  BY <1>1 DEF Honest, Said
<1>3. ASSUME entry # "repair" PROVE ArtsTimed' /\ RepairTold' /\ SoFar'
  <2>1. ArtsTimed /\ RepairTold /\ SoFar
    BY <1>3 DEF Honest
  <2>2. ArtsTimed'
    BY <1>1, <2>1 DEF ArtsTimed, Timed
  <2>3. RepairTold' /\ SoFar'
    BY <1>1, <2>1 DEF RepairTold, SoFar, EarlyStages
  <2> QED BY <2>2, <2>3
<1> QED BY <1>1, <1>2, <1>3 DEF Honest

LEMMA PreparationHonest ==
  ASSUME IInv, Honest, PreparationReturns \/ FormattingReturns
  PROVE  Honest'
<1>1. /\ UNCHANGED <<entry, art, repair_attempted, repair_performed>>
      /\ pc # "done" /\ pc' # "done" /\ stage \in Stages /\ Measure(<<stage>>)
      /\ stage \notin {"sql_generation", "sql_validation", "sql_repair", "sql_execution"}
  BY DEF PreparationReturns, FormattingReturns, IInv, TypeOK
<1>2. Said'
  BY <1>1 DEF Honest, Said
<1>3. ASSUME entry # "repair" PROVE ArtsTimed' /\ RepairTold' /\ SoFar'
  <2>1. ArtsTimed /\ RepairTold /\ SoFar
    BY <1>3 DEF Honest
  <2>2. \A t \in Stages : Timed(t)' <=> t = stage \/ Timed(t)
    BY <1>1, <1>3, TimedGrows
  <2>3. ArtsTimed'
    BY <1>1, <2>1, <2>2 DEF ArtsTimed, Stages
  <2>4. \/ stage \in EarlyStages /\ stage' \in EarlyStages
        \/ stage' = "result_formatting"
    BY <1>3 DEF PreparationReturns, FormattingReturns, NextStage, EarlyStages
  <2>5. RepairTold' /\ SoFar'
    BY <1>1, <2>1, <2>4 DEF RepairTold, SoFar, EarlyStages
  <2> QED BY <2>3, <2>5
<1> QED BY <1>1, <1>2, <1>3 DEF Honest

LEMMA GenerationHonest ==
  ASSUME IInv, Honest, GenerationReturns
  PROVE  Honest'
<1>1. /\ UNCHANGED <<entry, repair_attempted, repair_performed>> /\ pc' = "begin"
      /\ pc = "call" /\ stage = "sql_generation" /\ stage' = "sql_validation"
  BY DEF GenerationReturns
<1>2. /\ art'.sql = "generated" /\ art'.validation = art.validation /\ art'.repair = art.repair
      /\ art'.execution = art.execution /\ art'.answer = art.answer
  BY DEF GenerationReturns, IInv, TypeOK, Artifacts
<1>3. Said'
  BY <1>1, <1>2 DEF Honest, Said
<1>4. ASSUME entry # "repair" PROVE ArtsTimed' /\ RepairTold' /\ SoFar'
  <2>1. ArtsTimed /\ RepairTold /\ SoFar
    BY <1>4 DEF Honest
  <2>2. timings \in Seq(Stages) /\ timings' = timings \o <<"sql_generation", "llm">>
    BY <1>4 DEF GenerationReturns, Measure, IInv, TypeOK
  <2>3. /\ Len(timings) \in Nat /\ DOMAIN timings = 1..Len(timings)
        /\ DOMAIN timings' = 1..(Len(timings) + 2)
        /\ timings'[Len(timings) + 1] = "sql_generation" /\ timings'[Len(timings) + 2] = "llm"
        /\ \A i \in 1..Len(timings) : timings'[i] = timings[i]
    BY <2>2
  <2>4. DOMAIN timings' = DOMAIN timings \cup {Len(timings) + 1, Len(timings) + 2}
    BY <2>3
  <2>5. \A t \in Stages : Timed(t)' <=> t \in {"sql_generation", "llm"} \/ Timed(t)
    BY <2>3, <2>4 DEF Timed
  <2>6. ArtsTimed'
    BY <1>2, <2>1, <2>5 DEF ArtsTimed, Stages
  <2>7. RepairTold' /\ SoFar'
    BY <1>1, <1>2, <2>1 DEF RepairTold, SoFar, EarlyStages
  <2> QED BY <2>6, <2>7
<1> QED BY <1>1, <1>3, <1>4 DEF Honest

LEMMA ValidationHonest ==
  ASSUME IInv, Honest, NEW verdict \in {"valid", "invalid"}, ValidationReturns(verdict)
  PROVE  Honest'
<1>1. /\ entry' = entry /\ entry # "repair" /\ pc = "call" /\ stage = "sql_validation"
      /\ "sql_validation" \in Stages /\ Measure(<<stage>>)
      /\ repair_performed' = repair_performed
  BY DEF ValidationReturns, IInv, TypeOK, Where, RepairStages
<1>2. /\ art'.sql = art.sql /\ art'.validation = verdict /\ art'.repair = art.repair
      /\ art'.execution = art.execution /\ art'.answer = art.answer
  BY DEF ValidationReturns, IInv, TypeOK, Artifacts
<1>3. repair_attempted' <=> verdict = "invalid"
  BY DEF ValidationReturns
<1>4. \/ pc' = "done" /\ stage' = stage /\ response' = Response("generated_sql", "none")
      \/ pc' = "begin" /\ stage' = "sql_execution"
      \/ pc' = "begin" /\ stage' = "sql_repair" /\ verdict = "invalid"
  BY DEF ValidationReturns, AfterGeneration
<1>5. ArtsTimed /\ RepairTold /\ SoFar /\ Said
  BY <1>1 DEF Honest
<1>6. Said'
  <2>1. ~art'.answer
    BY <1>1, <1>2, <1>5 DEF Said
  <2>2. CASE pc' = "done"
    <3>1. /\ response'.kind = "generated_sql" /\ response'.status = "none"
          /\ response'.art = art' /\ response'.timings = timings'
          /\ response'.repair_attempted = repair_attempted'
          /\ response'.repair_performed = repair_performed'
      BY <1>4, <2>2, ResponseIs
    <3> QED BY <1>1, <2>1, <2>2, <3>1 DEF Said
  <2>3. CASE pc' # "done"
    BY <2>1, <2>3 DEF Said
  <2> QED BY <2>2, <2>3
<1>7. ArtsTimed'
  <2>1. \A t \in Stages : Timed(t)' <=> t = "sql_validation" \/ Timed(t)
    BY <1>1, TimedGrows
  <2> QED BY <1>2, <1>5, <2>1 DEF ArtsTimed, Stages
<1>8. RepairTold'
  BY <1>1, <1>2, <1>3, <1>4, <1>5 DEF RepairTold, SoFar
<1>9. SoFar'
  BY <1>1, <1>2, <1>4, <1>5 DEF SoFar, EarlyStages
<1> QED BY <1>6, <1>7, <1>8, <1>9 DEF Honest

LEMMA RepairHonest ==
  ASSUME IInv, Honest, NEW status \in RepairStatus, NEW tried \in BOOLEAN,
         RepairReturns(status, tried)
  PROVE  Honest'
<1>1. /\ entry' = entry /\ pc = "call" /\ stage = "sql_repair"
      /\ "sql_repair" \in Stages /\ Measure(<<stage>>)
      /\ repair_attempted' = repair_attempted /\ status # "none"
  BY DEF RepairReturns, IInv, TypeOK, RepairStatus
<1>2. /\ art'.sql = IF tried THEN "repaired" ELSE art.sql
      /\ art'.validation = IF status = "repaired" THEN "valid"
                           ELSE IF tried THEN "invalid" ELSE art.validation
      /\ art'.repair = status
      /\ art'.execution = art.execution /\ art'.answer = art.answer
  BY DEF RepairReturns, IInv, TypeOK, Artifacts
<1>3. /\ repair_performed' <=> entry # "repair" /\ status = "repaired"
      /\ status = "repaired" => tried
  BY DEF RepairReturns
<1>4. \/ /\ pc' = "done" /\ stage' = stage
         /\ \/ entry # "repair" /\ response' = Response("generated_sql", "none")
            \/ response' = Response("repair_result", "none")
      \/ pc' = "begin" /\ stage' = "sql_execution"
  BY DEF RepairReturns, AfterGeneration
<1>5. Said'
  <2>1. ~art'.answer
    BY <1>1, <1>2 DEF Honest, Said
  <2>2. CASE pc' = "done"
    <3>1. PICK kind \in {"generated_sql", "repair_result"} :
            /\ response' = Response(kind, "none")
            /\ kind = "generated_sql" => entry # "repair"
      BY <1>4, <2>2
    <3>2. /\ response'.kind = kind /\ response'.status = "none"
          /\ response'.art = art' /\ response'.timings = timings'
          /\ response'.repair_attempted = repair_attempted'
          /\ response'.repair_performed = repair_performed'
      BY <3>1, ResponseIs
    <3> QED BY <1>1, <2>1, <2>2, <3>1, <3>2 DEF Said
  <2>3. CASE pc' # "done"
    BY <2>1, <2>3 DEF Said
  <2> QED BY <2>2, <2>3
<1>6. ASSUME entry # "repair" PROVE ArtsTimed' /\ RepairTold' /\ SoFar'
  <2>1. ArtsTimed /\ RepairTold /\ SoFar
    BY <1>6 DEF Honest
  <2>2. \A t \in Stages : Timed(t)' <=> t = "sql_repair" \/ Timed(t)
    BY <1>1, <1>6, TimedGrows
  <2>3. ArtsTimed'
    BY <1>1, <1>2, <2>1, <2>2 DEF ArtsTimed, SoFar, Stages
  <2>4. RepairTold'
    BY <1>1, <1>2, <1>3, <1>4, <1>6, <2>1 DEF RepairTold
  <2>5. SoFar'
    BY <1>1, <1>2, <1>4, <2>1 DEF SoFar, EarlyStages
  <2> QED BY <2>3, <2>4, <2>5
<1> QED BY <1>1, <1>5, <1>6 DEF Honest

LEMMA ExecutionHonest ==
  ASSUME IInv, Honest, NEW status \in ExecutionStatus, ExecutionReturns(status)
  PROVE  Honest'
<1>1. /\ UNCHANGED <<entry, stage, repair_attempted, repair_performed>> /\ entry # "repair"
      /\ pc = "call" /\ stage = "sql_execution" /\ pc' = "executed"
      /\ "sql_execution" \in Stages /\ Measure(<<stage>>) /\ status # "none"
  BY DEF ExecutionReturns, IInv, TypeOK, Where, RepairStages, ExecutionStatus
<1>2. /\ art'.sql = art.sql /\ art'.validation = art.validation /\ art'.repair = art.repair
      /\ art'.execution = status /\ art'.answer = art.answer
  BY DEF ExecutionReturns, IInv, TypeOK, Artifacts
<1>3. ArtsTimed /\ RepairTold /\ SoFar /\ Said
  BY <1>1 DEF Honest
<1>4. Said'
  BY <1>1, <1>2, <1>3 DEF Said
<1>5. ArtsTimed'
  <2>1. \A t \in Stages : Timed(t)' <=> t = "sql_execution" \/ Timed(t)
    BY <1>1, TimedGrows
  <2> QED BY <1>1, <1>2, <1>3, <2>1 DEF ArtsTimed, Stages
<1>6. RepairTold' /\ SoFar'
  BY <1>1, <1>2, <1>3 DEF RepairTold, SoFar, EarlyStages
<1> QED BY <1>1, <1>4, <1>5, <1>6 DEF Honest

\* The steps that answer the caller copy the state they answer from.
LEMMA AnswerHonest ==
  ASSUME IInv, Honest, SoftFailure \/ Reply \/ StageRaises \/ AnswerNotSerializable
  PROVE  Honest'
<1>1. /\ UNCHANGED <<entry, stage, timings, repair_attempted, repair_performed>>
      /\ pc # "done" /\ pc' = "done"
  BY DEF SoftFailure, Reply, StageRaises, AnswerNotSerializable, HandleException
<1>2. /\ art'.sql = art.sql /\ art'.validation = art.validation /\ art'.repair = art.repair
      /\ art'.execution = art.execution /\ (Reply \/ art' = art) /\ (Reply => art'.answer)
  BY DEF SoftFailure, Reply, StageRaises, AnswerNotSerializable, HandleException, IInv, TypeOK,
         Artifacts
<1>3. PICK kind \in {"response", "raised"}, status \in {"none", "success", "failed"} :
        /\ response' = Response(kind, status)
        /\ kind = "response" => entry # "repair" /\ (status = "success" <=> Reply)
  <2>1. CASE Reply
    <3>1. response' = Response("response", "success") /\ entry # "repair"
      BY <2>1 DEF Reply, IInv, Where, RepairStages
    <3> QED BY <2>1, <3>1
  <2>2. CASE ~Reply
    <3>1. \/ response' = Response("response", "failed") /\ entry # "repair"
          \/ response' = Response("raised", "none")
      BY <2>2 DEF SoftFailure, StageRaises, AnswerNotSerializable, HandleException, IInv, Where,
                  RepairStages
    <3> QED BY <2>2, <3>1
  <2> QED BY <2>1, <2>2
<1>4. /\ response'.kind = kind /\ response'.status = status
      /\ response'.art = art' /\ response'.timings = timings'
      /\ response'.repair_attempted = repair_attempted'
      /\ response'.repair_performed = repair_performed'
  BY <1>3, ResponseIs
<1>5. kind = "response" => (status = "success" <=> art'.answer)
  BY <1>1, <1>2, <1>3 DEF Honest, Said
<1>6. Said'
  BY <1>1, <1>3, <1>4, <1>5 DEF Said
<1>7. ASSUME entry # "repair" PROVE ArtsTimed' /\ RepairTold' /\ SoFar'
  <2>1. ArtsTimed /\ RepairTold /\ SoFar
    BY <1>7 DEF Honest
  <2>2. ArtsTimed'
    BY <1>1, <1>2, <2>1 DEF ArtsTimed, Timed
  <2>3. RepairTold' /\ SoFar'
    BY <1>1, <1>2, <2>1 DEF RepairTold, SoFar
  <2> QED BY <2>2, <2>3
<1> QED BY <1>1, <1>6, <1>7 DEF Honest

LEMMA NextKeepsHonest == IInv /\ Honest /\ [Next]_vars => Honest'
<1> SUFFICES ASSUME IInv, Honest, [Next]_vars PROVE Honest'
  OBVIOUS
<1>1. CASE UNCHANGED vars
  BY <1>1 DEF vars, Honest, ArtsTimed, RepairTold, SoFar, Said, Timed
<1>2. CASE Step \/ Cancel
  BY <1>2, SameArtHonest, PreparationHonest, GenerationHonest, ValidationHonest, RepairHonest,
     ExecutionHonest, AnswerHonest DEF Step
<1> QED BY <1>1, <1>2 DEF Next

LEMMA InitHonest == Init => Honest
BY DEF Init, Honest, ArtsTimed, RepairTold, SoFar, Said, Timed, EarlyStages

LEMMA FullInvariance == Spec => [](IInv /\ Traced /\ Told /\ Honest)
<1>1. Init => IInv /\ Traced /\ Told /\ Honest
  BY InitIInv, InitTraced, InitTold, InitHonest
<1>2. /\ IInv /\ Traced /\ Told /\ Honest /\ [Next]_vars
      => (IInv /\ Traced /\ Told /\ Honest)'
  BY NextKeepsIInv, NextKeepsTraced, NextKeepsTold, NextKeepsHonest
<1> QED BY <1>1, <1>2, PTL DEF Spec

\* The events of a run (StageEventPublisher.notify in PipelineRunner.run) nest:
\* never two stages open at once, none begun twice, none completed unless open.
THEOREM StagesAreNested == Spec => []StagesNest
<1>1. IInv /\ Traced => StagesNest
  <2> SUFFICES ASSUME IInv, Traced PROVE StagesNest
    OBVIOUS
  <2>1. events \in Seq(Events) /\ DOMAIN events = 1..Len(events) /\ pc \in Points
    BY DEF IInv, TypeOK
  <2>2. CASE ~publisher
    BY <2>2 DEF Traced, StagesNest
  <2>3. CASE publisher
    <3>1. \E o, n : Nested(events, o, n)
      BY <2>1, <2>3 DEF Traced, TraceAt, Points
    <3>2. \A k : OpenAfter(k) = OpenIn(events, k)
      BY DEF OpenAfter, OpenIn, Ends
    <3> QED BY <2>1, <3>1, <3>2 DEF Nested, StagesNest
  <2> QED BY <2>2, <2>3
<1> QED BY <1>1, FullInvariance, PTL

\* The n-th stage_completed a listener sees is the n-th StageTiming of the run,
\* and there are no others, so a progress bar and the statistics agree.
THEOREM TimingsAreToldOf == Spec => []EventsMatchTimings
<1>1. IInv /\ Traced => EventsMatchTimings
  <2> SUFFICES ASSUME IInv, Traced, publisher PROVE Matched(events, timings) => EventsMatchTimings
    BY DEF EventsMatchTimings, Traced, TraceAt
  <2>1. events \in Seq(Events) /\ DOMAIN events = 1..Len(events)
    BY DEF IInv, TypeOK
  <2>2. \A k : CompletedAfter(k) = Cardinality(DoneIn(events, k))
    BY DEF CompletedAfter, DoneIn
  <2> QED BY <2>1, <2>2 DEF Matched, EventsMatchTimings
<1> QED BY <1>1, FullInvariance, PTL

\* The terminal event is published with the answer, is the last one, and says
\* what the answer says; pipeline_failed follows the failing stage's own event.
THEOREM TerminalIsTrue == Spec => []TerminalAgrees
<1>1. Told => TerminalAgrees
  BY DEF Told
<1> QED BY <1>1, FullInvariance, PTL

\* QueryMindResponse and GeneratedSqlResult carry exactly the artifacts of the
\* stages they time, and claim repair and success only when they happened,
\* also when a stage raised (QueryMindEngine.ask's error path).
THEOREM ResponsesAreHonest == Spec => []ResponseHonest
<1>1. IInv /\ Honest => ResponseHonest
  <2> SUFFICES ASSUME IInv, Honest, response.kind \in {"response", "generated_sql"}
               PROVE  ResponseHonest
    BY DEF ResponseHonest
  <2>1. pc = "done"
    BY DEF IInv, Where
  <2>2. /\ response.art = art /\ response.timings = timings
        /\ response.repair_attempted = repair_attempted
        /\ response.repair_performed = repair_performed
        /\ response.status = "success" <=> art.answer
        /\ ArtsTimed /\ RepairTold
    BY <2>1 DEF Honest, Said
  <2> QED BY <2>2 DEF ResponseHonest, ArtsTimed, RepairTold, Timed
<1> QED BY <1>1, FullInvariance, PTL
=============================================================================
