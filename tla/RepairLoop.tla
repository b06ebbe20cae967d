----------------------------- MODULE RepairLoop -----------------------------
(***************************************************************************)
(* SQLRepairEngine.repair (sql_repair/engine.py) with its planner and its  *)
(* strategy, and inside each attempt the LLM call under RetryPolicy        *)
(* (llm/retry.py, llm/adapter.py).                                         *)
(*                                                                         *)
(* A SQL text is named by the attempt that produced it, 0 for the one      *)
(* handed in; a validation result is the sets of its error and of its      *)
(* warning codes (the loop looks at warnings only when there is no error,  *)
(* so only the first result carries them).  Prompts and metrics are left   *)
(* out; delays are counted in units of the base delay.                     *)
(***************************************************************************)
EXTENDS Integers, Sequences

CONSTANTS
  Codes,         \* ValidationIssue codes that occur
  MaxAttempts,   \* RepairStrategy.max_attempts
  MaxRetries,    \* RetryPolicy.max_retries
  MaxDelay       \* RetryPolicy.max_delay_seconds / base_delay_seconds

Internal == "validator_internal_error"

ASSUME RepairAssumption ==
  /\ Codes \subseteq STRING
  /\ MaxAttempts \in Nat \ {0}
  /\ MaxRetries \in Nat
  /\ MaxDelay \in Nat

VARIABLES
  pc,          \* "plan", "llm", "extract", "done" or "raised"
  sql,         \* current_sql
  original,    \* the validation_result handed in
  validation,  \* current_validation
  history,     \* the RepairAttempts
  delays,      \* sleeps of the current LLM call
  calls,       \* history: provider calls made so far
  status,      \* RepairStatus of the result
  error        \* what was raised

vars == <<pc, sql, original, validation, history, delays, calls, status, error>>
-----------------------------------------------------------------------------
\* _ISSUE_CODE_TO_REASON and _REASON_PRIORITY: a RepairReason is named by its
\* priority, 99 for OTHER.
ReasonOf(code) ==
  CASE code = "sql_syntax_error"              -> 0
    [] code = "unsupported_statement_type"    -> 1
    [] code = "unknown_table"                 -> 2
    [] code \in {"unknown_schema", "ambiguous_table_reference"} -> 3
    [] code \in {"unknown_column", "ambiguous_column"} -> 4
    [] code \in {"invalid_qualification", "duplicate_table_alias",
                 "duplicate_alias", "unknown_alias"} -> 5
    [] code \in {"unknown_join_relationship",
                 "join_columns_do_not_match_relationship"} -> 6
    [] code = "missing_group_by"              -> 7
    [] code \in {"having_without_aggregation", "nested_aggregate"} -> 8
    [] code = "unsupported_function"          -> 9
    [] code \in {"unsupported_dialect", "unsupported_dialect_construct"} -> 10
    [] code = "business_metric_schema_mismatch" -> 11
    [] OTHER                                  -> 99

\* `errors or warnings`
Issues(v) == IF v.errors # {} THEN v.errors ELSE v.warnings

\* RepairPlan.is_repairable; false also when there is nothing to repair.
Repairable(v) == ~ (Issues(v) \subseteq {Internal})

\* RepairPlan.primary_reason: the first category in priority order.
PrimaryReason(v) ==
  CHOOSE r \in {ReasonOf(c) : c \in Issues(v)} : \A c \in Issues(v) : r <= ReasonOf(c)

Last(h) == h[Len(h)]

\* _made_progress, between the last two attempts.
MadeProgress(h) == h[Len(h)].validation.errors # h[Len(h) - 1].validation.errors

\* Mutant: off by one at max_attempts.
ShouldContinueOnceMore(h) ==
  /\ h # <<>>
  /\ ~ Last(h).success
  /\ Len(h) <= MaxAttempts
  /\ Len(h) < 2 \/ MadeProgress(h)

ShouldContinue(h) ==
  /\ h # <<>>
  /\ ~ Last(h).success
  /\ Len(h) < MaxAttempts
  /\ Len(h) < 2 \/ MadeProgress(h)

\* Mutant: the attempts are counted before the last one's success is looked at.
FinalStatusCountsFirst(h) ==
  IF h = <<>> THEN "unrepairable"
  ELSE IF Len(h) >= MaxAttempts THEN "max_attempts_reached"
  ELSE IF Last(h).success THEN "repaired"
  ELSE IF Len(h) >= 2 /\ ~ MadeProgress(h) THEN "no_progress"
  ELSE "unrepairable"

FinalStatus(h) ==
  IF h = <<>> THEN "unrepairable"
  ELSE IF Last(h).success THEN "repaired"
  ELSE IF Len(h) >= 2 /\ ~ MadeProgress(h) THEN "no_progress"
  ELSE IF Len(h) >= MaxAttempts THEN "max_attempts_reached"
  ELSE "unrepairable"

\* RetryPolicy.delay_for_attempt, k >= 1.
Pow2[n \in Nat] == IF n = 0 THEN 1 ELSE 2 * Pow2[n - 1]
DelayFor(k) == IF Pow2[k - 1] < MaxDelay THEN Pow2[k - 1] ELSE MaxDelay
-----------------------------------------------------------------------------
Init ==
  /\ pc = "plan"
  /\ sql = 0
  /\ original \in [errors : SUBSET Codes, warnings : SUBSET (Codes \ {Internal})]
  /\ validation = original
  /\ history = <<>>
  /\ delays = <<>>
  /\ calls = 0
  /\ status = "none"
  /\ error = "none"

\* Mutant: `continue` where the loop should break.
PlanContinues ==
  /\ pc = "plan"
  /\ IF Repairable(validation) THEN pc' = "llm" ELSE pc' = pc
  /\ delays' = <<>>
  /\ UNCHANGED <<sql, original, validation, history, calls, status, error>>

\* The loop head: break, or build the prompt and call the LLM.
Plan ==
  /\ pc = "plan"
  /\ IF Repairable(validation)
     THEN pc' = "llm" /\ status' = status
     ELSE pc' = "done" /\ status' = FinalStatus(history)
  /\ delays' = <<>>
  /\ UNCHANGED <<sql, original, validation, history, calls, error>>

\* Mutant: one retry too many.
ProviderFailsOnceMore ==
  /\ pc = "llm"
  /\ calls' = calls + 1
  /\ IF Len(delays) > MaxRetries
     THEN pc' = "raised" /\ error' = "retry_exhausted" /\ delays' = delays
     ELSE /\ delays' = Append(delays, DelayFor(Len(delays) + 1))
          /\ UNCHANGED <<pc, error>>
  /\ UNCHANGED <<sql, original, validation, history, status>>

\* LLMTransientError: sleep and try again, or RetryExhaustedError.
ProviderFailsTransiently ==
  /\ pc = "llm"
  /\ calls' = calls + 1
  /\ IF Len(delays) >= MaxRetries
     THEN pc' = "raised" /\ error' = "retry_exhausted" /\ delays' = delays
     ELSE /\ delays' = Append(delays, DelayFor(Len(delays) + 1))
          /\ UNCHANGED <<pc, error>>
  /\ UNCHANGED <<sql, original, validation, history, status>>

\* Any other error of the provider propagates unretried.
ProviderFailsForGood ==
  /\ pc = "llm"
  /\ calls' = calls + 1
  /\ pc' = "raised"
  /\ error' = "provider"
  /\ UNCHANGED <<sql, original, validation, history, delays, status>>

ProviderAnswers ==
  /\ pc = "llm"
  /\ calls' = calls + 1
  /\ pc' = "extract"
  /\ UNCHANGED <<sql, original, validation, history, delays, status, error>>

\* No usable SQL in the answer (RepairedSQLExtractionError).
ExtractionRaises ==
  /\ pc = "extract"
  /\ pc' = "raised"
  /\ error' = "extraction"
  /\ UNCHANGED <<sql, original, validation, history, delays, calls, status>>

\* Mutant: the plan is made once, from the validation that was handed in.
AttemptRecordedStale(found) ==
  /\ pc = "extract"
  /\ LET n == Len(history) + 1
         v == [errors |-> found, warnings |-> {}]
         h == Append(history, [number |-> n, reason |-> PrimaryReason(original),
                               input |-> sql, output |-> n, validation |-> v,
                               retries |-> Len(delays), success |-> found = {}])
     IN  /\ history' = h
         /\ sql' = n
         /\ validation' = v
         /\ IF ShouldContinue(h)
            THEN pc' = "plan" /\ status' = status
            ELSE pc' = "done" /\ status' = FinalStatus(h)
  /\ UNCHANGED <<original, delays, calls, error>>

\* The answer's SQL is extracted, validated and recorded; then the strategy
\* decides.
AttemptRecorded(found) ==
  /\ pc = "extract"
  /\ LET n == Len(history) + 1
         v == [errors |-> found, warnings |-> {}]
         h == Append(history, [number |-> n, reason |-> PrimaryReason(validation),
                               input |-> sql, output |-> n, validation |-> v,
                               retries |-> Len(delays), success |-> found = {}])
     IN  /\ history' = h
         /\ sql' = n
         /\ validation' = v
         /\ IF ShouldContinue(h)
            THEN pc' = "plan" /\ status' = status
            ELSE pc' = "done" /\ status' = FinalStatus(h)
  /\ UNCHANGED <<original, delays, calls, error>>

Next ==
  \/ Plan
  \/ ProviderFailsTransiently
  \/ ProviderFailsForGood
  \/ ProviderAnswers
  \/ ExtractionRaises
  \/ \E found \in SUBSET Codes : AttemptRecorded(found)

\* repair is one synchronous call: it runs until it returns or raises.
Spec == Init /\ [][Next]_vars /\ WF_vars(Next)
-----------------------------------------------------------------------------
Reports == [errors : SUBSET Codes, warnings : SUBSET Codes]
Attempts == [number : Nat, reason : 0..99, input : Nat, output : Nat,
             validation : Reports, retries : 0..MaxRetries, success : BOOLEAN]
Statuses == {"repaired", "max_attempts_reached", "no_progress", "unrepairable"}

\* Types of the loop's local variables.
TypeOK ==
  /\ pc \in {"plan", "llm", "extract", "done", "raised"}
  /\ sql \in Nat
  /\ original \in Reports
  /\ validation \in Reports
  /\ history \in Seq(Attempts)
  /\ delays \in Seq(0..MaxDelay)
  /\ calls \in Nat
  /\ status \in Statuses \cup {"none"}
  /\ error \in {"none", "retry_exhausted", "provider", "extraction"}

\* RepairStatus, which final_status works out from the history alone, tells
\* why the loop really stopped, and REPAIRED is never claimed for SQL that is
\* not valid; with no attempt, SQL and verdict are the ones that came in.
\* The orchestrator (Pipeline!RepairReturns) relies on this.
StatusHonest ==
  pc = "done" =>
    /\ status = "repaired" <=> history # <<>> /\ validation.errors = {}
    /\ status = "no_progress" =>
         /\ Len(history) >= 2
         /\ validation.errors = history[Len(history) - 1].validation.errors
    /\ status = "max_attempts_reached" => Len(history) = MaxAttempts
    /\ status = "unrepairable" => Issues(validation) \subseteq {Internal}
    /\ history = <<>> => sql = 0 /\ validation = original

\* The attempts form one chain: each starts from the SQL the previous one
\* produced and is told the most urgent reason of that very SQL's validation,
\* never of an older one; only the last can have succeeded.
HistoryChains ==
  /\ sql = Len(history)
  /\ \A k \in DOMAIN history :
       LET before == IF k = 1 THEN original ELSE history[k - 1].validation
       IN  /\ history[k].number = k
           /\ history[k].input = k - 1
           /\ history[k].output = k
           /\ history[k].reason \in {ReasonOf(c) : c \in Issues(before)}
           /\ \A c \in Issues(before) : history[k].reason <= ReasonOf(c)
           /\ history[k].success <=> history[k].validation.errors = {}
           /\ history[k].success => k = Len(history)
  /\ validation = IF history = <<>> THEN original ELSE Last(history).validation

\* No LLM call is spent without hope: at most MaxAttempts attempts, at most
\* MaxAttempts * (MaxRetries + 1) provider calls in all, and none after two
\* attempts that left the same error codes or after an internal error only.
NoWastedCalls ==
  /\ Len(history) <= MaxAttempts
  /\ calls <= MaxAttempts * (MaxRetries + 1)
  /\ \A k \in DOMAIN history :
       k < Len(history) =>
         /\ ~ (history[k].validation.errors \subseteq {Internal})
         /\ k > 1 => history[k].validation.errors # history[k - 1].validation.errors
  /\ pc = "llm" => Len(history) < MaxAttempts

\* RetryExhaustedError is raised only after max_retries + 1 failures of one
\* call, and the sleeps in between grow, up to the cap.
RetryDiscipline ==
  /\ error = "retry_exhausted" => Len(delays) = MaxRetries
  /\ Len(delays) <= MaxRetries
  /\ \A k \in DOMAIN delays : k > 1 => delays[k - 1] <= delays[k]
  /\ \A k \in DOMAIN delays :
       k > 1 => delays[k] = 2 * delays[k - 1] \/ delays[k] = MaxDelay

\* The loop ends, whatever the LLM and the validator answer.
Terminates == <>(pc \in {"done", "raised"})
=============================================================================
