------------------------------ MODULE Service ------------------------------
(***************************************************************************)
(* The HTTP service (querymind.api): concurrent requests through limits,   *)
(* authentication by API key or bearer token, role checks, the handler and *)
(* the audit log, over one shared pool of database connections.            *)
(*                                                                         *)
(* A request gives up control only where it awaits the database, so every  *)
(* step between two such points is one action.  Each database operation    *)
(* has its own transaction: it takes a connection (Acquire), works and     *)
(* gives it back; any of them may fail (DbFails).  The calls of the LLM    *)
(* are synchronous and block the loop, so generation, validation and       *)
(* repair happen in one step.                                              *)
(***************************************************************************)
EXTENDS SqlValidation, Integers

CONSTANTS
    Requests, Users, Keys,
    Role,           \* the role of every user
    FirstKeys,      \* the keys that exist at first, with their owners
    Texts,          \* the SQL texts, by name
    Plans,          \* what the client of each request may send
    Repairs,        \* the texts a repair may end with
    Orders,         \* the orders a hash seed gives to the qualifiers of a condition
    RowCounts,      \* the numbers of rows a query may return
    PoolSize,       \* pool_size + max_overflow
    MaxOutside      \* bound on what happens outside: expiry, time passing, deactivation

ASSUME PoolAssumption == PoolSize \in Nat \ {0} /\ IsFiniteSet(Requests)

VARIABLES
    keys,       \* the rows of api_keys
    active,     \* users.is_active
    pool,       \* connections checked out
    reqs,       \* the requests
    audit,      \* the rows of audit_log: <<request, event>>
    metrics,    \* the collector's counters
    hash_order,      \* the hash order of this process
    outside     \* how much has happened outside

vars == <<keys, active, pool, reqs, audit, metrics, hash_order, outside>>

----------------------------------------------------------------------------
(* Requests, routes and answers.                                           *)

\* key and bearer are the credentials sent, content what the model answers to
\* the question, text the SQL sent and claim what the client says of it, target
\* a key.  Texts go by their names.
Plan(route, key, bearer) ==
    [route |-> route, key |-> key, bearer |-> bearer, question |-> "asked",
     content |-> None, text |-> None, claim |-> FALSE, target |-> None]

Route(credential, role, limited) == [credential |-> credential, role |-> role, limited |-> limited]

Routes ==
    [query |-> Route("any", "analyst", TRUE), sql |-> Route("any", "analyst", TRUE),
     validate |-> Route("any", "analyst", TRUE), repair |-> Route("any", "analyst", TRUE),
     execute |-> Route("any", "analyst", TRUE), format |-> Route("any", "analyst", TRUE),
     health |-> Route("any", "viewer", FALSE), me |-> Route("any", "viewer", FALSE),
     diagnostics |-> Route("any", "admin", FALSE), metrics |-> Route("any", "admin", FALSE),
     settings |-> Route("any", "admin", FALSE),
     create_api_key |-> Route("jwt", "viewer", FALSE),
     list_api_keys |-> Route("jwt", "viewer", FALSE),
     revoke_api_key |-> Route("jwt", "viewer", FALSE),
     live |-> Route("none", "viewer", FALSE), ready |-> Route("none", "viewer", FALSE)]

\* What a client may send: a credential of each kind or none, the model's answer
\* where a question is asked, a text or a key where the route works on one.  The
\* token "gone" is well signed, but for an account that has no row.
Contents ==
    [sql_block : DOMAIN Texts \cup {None}, block : DOMAIN Texts \cup {None}, raw : DOMAIN Texts]

ClientPlans ==
    {p \in [route : DOMAIN Routes, key : Keys \cup {None, "malformed"},
            bearer : Users \cup {None, "bad", "gone"}, question : {"asked", "empty", "unanswered"},
            content : Contents \cup {None}, text : DOMAIN Texts \cup {None},
            claim : BOOLEAN, target : Keys \cup {None}] :
        /\ p.route \in {"query", "sql"} /\ p.question = "asked" => p.content \in Contents
        /\ p.route \in {"validate", "execute"} => p.text \in DOMAIN Texts
        /\ p.route = "revoke_api_key" => p.target \in Keys}

ROLE_RANK == [viewer |-> 1, analyst |-> 2, admin |-> 3]

\* What ends a run before its execution.
Failures == {"EmptyQuestionError", "LLMError", "SQLExtractionError", "TokenError", "RepairError"}

\* None is no value at all, every first key has its owner, every text its list of
\* statements, and clients send what the request models let through.
ASSUME NoneAssumption ==
    /\ None \notin Users \cup Keys \cup DOMAIN Texts
    /\ None \notin ClientPlans \cup Failures \cup {"success"}
ASSUME KeysAssumption ==
    /\ "malformed" \notin Keys /\ {"bad", "gone"} \cap Users = {}
    /\ DOMAIN FirstKeys \subseteq Keys /\ \A k \in DOMAIN FirstKeys : FirstKeys[k] \in Users
ASSUME TextsAssumption ==
    /\ Repairs \subseteq DOMAIN Texts
    /\ \A t \in DOMAIN Texts : DOMAIN Texts[t].statements = 1..Len(Texts[t].statements)
ASSUME PlansAssumption == \A r \in Requests : Plans[r] \subseteq ClientPlans

\* Mutant: an exception nobody added to the table.
STATUS_BY_EXCEPTION_Short ==
    [EmptyQuestionError |-> 400, FormattingError |-> 422, InvalidTokenError |-> 401,
     InvalidApiKeyError |-> 401, ApiKeyExpiredError |-> 401, ApiKeyNotFoundError |-> 404,
     InactiveUserError |-> 403, ForbiddenRoleError |-> 403]
STATUS_BY_EXCEPTION ==
    [EmptyQuestionError |-> 400, FormattingError |-> 422, InvalidTokenError |-> 401,
     InvalidApiKeyError |-> 401, ApiKeyExpiredError |-> 401, ApiKeyRevokedError |-> 401,
     ApiKeyNotFoundError |-> 404, InactiveUserError |-> 403, ForbiddenRoleError |-> 403]

status_for(error) ==
    IF error \in DOMAIN STATUS_BY_EXCEPTION THEN STATUS_BY_EXCEPTION[error] ELSE 500

\* What a step leaves the request q with.  The handler of last resort runs
\* outside the middlewares, so its answer carries none of their headers.
Goto(q, pc) == [q EXCEPT !.pc = pc]
Answer(q, code) == [q EXCEPT !.pc = "done", !.status = code, !.headers = TRUE]
Unhandled(q) == [q EXCEPT !.pc = "done", !.status = 500, !.headers = FALSE]
Raise(q, error) ==
    IF error \in DOMAIN STATUS_BY_EXCEPTION THEN Answer(q, status_for(error)) ELSE Unhandled(q)
Record(q, event) == [q EXCEPT !.pc = "audit", !.event = event]

NewRequest ==
    [pc |-> "idle", plan |-> None, conn |-> FALSE, status |-> 0, headers |-> FALSE,
     user |-> None, row |-> None, event |-> None, error |-> None,
     generation |-> None, ran |-> None, outcome |-> None, answer |-> None,
     late |-> FALSE, lost |-> FALSE, broke |-> FALSE]

\* The points where a request needs a connection.
DbPoints == {"key_row", "key_user", "touch", "user_row", "audit", "execute", "probe",
             "select_one", "find_key", "create", "revoke", "list"}

----------------------------------------------------------------------------
(* SQL generation and the answer's shape.                                  *)

\* What the validators say of every text, in every hash order.
Verdicts == {<<t, o, Validate(Texts[t], o).is_valid>> : t \in DOMAIN Texts, o \in Orders}
is_valid(t) == <<t, hash_order, TRUE>> \in Verdicts

\* The first ```sql block, else the first block of any kind, else all of it.
extract(content) ==
    IF content.sql_block # None THEN content.sql_block
    ELSE IF content.block # None THEN content.block ELSE content.raw

\* The stages timed so far, in the pipeline's order.
Prepared == {"nlu", "schema_linking", "business_knowledge", "retrieval", "prompt_compilation"}
Generated == Prepared \cup {"sql_generation", "llm"}
Validated == Generated \cup {"sql_validation"}
Stages == Validated \cup {"sql_repair", "sql_execution", "result_formatting"}

Generation(error, sql, valid, attempted, performed, timed) ==
    [error |-> error, sql |-> sql, valid |-> valid, attempted |-> attempted,
     performed |-> performed, timed |-> timed]

\* What generate_and_validate may come to; the repair loop itself is RepairLoop's.
generate_and_validate(plan) ==
    LET sql == extract(plan.content)
        repaired == {Generation(None, t, is_valid(t), TRUE, is_valid(t), Validated \cup {"sql_repair"}) :
                       t \in {t \in Repairs \cup {sql} : ~ValidationRaises(Texts[t])}}
    IN  CASE plan.question = "empty" -> {Generation("EmptyQuestionError", None, None, FALSE, FALSE, {})}
          [] plan.question = "unanswered" -> {Generation("LLMError", None, None, FALSE, FALSE, Prepared)}
          [] plan.question = "asked" /\ Texts[sql] = Blank ->
               {Generation("SQLExtractionError", None, None, FALSE, FALSE, Prepared)}
          [] plan.question = "asked" /\ Texts[sql] # Blank /\ ValidationRaises(Texts[sql]) ->
               {Generation("TokenError", sql, None, FALSE, FALSE, Generated)}
          [] plan.question = "asked" /\ Texts[sql] # Blank /\ ~ValidationRaises(Texts[sql]) ->
               IF is_valid(sql) THEN {Generation(None, sql, TRUE, FALSE, FALSE, Validated)}
               ELSE repaired \cup {Generation("RepairError", sql, FALSE, TRUE, FALSE, Validated)}

\* AnswerGenerator.determine.
determine(statement, rows) ==
    IF rows = 0 THEN "empty_result"
    ELSE IF rows = 1 /\ Len(statement.outputs) = 1 THEN "scalar"
    ELSE IF statement.aggregates \/ statement.group # None THEN "aggregation"
    ELSE IF rows = 1 THEN "detail" ELSE "table"

----------------------------------------------------------------------------
(* Observability.                                                          *)

NoMetrics ==
    [runs |-> 0, successes |-> 0, failures |-> 0, attempted |-> 0, repaired |-> 0,
     executions |-> 0, rows |-> 0, generations |-> 0, invalid |-> 0, stages |-> [s \in Stages |-> 0]]

One(condition) == IF condition THEN 1 ELSE 0

\* routers.query._record_metrics; rows is None unless the execution succeeded.
record_metrics(m, g, rows, timed) ==
    [runs |-> m.runs + 1,
     successes |-> m.successes + One(rows # None), failures |-> m.failures + One(rows = None),
     attempted |-> m.attempted + One(g.attempted),
     repaired |-> m.repaired + One(g.attempted /\ g.performed),
     executions |-> m.executions + One(rows # None),
     rows |-> m.rows + IF rows = None THEN 0 ELSE rows,
     generations |-> m.generations + One(g.sql # None),
     invalid |-> m.invalid + One(g.valid = FALSE),
     stages |-> [s \in Stages |-> m.stages[s] + One(s \in timed)]]

overall_status(statuses) ==
    IF "unhealthy" \in statuses THEN "unhealthy"
    ELSE IF statuses = {"healthy"} THEN "healthy" ELSE "unknown"

\* DiagnosticsEngine.run: the worst finding; the cache's is always a warning.
worst(statuses) ==
    IF "error" \in statuses THEN "error" ELSE IF "warning" \in statuses THEN "warning" ELSE "pass"

\* Every other check of a started application passes.
Probed(q, reachable) ==
    IF q.plan.route = "health"
    THEN Answer(q, IF overall_status({IF reachable THEN "healthy" ELSE "unhealthy", "healthy"})
                        = "unhealthy" THEN 503 ELSE 200)
    ELSE Answer(q, IF worst({IF reachable THEN "pass" ELSE "error", "pass", "warning"})
                        = "error" THEN 503 ELSE 200)

----------------------------------------------------------------------------
(* The steps of a request.                                                 *)

Init ==
    /\ keys = [k \in Keys |-> [exists |-> k \in DOMAIN FirstKeys,
                               owner |-> IF k \in DOMAIN FirstKeys THEN FirstKeys[k] ELSE None,
                               revoked |-> FALSE, expired |-> FALSE, recent |-> FALSE]]
    /\ active = [u \in Users |-> TRUE]
    /\ pool = 0
    /\ reqs = [r \in Requests |-> NewRequest]
    /\ audit = {}
    /\ metrics = NoMetrics
    /\ hash_order \in Orders
    /\ outside = 0

At(r, pc) == reqs[r].pc = pc
RouteOf(r) == reqs[r].plan.route
Step(r, q) == reqs' = [reqs EXCEPT ![r] = q]

\* A step that needs no connection, and one that works on it and gives it back.
Local(r, q) == Step(r, q) /\ UNCHANGED pool
Finish(r, q) ==
    /\ reqs[r].conn
    /\ Step(r, [q EXCEPT !.conn = FALSE])
    /\ pool' = pool - 1

Tables == <<keys, active, audit>>

\* The pool hands out at most PoolSize connections; the others wait.
Acquire(r) ==
    /\ reqs[r].pc \in DbPoints /\ ~reqs[r].conn
    /\ pool < PoolSize
    /\ pool' = pool + 1
    /\ Step(r, [reqs[r] EXCEPT !.conn = TRUE])
    /\ UNCHANGED <<Tables, metrics, hash_order, outside>>

\* resolve_jwt_user, up to its read of the user.
resolve_jwt_user(q) ==
    IF q.plan.bearer = None THEN Answer(q, 401)
    ELSE IF q.plan.bearer = "bad" THEN Raise(q, "InvalidTokenError") ELSE Goto(q, "user_row")

\* A key that is refused is audited before its error is raised.
RefuseKey(q, error) == Record([q EXCEPT !.error = error], "API_KEY_AUTH_FAILURE")

\* An API key takes precedence, except where only a bearer token is looked at.
Authenticate(q) ==
    IF Routes[q.plan.route].credential = "none" THEN Goto(q, "handle")
    ELSE IF Routes[q.plan.route].credential = "any" /\ q.plan.key # None
    THEN IF q.plan.key = "malformed" THEN RefuseKey(q, "InvalidApiKeyError") ELSE Goto(q, "key_row")
    ELSE resolve_jwt_user(q)

Arrived(r, plan) ==
    [reqs[r] EXCEPT !.plan = plan, !.late = plan.key \in Keys /\ keys[plan.key].revoked]

\* A request arrives, and the limit of its address lets it in or not.
Arrive(r) ==
    /\ At(r, "idle")
    /\ \E plan \in Plans[r], blocked \in BOOLEAN :
         Local(r, IF blocked THEN Answer(Arrived(r, plan), 429) ELSE Authenticate(Arrived(r, plan)))
    /\ UNCHANGED <<Tables, metrics, hash_order, outside>>

\* require_role, then the limit of the user on the routes that have one.
Authorize(q) ==
    IF ROLE_RANK[Role[q.user]] < ROLE_RANK[Routes[q.plan.route].role]
    THEN Record(q, "AUTHORIZATION_DENIED")
    ELSE Goto(q, IF Routes[q.plan.route].limited THEN "limit" ELSE "handle")

\* authenticate_api_key: the key's row, its owner, the note of its use.
KeyRow(r) ==
    LET q == reqs[r]
        row == keys[q.plan.key]
    IN  /\ At(r, "key_row")
        /\ Finish(r, IF ~row.exists THEN RefuseKey(q, "InvalidApiKeyError")
                     ELSE IF row.revoked THEN RefuseKey(q, "ApiKeyRevokedError")
                     ELSE IF row.expired THEN RefuseKey(q, "ApiKeyExpiredError")
                     ELSE Goto([q EXCEPT !.row = row], "key_user"))
        /\ UNCHANGED <<Tables, metrics, hash_order, outside>>

KeyAccepted(q) == Record([q EXCEPT !.user = q.row.owner], "API_KEY_AUTH_SUCCESS")

\* The owner has a row: no code deletes users, and api_keys.user_id would cascade.
KeyUser(r) ==
    LET q == reqs[r]
    IN  /\ At(r, "key_user")
        /\ Finish(r, IF ~active[q.row.owner] THEN RefuseKey(q, "InactiveUserError")
                     ELSE IF q.row.recent THEN KeyAccepted(q) ELSE Goto(q, "touch"))
        /\ UNCHANGED <<Tables, metrics, hash_order, outside>>

\* Mutant: the whole row is written back as it was read.
touch_whole_row(r) ==
    [keys EXCEPT ![reqs[r].plan.key] = [reqs[r].row EXCEPT !.recent = TRUE]]
\* Only the changed column is written.
touch_api_key_last_used(r) == [keys EXCEPT ![reqs[r].plan.key].recent = TRUE]

Touch(r) ==
    /\ At(r, "touch")
    /\ keys' = touch_api_key_last_used(r)
    /\ Finish(r, KeyAccepted(reqs[r]))
    /\ UNCHANGED <<active, audit, metrics, hash_order, outside>>

\* AuthenticationService.get_current_user.
UserRow(r) ==
    LET q == reqs[r]
    IN  /\ At(r, "user_row")
        /\ Finish(r, IF q.plan.bearer = "gone" THEN Raise(q, "InvalidTokenError")
                     ELSE IF ~active[q.plan.bearer] THEN Raise(q, "InactiveUserError")
                     ELSE Authorize([q EXCEPT !.user = q.plan.bearer]))
        /\ UNCHANGED <<Tables, metrics, hash_order, outside>>

\* What comes after an event is recorded.
Resume(q) ==
    CASE q.event = "API_KEY_AUTH_FAILURE" -> Raise(q, q.error)
      [] q.event = "API_KEY_AUTH_SUCCESS" -> Authorize(q)
      [] q.event = "AUTHORIZATION_DENIED" -> Raise(q, "ForbiddenRoleError")
      [] q.event = "API_KEY_CREATED" -> Answer(q, 201)
      [] q.event = "API_KEY_REVOKED" -> Answer(q, 204)

\* AuditLogger.record.
Audit(r) ==
    /\ At(r, "audit")
    /\ audit' = audit \cup {<<r, reqs[r].event>>}
    /\ Finish(r, Resume(reqs[r]))
    /\ UNCHANGED <<keys, active, metrics, hash_order, outside>>

check_query_rate_limit(r) ==
    /\ At(r, "limit")
    /\ \E blocked \in BOOLEAN :
         Local(r, IF blocked THEN Answer(reqs[r], 429) ELSE Goto(reqs[r], "handle"))
    /\ UNCHANGED <<Tables, metrics, hash_order, outside>>

----------------------------------------------------------------------------
(* The handlers.                                                           *)

\* The engine never raises: whatever happened, the answer is a 200, and the
\* handler feeds it to the collector.
Respond(q, g, outcome, rows) ==
    Answer([q EXCEPT !.generation = g, !.outcome = outcome,
                     !.answer = IF rows = None THEN None
                                ELSE determine(Head(Texts[g.sql].statements), rows)], 200)

\* POST /query: up to the execution, or to the failure that ends the run.
ask_question(r) ==
    /\ At(r, "handle") /\ RouteOf(r) = "query"
    /\ \E g \in generate_and_validate(reqs[r].plan) :
         LET goes == g.error = None /\ check(Texts[g.sql], g.valid)
             rejected == g.error = None /\ ~check(Texts[g.sql], g.valid)
         IN  \/ /\ goes
                /\ Local(r, Goto([reqs[r] EXCEPT !.generation = g], "execute"))
                /\ UNCHANGED metrics
             \/ /\ ~goes
                /\ Local(r, Respond(reqs[r], g, IF rejected THEN "rejected" ELSE "error", None))
                /\ metrics' = record_metrics(metrics, g, None,
                                 g.timed \cup (IF rejected THEN {"sql_execution"} ELSE {}))
    /\ UNCHANGED <<Tables, hash_order, outside>>

\* POST /query/sql: a failure is answered with the status of its cause.
generate_sql(r) ==
    /\ At(r, "handle") /\ RouteOf(r) = "sql"
    /\ \E g \in generate_and_validate(reqs[r].plan) :
         Local(r, Answer([reqs[r] EXCEPT !.generation = g],
                         IF g.error = None THEN 200 ELSE status_for(g.error)))
    /\ UNCHANGED <<Tables, metrics, hash_order, outside>>

\* POST /query/validate.
validate_sql(r) ==
    LET q == reqs[r]
        text == q.plan.text
    IN  /\ At(r, "handle") /\ RouteOf(r) = "validate"
        /\ Local(r, IF ValidationRaises(Texts[text]) THEN Unhandled(q)
                    ELSE Answer([q EXCEPT !.outcome = IF is_valid(text) THEN "valid" ELSE "invalid"],
                                200))
        /\ UNCHANGED <<Tables, metrics, hash_order, outside>>

\* POST /query/repair: what the understanding and the repair raise is not wrapped.
repair_sql(r) ==
    /\ At(r, "handle") /\ RouteOf(r) = "repair"
    /\ \E raised \in IF reqs[r].plan.question = "empty" THEN {"EmptyQuestionError"}
                    ELSE {None, "LLMError"} :
         Local(r, IF raised = None THEN Answer(reqs[r], 200) ELSE Raise(reqs[r], raised))
    /\ UNCHANGED <<Tables, metrics, hash_order, outside>>

\* POST /query/execute: the client sends the text and what it was told of it.
execute_sql(r) ==
    LET q == reqs[r]
        text == Texts[q.plan.text]
    IN  /\ At(r, "handle") /\ RouteOf(r) = "execute"
        /\ Local(r, IF GuardRaises(text, q.plan.claim) THEN Unhandled(q)
                    ELSE IF check(text, q.plan.claim) THEN Goto(q, "execute")
                    ELSE Answer([q EXCEPT !.outcome = "rejected"], 200))
        /\ UNCHANGED <<Tables, metrics, hash_order, outside>>

\* POST /query/format, of an execution the client says succeeded or not.
format_result(r) ==
    /\ At(r, "handle") /\ RouteOf(r) = "format"
    /\ Local(r, IF reqs[r].plan.claim THEN Answer(reqs[r], 200)
                ELSE Raise(reqs[r], "FormattingError"))
    /\ UNCHANGED <<Tables, metrics, hash_order, outside>>

\* The handlers that read memory only, and those that start with the database.
Immediate(r) ==
    /\ At(r, "handle") /\ RouteOf(r) \in {"me", "metrics", "settings", "live"}
    /\ Local(r, Answer(reqs[r], 200))
    /\ UNCHANGED <<Tables, metrics, hash_order, outside>>

FirstOperation ==
    [health |-> "probe", diagnostics |-> "probe", ready |-> "select_one",
     list_api_keys |-> "list", create_api_key |-> "create", revoke_api_key |-> "find_key"]

Operate(r) ==
    /\ At(r, "handle") /\ RouteOf(r) \in DOMAIN FirstOperation
    /\ Local(r, Goto(reqs[r], FirstOperation[RouteOf(r)]))
    /\ UNCHANGED <<Tables, metrics, hash_order, outside>>

\* An execution that came to an end: answered as it is on /query/execute, on
\* /query it decides the run, which the collector is told.
Executed(q, outcome, rows) ==
    IF q.plan.route = "execute" THEN Answer([q EXCEPT !.outcome = outcome], 200)
    ELSE Respond(q, q.generation, outcome, rows)

Recorded(r, rows) ==
    LET g == reqs[r].generation
        timed == g.timed \cup {"sql_execution"} \cup (IF rows = None THEN {} ELSE {"result_formatting"})
    IN  IF RouteOf(r) = "execute" THEN metrics ELSE record_metrics(metrics, g, rows, timed)

\* The text that runs: the one sent, or the one generated.
Running(r) == IF RouteOf(r) = "execute" THEN reqs[r].plan.text ELSE reqs[r].generation.sql
Ran(r) == [reqs[r] EXCEPT !.ran = Running(r)]

\* The connection is read-only: PostgreSQL refuses a statement that writes.
ReadOnlyPermits(t) == \A i \in DOMAIN Texts[t].statements : ~Writes(Texts[t].statements[i])

\* Mutant: a statement that timed out keeps its connection.
SQLExecutorLeaks(r) ==
    /\ At(r, "execute") /\ reqs[r].conn
    /\ \/ \E n \in RowCounts : /\ Finish(r, Executed(Ran(r), "success", n))
                            /\ metrics' = Recorded(r, n)
       \/ /\ Local(r, Executed(Ran(r), "timeout", None))
          /\ metrics' = Recorded(r, None)
    /\ UNCHANGED <<Tables, hash_order, outside>>
\* SQLExecutor.execute on a read-only connection, bounded by the guard's timeout.
SQLExecutor(r) ==
    /\ At(r, "execute")
    /\ \/ /\ ReadOnlyPermits(Running(r))
          /\ \E n \in RowCounts : /\ Finish(r, Executed(Ran(r), "success", n))
                               /\ metrics' = Recorded(r, n)
       \/ /\ ~ReadOnlyPermits(Running(r))
          /\ Finish(r, Executed(Ran(r), "failed", None))
          /\ metrics' = Recorded(r, None)
       \/ /\ Finish(r, Executed(Ran(r), "timeout", None))
          /\ metrics' = Recorded(r, None)
    /\ UNCHANGED <<Tables, hash_order, outside>>

Probe(r) ==
    /\ At(r, "probe")
    /\ Finish(r, Probed(reqs[r], TRUE))
    /\ UNCHANGED <<Tables, metrics, hash_order, outside>>

\* GET /health/ready and GET /auth/api-keys.
Read(r) ==
    /\ reqs[r].pc \in {"select_one", "list"}
    /\ Finish(r, Answer(reqs[r], 200))
    /\ UNCHANGED <<Tables, metrics, hash_order, outside>>

----------------------------------------------------------------------------
(* API keys.                                                               *)

\* Every raw key is fresh.
Created(r, k) ==
    [keys EXCEPT ![k] = [exists |-> TRUE, owner |-> reqs[r].user,
                         revoked |-> FALSE, expired |-> FALSE, recent |-> FALSE]]

create_api_key(r) ==
    /\ At(r, "create")
    /\ \E k \in {k \in Keys : ~keys[k].exists} : keys' = Created(r, k)
    /\ Finish(r, Record(reqs[r], "API_KEY_CREATED"))
    /\ UNCHANGED <<active, audit, metrics, hash_order, outside>>

\* Mutant: the revocation is recorded and never made.
FindKeyAudits(r) ==
    LET q == reqs[r]
        row == keys[q.plan.target]
    IN  /\ At(r, "find_key")
        /\ Finish(r, IF ~row.exists \/ (row.owner # q.user /\ Role[q.user] # "admin")
                     THEN Raise(q, "ApiKeyNotFoundError") ELSE Record(q, "API_KEY_REVOKED"))
        /\ UNCHANGED <<Tables, metrics, hash_order, outside>>
\* The caller's own key, or any key for an administrator.
FindKey(r) ==
    LET q == reqs[r]
        row == keys[q.plan.target]
    IN  /\ At(r, "find_key")
        /\ Finish(r, IF ~row.exists \/ (row.owner # q.user /\ Role[q.user] # "admin")
                     THEN Raise(q, "ApiKeyNotFoundError") ELSE Goto(q, "revoke"))
        /\ UNCHANGED <<Tables, metrics, hash_order, outside>>

revoke_api_key(r) ==
    /\ At(r, "revoke")
    /\ keys' = [keys EXCEPT ![reqs[r].plan.target].revoked = TRUE]
    /\ Finish(r, Record(reqs[r], "API_KEY_REVOKED"))
    /\ UNCHANGED <<active, audit, metrics, hash_order, outside>>

----------------------------------------------------------------------------
(* Failures of the database: no connection within pool_timeout, none at    *)
(* all, a statement or a commit that fails.                                *)

\* The connection, if there is one, goes back in every case.
Fail(r, q) ==
    /\ reqs[r].pc \in DbPoints
    /\ Step(r, [q EXCEPT !.conn = FALSE])
    /\ pool' = IF reqs[r].conn THEN pool - 1 ELSE pool

\* A write that failed left nothing, or committed and only its answer was lost.
Written(r) ==
    {keys} \cup
    (IF ~reqs[r].conn THEN {}
     ELSE IF At(r, "touch") THEN {touch_api_key_last_used(r)}
     ELSE IF At(r, "revoke") THEN {[keys EXCEPT ![reqs[r].plan.target].revoked = TRUE]}
     ELSE IF At(r, "create") THEN {Created(r, k) : k \in {k \in Keys : ~keys[k].exists}}
     ELSE {})

\* Not caught anywhere.
OperationFails(r) ==
    /\ ~(At(r, "audit") \/ At(r, "execute") \/ At(r, "probe"))
    /\ keys' \in Written(r)
    /\ Fail(r, Unhandled([reqs[r] EXCEPT !.broke = TRUE]))
    /\ UNCHANGED <<active, audit, metrics, hash_order, outside>>

\* AuditLogger.record swallows it: the request goes on.
AuditFails(r) ==
    /\ At(r, "audit")
    /\ audit' \in {audit} \cup (IF reqs[r].conn THEN {audit \cup {<<r, reqs[r].event>>}} ELSE {})
    /\ Fail(r, Resume([reqs[r] EXCEPT !.lost = TRUE]))
    /\ UNCHANGED <<keys, active, metrics, hash_order, outside>>

\* No connection, whatever the reason, or a SQLAlchemyError of the statement or
\* its rows: reported as a failed execution.
ExecutionFails(r) ==
    /\ At(r, "execute")
    /\ Fail(r, Executed(IF reqs[r].conn THEN Ran(r) ELSE reqs[r], "failed", None))
    /\ metrics' = Recorded(r, None)
    /\ UNCHANGED <<Tables, hash_order, outside>>

\* Any other error on the connection or of its release goes through the engine:
\* POST /query/execute has no answer for it, ask makes a failed response of it.
ExecutionRaises(r) ==
    LET g == reqs[r].generation
    IN  /\ At(r, "execute") /\ reqs[r].conn
        /\ \/ /\ RouteOf(r) = "execute"
              /\ Fail(r, Unhandled([Ran(r) EXCEPT !.broke = TRUE]))
              /\ UNCHANGED metrics
           \/ /\ RouteOf(r) = "query"
              /\ Fail(r, Respond(Ran(r), g, "error", None))
              /\ metrics' = record_metrics(metrics, g, None, g.timed)
        /\ UNCHANGED <<Tables, hash_order, outside>>

ProbeFails(r) ==
    /\ At(r, "probe")
    /\ Fail(r, Probed(reqs[r], FALSE))
    /\ UNCHANGED <<Tables, metrics, hash_order, outside>>

----------------------------------------------------------------------------
(* What happens outside, and the specification.                            *)

Expire(k) == keys[k].exists /\ ~keys[k].expired /\ keys' = [keys EXCEPT ![k].expired = TRUE]
Age(k) == keys[k].recent /\ keys' = [keys EXCEPT ![k].recent = FALSE]
Deactivate(u) == active[u] /\ active' = [active EXCEPT ![u] = FALSE]

Outside ==
    /\ outside < MaxOutside
    /\ outside' = outside + 1
    /\ \/ \E k \in Keys : (Expire(k) \/ Age(k)) /\ UNCHANGED active
       \/ \E u \in Users : Deactivate(u) /\ UNCHANGED keys
    /\ UNCHANGED <<pool, reqs, audit, metrics, hash_order>>

Proceed(r) ==
    \/ Acquire(r) \/ KeyRow(r) \/ KeyUser(r) \/ Touch(r) \/ UserRow(r) \/ Audit(r)
    \/ check_query_rate_limit(r)
    \/ ask_question(r) \/ generate_sql(r) \/ validate_sql(r) \/ repair_sql(r)
    \/ execute_sql(r) \/ format_result(r) \/ Immediate(r) \/ Operate(r)
    \/ SQLExecutor(r) \/ Probe(r) \/ Read(r)
    \/ create_api_key(r) \/ FindKey(r) \/ revoke_api_key(r)

DbFails(r) ==
    \/ OperationFails(r) \/ AuditFails(r) \/ ExecutionFails(r) \/ ExecutionRaises(r)
    \/ ProbeFails(r)

Next == Outside \/ \E r \in Requests : Arrive(r) \/ Proceed(r) \/ DbFails(r)

\* The loop runs what is ready and the database answers; no failure is needed.
Spec == Init /\ [][Next]_vars /\ \A r \in Requests : WF_vars(Proceed(r))

----------------------------------------------------------------------------
(* Properties.                                                             *)

Answered(r) == At(r, "done")
Logged(r, event) == <<r, event>> \in audit

\* Whatever a client or the model wrote, what reaches the database is a single
\* SELECT, even where the validators judged its first statement only, where a
\* repair replaced it after it was validated, or where the client claims its
\* validity.  Of all that writes only an INTO gets that far, which the guard's
\* list of node types lacks although it "walks the entire AST for any write
\* node", and nothing that writes succeeds (sql_execution.validator, sql_execution.connection).
OnlyReadsExecuted ==
    \A r \in Requests : reqs[r].ran # None =>
        LET statements == Texts[reqs[r].ran].statements
        IN  /\ Len(statements) = 1
            /\ \A i \in DOMAIN statements :
                 /\ statements[i].kind = "select"
                 /\ Writes(statements[i]) => "Into" \in statements[i].nodes
                 /\ Writes(statements[i]) => reqs[r].outcome # "success"
            /\ RouteOf(r) = "query" => is_valid(reqs[r].ran)

\* A revocation that was answered holds for good, although requests that had
\* checked the key before are still noting its use, and no request that comes
\* after it is let in (auth.service.authenticate_api_key).
RevokedKeyRefused ==
    \A r \in Requests :
        /\ Answered(r) /\ reqs[r].status = 204 => keys[reqs[r].plan.target].revoked
        /\ reqs[r].late /\ Routes[RouteOf(r)].credential = "any" => reqs[r].user = None

\* The audit log tells what happened, up to writes that failed: a revocation is
\* logged after it holds and never forgotten, a key's acceptance and refusal are
\* told apart, and a denial is logged exactly where a role was the reason
\* (security.audit, api.exception_handlers).
AuditTells ==
    /\ \A r \in Requests : Logged(r, "API_KEY_REVOKED") => keys[reqs[r].plan.target].revoked
    /\ \A k \in Keys : keys[k].revoked =>
         \E r \in Requests : /\ reqs[r].plan # None /\ reqs[r].plan.target = k
                            /\ \/ Logged(r, "API_KEY_REVOKED") \/ reqs[r].lost \/ reqs[r].broke
                               \/ reqs[r].event = "API_KEY_REVOKED" /\ At(r, "audit")
    /\ \A r \in Requests : Answered(r) /\ ~reqs[r].lost =>
         /\ Logged(r, "API_KEY_AUTH_FAILURE") =>
              reqs[r].user = None /\ reqs[r].status \in {401, 403}
         /\ Logged(r, "API_KEY_AUTH_SUCCESS") <=>
              /\ reqs[r].user # None /\ reqs[r].plan.key # None
              /\ Routes[RouteOf(r)].credential = "any"
         /\ Logged(r, "AUTHORIZATION_DENIED") <=> reqs[r].user # None /\ reqs[r].status = 403

\* A 500 has one of these reasons: the database failed while the caller was
\* identified, a key handled or a statement run, sqlglot cannot read the text
\* sent, or the model failed.  A question that was let in always gets its 200, and
\* every answer but that of the last resort carries the middlewares' headers
\* (api.exception_handlers).  The documents promise more: validate "never
\* raises" (sql_validation.engine), execute "always returns a SQLExecutionResult"
\* (sql_execution.engine, routers.execution) and the fallback's answer carries the
\* headers too (api.app).
ErrorsExplained ==
    \A r \in Requests : Answered(r) =>
        /\ reqs[r].status = 500 =>
             \/ reqs[r].broke
             \/ RouteOf(r) = "validate" /\ Texts[reqs[r].plan.text].reads = "token_error"
             \/ /\ RouteOf(r) = "execute" /\ reqs[r].plan.claim
                /\ Texts[reqs[r].plan.text].reads \in {"parse_error", "token_error"}
             \/ /\ RouteOf(r) = "sql"
                /\ reqs[r].generation.error \in Failures \ {"EmptyQuestionError"}
             \/ RouteOf(r) = "repair" /\ reqs[r].plan.question # "empty"
        /\ RouteOf(r) = "query" /\ reqs[r].generation # None => reqs[r].status = 200
        /\ ~reqs[r].headers => reqs[r].status = 500 /\ reqs[r].generation = None

\* Every request is answered, whatever the others do, with a single connection
\* for all of them: nobody waits for a connection while holding one, and every
\* path gives its connection back (sql_execution.connection, db.session).
EveryRequestAnswered == \A r \in Requests : ~At(r, "idle") ~> Answered(r)
=============================================================================
