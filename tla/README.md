# QueryMind: TLA+ models, checks and proofs

QueryMind answers business questions: a question is analysed, linked to a
database schema, compiled into a prompt, turned into SQL by an LLM, validated,
repaired if need be, executed read-only and formatted. Around this pipeline
are a FastAPI service with accounts and rate limits, live streaming of progress
over SSE and WebSocket, and a React client. This directory models the parts of
it where order, concurrency, failure and limits decide about correctness, from
the database schema and its seed data to the browser's session.

Paths below are relative to `src/src/querymind/` unless they start with
`frontend/`, `alembic/` or `scripts/`, which are below `src/`.

## Inventory

| Component | State it keeps | Operations | Hard behaviours | Correct when |
|---|---|---|---|---|
| Orchestrator (`orchestrator/`) | current stage, timings, artifacts of one run | `ask`, `ask_for_sql`, `repair` | any of eleven stage calls may raise; listener and caller are told separately; cancellation in the database call | SQL runs only validated; listener and caller hear the same; a failure carries what was done |
| Event bus (`streaming/event_bus.py`) | a set of queues per correlation id | subscribe, unsubscribe, publish | topics shared by two streams, unbounded queues | fan-out by topic, in order |
| Streaming (`streaming/subscriber.py`, `sse.py`, `websocket.py`) | a generator and two tasks per stream | open, yield, heartbeat, clean up | client leaves at any await, also during the clean-up; end of the run races the last event | one final event, nothing left behind |
| SQL repair (`sql_repair/`) | current SQL and verdict, history | plan, ask, extract, validate, decide | LLM and validator may answer anything; budget at its limit | ends, in budget, with a true status |
| LLM adapter (`llm/`) | delays of one call | call with retries | transient and lasting failures | bounded, growing delays |
| Accounts (`auth/`) | users, refresh tokens, API keys | register, login, refresh, logout, key management | every repository call is its own transaction; requests overlap and die in between | tokens rotate, spent tokens and inactive accounts get nothing, names unique |
| Rate limiting (`security/`, `api/dependencies.py`) | a token bucket per key | check | wall clock that jumps, rounding | limit over every window, honest Retry-After |
| SQL execution (`sql_execution/`, `db/`) | connection pool | guard, acquire, execute, format | pool exhausted, timeout racing the answer, texts of several statements | only single reads reach the database, every outcome is a result, connections return |
| SQL validation (`sql_validation/`) | none | a chain of ten validators | a verdict that depends on hash order, texts sqlglot cannot read | what is called valid is a read of known tables |
| Service layer (`api/`, `security/`) | container on `app.state`, audit log | routers, dependencies, middleware, error mapping, audit | database failing at any point of a request, keys revoked meanwhile, best-effort audit | each error its status, the log tells the truth, every request answered |
| Observability (`observability/`) | counters of a collector | record, snapshot, health, diagnostics | runs that fail half way | counts and worst status |
| NLU, schema linker, retrieval, prompt compiler | three caches shared by all requests | parse, link, retrieve, compile | overlapping phrases, ties, budgets, cache keys | the prompt depends on the question alone, joins connect, the budget trims in order |
| SQL generation, result formatter | none | extract, classify | several code blocks, no rows | the SQL meant is the SQL run |
| Registries (`metadata/`, `business_knowledge/`, `query_library/`) | data loaded once | load, look up | two registries of one schema | read-only afterwards |
| Models and migrations (`models/`, `alembic/`) | the database's schema and its stamp | upgrade, downgrade | dying at any operation, rows already there, drift | stamp, revisions and models agree |
| Seeds (`seeds/`, `scripts/seed_database.py`) | rows of fourteen tables | generate, persist, validate, report | random draws against constraints, killed between commits, run twice | a fresh run is accepted, amounts and dates are consistent |
| Web client (`frontend/src/`) | tokens, current question, events | login, restore, refresh on 401, stream | late answers, two refreshes at once | a session is not lost or revived by a race |

Interactions: routers call `QueryMindEngine`; the engine calls the stage
engines in order and notifies a `StageEventPublisher`; in a stream that is an
emitter that publishes on the `EventBus`, which the stream's generator reads.
Authentication and rate limiting run as dependencies before a router. All of it
shares one asyncio loop: between two awaits that really suspend, a task runs
alone. The LLM call is synchronous and blocks the loop. Every repository call is
a transaction of its own, on a connection of one shared pool.

## Modules

| Module | Models | Notes |
|---|---|---|
| `QueryContract` | what the orchestrator promises | abstract specification: vet, run, answer, abandon |
| `Pipeline` | `PipelineRunner.run`, `.generate_sql`, `.repair_sql` under `QueryMindEngine` | one action per return, raise or notification point; refines `QueryContract` |
| `EventBus` | `EventBus` | operators used by `Streaming` |
| `Streaming`, `MCStreaming` | `stream_pipeline_events`, `_emit_heartbeats` and their consumers | one action per piece of a task between two suspensions |
| `RepairLoop` | `SQLRepairEngine.repair`, `RepairPlanner`, `RepairStrategy`, `RetryPolicy` | one action per call's outcome |
| `AuthTokens`, `MCAuthTokens` | register, login, refresh, logout | one action per repository transaction |
| `RateLimiter`, `MCRateLimiter` | `InMemoryTokenBucketRateLimiter.check`, Retry-After | whole-number units instead of floats |
| `ClientSession` | `frontend/src/store/authStore.ts` and the refresh on a 401 of `frontend/src/services/api.ts` | one action per callback of the page, one per request the server handles |
| `SqlValidation` | the ten validators and `ExecutionGuard.check` | operators over statements given by the facts the validators look at |
| `Service`, `MCService` | routes, authentication by token and API key, roles, handlers, execution, audit, error mapping, metrics, health | extends `SqlValidation`; one action per piece of a request between two uses of the database |
| `Schema` | the SQLAlchemy models | tables with their keys, indexes and checks; columns only where one of these or a foreign key names them, without types, nullability or the condition of a partial index |
| `Migrations` | the seven revisions and `alembic/env.py` | extends `Schema`; one action per DDL operation |
| `Metadata` | `MetadataExtractor`, `RelationshipGraph` | over `Schema`, so the linker works on the real schema |
| `Nlu`, `SchemaLinker`, `Retrieval`, `PromptCompiler` | the stages before the LLM | operators; a question is a sequence of words |
| `Understanding`, `MCUnderstanding` | those stages as the orchestrator runs them, with the shared caches | composes the four; one action per stage |
| `Seeds`, `MCSeeds` | the fourteen generators, `persist`, `DatasetValidator`, `GenerationReport`, the script | one action per committed stage |
| `PipelineProofs`, `RepairLoopProofs`, `StreamingProofs`, `UnderstandingProofs`, `ServiceProofs`, `SeedsProofs`, `ClientSessionProofs` | - | theorems about the module each is named after, see below |
| `AccessProofs` | - | theorems about `AuthTokens` and `RateLimiter`, what stands before a handler |

How state and actions correspond to the code:

* **Pipeline.** `pc` is the control point inside a stage (`begin`: the
  `stage_started` notification is next; `call`: in the stage's call). `art`
  holds the local variables `generated_sql`, `validation_result`,
  `repair_result`, `execution_result` as what the control flow tells apart.
  `StageRaises` is both `except Exception` blocks. `Cancel` is possible in the
  database call only, the single place where a run really suspends.
  `AnswerNotSerializable` is `PipelineCompletedEvent.create` raising inside the
  `try`.
* **Streaming.** A run before its database call, and after it, is one step,
  because nothing in it suspends. The loop's FIFO order is used once: the two
  tasks created by `Open` run before the consumer is woken again. `Cut` is the
  cancellation of the consuming task; `detached` is the clean-up by the
  async-generator finalizer, `aborted` the clean-up hit by another
  cancellation. `heard` and `sent` are histories for the properties.
* **RepairLoop.** A SQL text is the number of the attempt that made it. A
  validation result is its sets of error and warning codes. The reasons of
  `_ISSUE_CODE_TO_REASON` are named by their priorities.
* **AuthTokens.** `req[r].pc` names the repository call that is next. `Die`
  is a request that fails there. `parent`, `held`, `spent` and `shut` are
  histories. Deactivation and expiry happen outside the service.
* **RateLimiter.** A token is `Period` units and a tick brings `Capacity`
  units, so `capacity / period` per second needs no fractions. Floating-point
  rounding is not modelled.

* **ClientSession.** `auth` is the zustand store, `call` the page's asynchronous
  functions: `restoreSession`, `login`, `logout`, `performRefresh`
  (`refresher`, under way as long as `refreshPromise` is set) and requests. A
  token pair is one number. The server is atomic per request (`AuthTokens` has
  its inner steps), refresh tokens do not expire by time, and there is one tab.
  `spent` is a history.
* **Service.** `reqs[r].pc` names the database operation or the handler a
  request is at, `conn` whether it holds a connection, `event` the row an
  audit write is for. `Goto`, `Answer`, `Raise`, `Unhandled` and `Record` are the ways a
  step ends: go on, a response, a mapped exception, the handler of last resort
  (outside the middlewares), an audit row first. `OperationFails`, `AuditFails`,
  `ExecutionFails`, `ExecutionRaises` and `ProbeFails` are one failing database with
  five different handlers (`SQLExecutor` translates SQLAlchemy's errors only; a
  driver's own, or one of the release, is `ExecutionRaises`); a write that failed
  may have committed. The bearer `"gone"` is a valid token whose user is not in the
  table. The owner of a key always is: nothing in the code deletes users, and
  `api_keys.user_id` cascades. `ReadOnlyPermits` is the read-only connection: a text
  that writes fails there. `hash_order` is
  the iteration order of a set of strings in this process. `late`, `lost`,
  `broke` and `ran` are histories. General and per-user limits are a free choice
  here (`RateLimiter` has them).
* **SqlValidation.** A text is a sequence of statements, or one of the ways
  sqlglot fails to read it. A statement is a record of what the validators look
  at: tables with aliases, columns, joins, functions, outputs, grouping,
  and the types of its nodes. The guard looks for the nine of `WRITE_NODE_TYPES`;
  what PostgreSQL takes for a write (`Writes`, external) is a definition of its own,
  so that the guard can miss one.
* **Migrations.** `schema` holds the committed tables, `version` the stamp and
  `txn` the running command with its own view of both: a command is one
  transaction, so `Crash` drops it. `refs` is what rows of `orders` say about
  promotions.
* **Seeds.** Every random draw is a choice from the set the generator draws
  from; money is in cents, time in days and minutes. `mem` holds the objects of
  this process, `db` the rows committed. The database's constraints (external)
  accept or refuse a whole batch. `customers.email` is left out: it is unique
  because `faker.unique` draws it, not because of anything in this code.
* **Understanding.** A score is an integer multiple of the code's step, so that
  ties are ties. Sections of a prompt are their lines and lengths. Each request
  is at one stage; the caches are read and written in the stage that does so.

Definitions marked *Mutant* in the modules are wrong versions of the definition
after them; each property of a passing run is violated when TLC checks the
model with one of them in place (see `mutants` in `PROJECT.json`).

## Runs

| Run | Bounds | Shows |
|---|---|---|
| `pipeline` | none needed: all three entries, with and without a listener, all outcomes | events nest, the n-th completion is of the n-th timing, the last event agrees with the answer; responses are honest; `QueryContract` is implemented, liveness included |
| `streaming` | 2 streams, own or shared ids, 1 heartbeat, 2 cancellations per stream (1.3 million states) | FIFO delivery, clean closing, no cross-talk with separate ids; one final event, the last thing sent, for whoever stayed, unless the run ended silently; every opened stream closes |
| `repair` | 3 codes (mapped early, mapped late, unrepairable), 3 attempts, 3 retries, cap 3 | statuses, chaining, budgets, retry discipline, termination |
| `understanding` | 2 concurrent requests, 2 questions in all from a set built of overlapping phrases, ambiguous names and every kind of clause; the real schema; a budget (354 tokens) at which some prompts fit and are cached, some are cut and one loses its examples and ends with a marker unpaid | no prompt depends on what was asked before; joins connect the tables; trimming order |
| `prompt_forgets` | the same, budget 420 | *violated*: questions that differ in filter, order, limit, time or intent have one prompt |
| `service` | 2 concurrent requests, one free to do anything, one that interferes; 3 users, 3 keys, 10 texts, 1 connection, 1 event outside (450 thousand states) | only single SELECTs run and nothing that writes succeeds, revocations hold, the audit log is true, every 500 has a reason, every request is answered |
| `auth` | 2 users that share a name, 3 tokens, 4 requests; symmetry | rotation order, refusals, unique sign-up |
| `auth_rotation` | 3 requests, login and refresh | *violated*: two overlapping refreshes use one token twice |
| `rate_limiter` | clock 0..5, 4 admitted requests per key, capacities 3 per 4 and 2 per 5 ticks | window bound, honest Retry-After |
| `migrations` | none: any number of commands, each to any revision, crashes, rows in between (2784 states) | stamp and schema agree, head equals the models, only promotion ids older than their table refuse an upgrade |
| `seeds` | 2 runs, 2 configurations, 2 products, 1 order of up to 2 lines, 2 promotions (1.3 million states) | no draw is refused on a fresh database, validator and generators agree, dates and amounts are consistent, a second run adds nothing |
| `client` | 2 requests, 2 token pairs, 1 reload | no page presents a refresh token twice; client and server stay in step, lost answers included; requests settle |

Why the bounds are enough to meet the interesting cases: two streams are what a
shared topic needs and the third would only repeat the second; one cancellation
reaches every await and a second one the clean-up that the first began; three
attempts are the first at which
"no progress" and the limit compete; with a cap of 3 and three retries the delay
grows, reaches the cap and stays there; three tokens and four requests allow a
login, two overlapping refreshes and a late one; the two rates have refills that
do not divide a token, so rounding shows; two requests and a pair that rotates
once are what two refreshes of one token need, and the reload brings a
`restoreSession` in between. One connection is the hardest pool: whoever waited
for a second one while holding the first would wait for ever. Two requests are
what a revocation and a use of one key need. The seed configuration has the smallest sizes at which every
generator draws, a promotion touches an order and a line is returned on the last
day of its window and a day late; `OneCatalogue` fixes the catalogue before the
sales stages, which use its rows as keys only. Two questions, one
after or beside the other, are what a stale or colliding cache entry needs.

Fairness. `Pipeline`: weak fairness of the run's own steps, not of `Cancel`;
stage calls are bounded (finite retries, timeouts). `Streaming`: weak fairness
of the run, of the heartbeat's end and of the consumer's steps, because the
loop runs every ready task and the transport keeps asking; nothing is assumed
of timers or clients. `RepairLoop`: weak fairness of the one synchronous call.
`ClientSession`: every request is answered or fails and callbacks run; nothing
is assumed of the user, of expiry or of losses. `Service`: weak fairness of
each request's next step, because the loop runs what is ready and the database
answers or the driver's timeouts fire; no failure is needed for progress.
`CHECK_DEADLOCK FALSE` is used because requests, runs and streams end.

## Proofs

All hold for every value of the constants under the modules' named assumptions,
which state types and what the code guarantees of its inputs:
`EntriesAssumption`, `AuthAssumption`, `RateAssumption`, `RepairAssumption`,
`StreamingAssumption`, `ClientAssumption` (the names of the page's own calls are
not names of requests), `BudgetAssumption` (`PromptBudgetManager` refuses a
budget of zero), `LibraryAssumption` (ids are unique), `ColumnsAssumption` (the
registry reads columns off mapped tables), `QuestionsAssumption` (questions are
sequences of words), `DrawsAssumption` and `ConfigsAssumption` (the ranges the
seed generators draw from and the sizes `SeedConfig` allows), and for the service
`PoolAssumption`, `NoneAssumption`, `KeysAssumption`, `TextsAssumption` and
`PlansAssumption` (what the request models let through). TLC evaluates each of
them on the instances of the runs.

| Theorem | States |
|---|---|
| `PipelineProofs`: `TypeCorrect`, `Refinement` | types; `Spec => Contract!QSafety` |
| `StagesAreNested`, `TimingsAreToldOf`, `TerminalIsTrue`, `ResponsesAreHonest` | `StagesNest`, `EventsMatchTimings`, `TerminalAgrees`, `ResponseHonest` |
| `RepairLoopProofs`: `RepairTyped`, `StatusIsHonest`, `AttemptsChain`, `CallsAreBounded`, `RetriesAreDisciplined` | types, `StatusHonest`, `HistoryChains`, `NoWastedCalls`, `RetryDiscipline` |
| `StreamingProofs`: `StreamsCloseCleanly`, `DeliveryIsFifo`, `FinalEventIsLast`, `StreamsStayApart` | `CleanClose`, `Fifo`, `FinalEvent`, `OwnRunOnly` |
| `ContractGivesFinalEvent` | without the exception for silent runs (`FinalEventAlways`), assuming `"silent" \notin AskEnds`: `ask` publishes a terminal event or raises, as its docstring says |
| `UnderstandingProofs`: `CachesNeverShow`, `BudgetTrimsInOrder`, `PromptsAreTrimmedInOrder`, `JoinsAlwaysConnect` | `HistoryIndependent`; `TrimmedInOrder` of any sections; `TrimsInOrder`, `JoinsConnect` |
| `ServiceProofs`: `OnlyReads`, `RevokedKeysRefused`, `AuditIsTrue`, `ErrorsAreExplained`, `ConnectionsAreCounted` | `OnlyReadsExecuted`, `RevokedKeyRefused`, `AuditTells`, `ErrorsExplained`, and the pool's bound |
| `AccessProofs`: `RotationIsSafe`, `SpentTokensRefused`, `InactiveAccountsRefused`, `RegistrationUnique` | `RotationSafe`, `SpentIsRefused`, `InactiveGetsNothing`, `SignUpUnique` |
| `RateIsBounded`, `RetryAfterIsEnough`, `BucketsTyped` | `WindowBound`, `RetryAfterHonest`, types |
| `ClientSessionProofs`: `ClientInLockstep`, `TokensPresentedOnce` | `Lockstep`, `OncePerToken` |
| `SeedsProofs`: `Reachable`, `FreshRunAccepted`, `ValidatorAndGenerators`, `Fulfilment`, `Books`, `Reseeding` | the inductive invariant; `FreshRunNeverRefused`, `ValidatorAgrees`, `FulfilmentConsistent`, `BooksBalance`, and the action property `ReseedAddsNothing` |

The arguments, and why the properties alone are not inductive:

* **Pipeline.** Types do not give the step simulation: `Where` adds what each
  control point implies (execution has not happened before its stage, only
  `ask` reaches it, a response exists exactly at `done`, a statement ran only if
  it was valid). Each action is then a contract step or invisible. For the
  trace, `Traced` says that the events so far leave open the current stage or
  none, that only stages up to it were begun (a rank, so none begins twice) and
  that the completions are as many as the timings; `Told` adds that no terminal
  event comes before the answer; `Honest` ties artifacts to the stages already timed, so that what a
  handler puts into a FAILED response is what was done.
* **RepairLoop.** The invariant adds that the loop goes on only while
  `should_continue` says so (`Progress`), that every attempt but the last left
  other, repairable errors (`Worthwhile`), and what the attempts and the present
  call's retries may have cost at each point (`Spent`, `Sleeps`). "Most urgent"
  is a minimum over the issues found, and the doubling delays a recursive
  function; the inductions over numbers these need are done with sets of
  naturals (`SetInduction`, least elements).
* **Streaming.** Per stream, `Phase` says which tasks and subscription go with
  each state of the generator, `OnBus` that its queue is on the bus under its
  own id only, `Order` that what was put is what was sent followed by what is
  queued, `Ending` how a stream nobody cut came to its end, `Own` whose events
  it holds and when its run has ended. For `FinalEventAlways`, `Told` adds that a run
  that returned has published its terminal event to every queue under its id, so
  that a queue found empty after the run's end means that the run raised.
  Other streams disturb it through the bus only.
* **Understanding.** Every entry of a cache is what a fresh computation gives
  for its key, and every
  request is where a fresh process would have brought its question; a hit is
  then a computation. What a request holds is therefore a function of its
  question, and the rest is about that function. The budget's loop is four
  rounds; a lemma says what one round frees and another what is still to be paid
  after it. For the joins: a recursive function of the model exists and stays in
  its set (`Recursion`, an induction on sets of naturals); a round of the
  breadth-first search keeps every path `Grounded` (each edge starts at a table
  reached) and adds a table as long as one is missing, because the foreign keys
  connect the fourteen tables (`SchemaConnected`), so after as many rounds as
  there are tables all are reached; appending grounded paths and leaving out
  repeated edges (`Thins`) keep it so; and every winner of a lookup names a table
  of the registry, so that the tables joined are those the answer needs. The same
  lemmas on lists give every section of a prompt its length.
* **Service.** A request is judged by its own record, the keys and the log:
  `Good` says of each point a request can wait at what it has established (who
  it is, what it read of the key, which text passed which check, which event is
  still to be logged). Other requests matter only through the keys, for which
  `KeysGood` says that a revoked key exists and an existing one has its owner,
  and `RevocationsShow` that some request accounts for every revocation: it is
  logged, about to be, or lost to a failure. `PoolCounts` needs the types only. What the guard let through is in
  `Good`; that no write succeeds is `SuccessesRead`, a second invariant: an outcome
  is set to `success` by `SQLExecutor` alone, on a text the read-only connection
  permits, and no later step changes an answered request.
* **AuthTokens.** The invariant says what a request has established at each of
  its points: one that is about to store a token in exchange has a revoked one,
  for the same user; one that was late at arrival can only be at its first
  reads.
* **RateLimiter.** The window bound is not inductive: the invariant bounds, for
  every request in the log, what was admitted since plus the tokens left by a
  burst plus the refill up to `last_refill`; the products are handled by
  lemmas.
* **Seeds.** `Shape` says which tables can have rows at which stage and that a run
  that got past its first stage works on rows of its own only. `Made` has one fact
  per table: what its generator promises the later generators and the validator
  (keys that exist, dates in order, an order's amounts against its lines).
  `Outcome` says what the exit tells. A stage's rows are accepted because of
  the facts of the tables they refer to, and make the next fact. Refunds against
  subtotals is arithmetic with two roundings, done per line and summed by lemmas on
  sums over finite sets.
* **ClientSession.** `Lockstep` and `OncePerToken` need each other and the
  stages of every call of the page: which token a refresh under way presents,
  that a token of the store once presented is being exchanged, that a pair on its
  way to the page is live and known to nobody else, that nobody is signed in
  while `restoreSession` exchanges the stored token, and that a token `logout`
  revokes has left the store.

What proof attempts changed. `Lockstep` was stated for runs without lost
answers; the proof does not need that, and it now covers all. `TrimsInOrder` used to
claim that a prompt ends at most one marker over its budget: the proof failed,
and TLC confirmed it at other budgets (see `prompt_compiler/budget.py:64` below).
In `Seeds`, the minute a parcel arrives was modelled as the end of its day, which
allowed a delivery before the shipment for draws no run had; `customer_addresses`
was missing from the tables that draws can leave empty; percentages are drawn with
two decimals, not whole, which the bound on refunds has to survive; and years and
the start dates of promotions, fixed before, are parameters now. The linker's
search, `Distinct` and the ranking were written with operators the prover cannot
unfold (folds, `SetToSeq`, `SortSeq`, `@@`); they are recursive functions and
quantified choices now, with the same results on the run's instance.

Only model-checked: all liveness (`ImplementsContract`'s `<>`-part,
`EventuallyClosed`, `Terminates`, `RequestsSettle`, `EveryRequestAnswered`), because
fairness and `ENABLED` are outside what the prover does; and the three invariants
of `Migrations`. That module has no constants and no bound: a fixed list of
operations over a fixed schema. TLC's run visits every state it has, so a theorem
would say no more than the run does. Which phrases of a question match, and how
scores rank, is not proved against a reference: the theorems hold whatever they are.

## Where code and documents disagree

Two runs show one each; `findings` in `PROJECT.json` quotes the documents:

* `auth_rotation`: two overlapping refreshes rotate one token.
* `prompt_forgets`: the prompt does not hold the question.

The models reach the following ones too. Each documented promise, stated as an
invariant, is refuted by TLC on the instance of the run named; the property named
states what does hold, with the exception spelled out.

* `streaming`: `streaming/subscriber.py:161-169` emits nothing when the run ended
  without an exception; lines 121-127 say a `failed` event is synthesized "if it
  finished without ever publishing one" and that a final event "must hold
  regardless". With the present `QueryMindEngine.ask` no run ends so; the branch is
  there for one that does. `FinalEvent` exempts exactly these runs.
* `streaming`: a cancellation during the clean-up's `gather`
  (`streaming/subscriber.py:178`) skips the `unsubscribe`; lines 119-120 say nothing
  is ever leaked. What `CleanClose` keeps of it: no task is left running.
* `understanding`: `prompt_compiler/budget.py:64` says sections are trimmed "as
  needed to fit `max_tokens`". The truncation marker is not paid for (lines 118-122):
  with one token too many each of up to four sections is cut by a token and given a
  marker, nothing counts as freed, and the prompt ends up to 33 tokens over its
  budget and longer than it was. For the same reason a section is cut while one
  before it in the declared order (lines 10-13) is still there, shortened.
  `TrimsInOrder` is what remains true, and is proved: nothing that fits is touched,
  no required section is, a section is touched only when every one before it is gone
  or cut and loses more than a marker's length only when all before it are gone,
  and the sections fit without their markers.
* `service`: `_WRITE_NODE_TYPES` (`sql_execution/validator.py:66-76`) lacks `exp.Into`,
  so `SELECT ... INTO` passes; lines 21-22 say the guard "walks the *entire* AST for
  any write node", and the repository's README (72-74) that a write never reaches
  the database. The read-only connection still refuses the statement, and nothing
  but an `INTO` passes (`OnlyReadsExecuted`).
* `service`: `sql_validation/engine.py:102` "never raises for an invalid query", but
  `sql_validation/parser.py:39` translates `ParseError` only and a `TokenError` becomes a 500 on
  `/query/validate`. `sql_execution/engine.py:72` and `api/routers/execution.py:31-33`
  "always" return a result, but of what the guard raises line 80 catches
  `ExecutionRejectedError` only, and a driver error SQLAlchemy does not wrap passes
  `executor.py:61` and `:78`: both become a 500. `ErrorsExplained` lists each.
* `service`: `api/app.py:67-71` says the security headers reach the answer of the
  handler of last resort; that handler runs outside them (`Unhandled`,
  `headers = FALSE`; the last part of `ErrorsExplained`).
* `seeds`: `seeds/shipments.py:70` can ship at the minute of the order,
  `seeds/payments.py:82` pays one to 180 minutes later; "Payments before Shipment"
  (`seeds/shipments.py:27-28`). `FulfilmentConsistent` has what holds instead: a
  parcel leaves at that very minute or after the payment, and arrives after it.

Others were met while modelling:

* `orchestrator/pipeline.py:244` notifies the listener inside the run's `try`; an
  answer that has no JSON form makes a finished run FAILED.
  `orchestrator/engine.py:67` says a listener "changes nothing about what this
  method returns".
* `streaming/sse.py:89`: two streams with one X-Correlation-ID get each other's
  events and the first end cancels the other run; lines 58-60 say a stream runs
  exactly as `POST /query`.
* `frontend/src/services/api.ts:58` stores a refreshed pair although the session
  was left meanwhile; `frontend/src/store/authStore.ts:81-82` says logout clears
  the session regardless.
* `prompt_compiler/sections.py:105-120` lists joins through tables that the
  schema section does not list, while `templates.py:35` allows only listed ones.
* `seeds/payments.py:25` says the payment of a cancelled order is never captured;
  `_draw_success` captures some. `api/routers/metrics.py:27` says every `/query`
  call is counted; streamed ones are not. `observability/diagnostics.py:272` says
  no cache is active; the linker's, the retrieval's and the prompt compiler's are. `nlu/entities.py:118`
  says a phrase inside a longer one is not matched separately; when the longer
  phrase's concept is already found (line 130) its span is not claimed and the
  nested phrase is.

No document bounds a refund by what was paid: `seeds/returns.py:101-105` refunds the
items' prices, whatever discount the order had, and `BooksBalance` bounds refunds by the
price of the goods. The verdict on a join with two foreign qualifiers may differ between
two processes (`sql_validation/parser.py:169` iterates over a set); nothing promises
otherwise, and the `service` run covers both orders.

## Not modelled

Wording, prompts' text, hashes and signatures; wire formats and the providers'
HTTP; request validation by pydantic (422), CORS and compression; logging, the
profiler, the benchmark and stage instrumentation, which change no state a
caller sees; loading of the YAML catalogues; the interpretation of dates in a
question beyond which words form one; the query store of the client and
rendering. Memory growth (unpruned rate-limit buckets, queues of a leaked
subscription) and floating-point error are outside the models: scores are exact
here. String resemblance, sqlglot's parser, PostgreSQL's constraint checks and
alembic's walk along the revisions are given from how the code uses them.

## Plan

1. Done: all modules above, the runs, and theorems for every safety property whose
   model has parameters.
2. `ClientQuery`: the query store and its streams, if the client is extended.
3. If a revision is added, `Migrations` gets its operations and `Schema` its tables;
   the run stays exhaustive. If a table is added, `KeysAre` and `SchemaConnected` in
   `UnderstandingProofs` get its foreign keys, and fail if nothing connects it.
