---------------------------- MODULE Understanding ----------------------------
(***************************************************************************)
(* The first half of the pipeline, from a question to the prompt that is   *)
(* sent to the model, for several requests of one process at a time.       *)
(*                                                                         *)
(* The engines are built once by ApplicationContainer.build and shared, so *)
(* their three caches (link candidates, example features, compiled         *)
(* prompts) outlive a request.  A stage runs without awaiting; requests    *)
(* interleave between stages, where the events are published.              *)
(***************************************************************************)
EXTENDS PromptCompiler

CONSTANTS Requests,     \* concurrent requests
          Questions,    \* the questions that may be asked, as word sequences
          MaxAsked      \* bound on the questions asked in a run

ASSUME QuestionsAssumption == Questions \subseteq Seq(STRING)

VARIABLES req,          \* per request: its stage and what the stages produced
          linkerCache,  \* InMemoryLinkerCache
          featureCache, \* InMemoryRetrievalCache
          promptCache,  \* InMemoryPromptCache
          asked         \* how many questions were asked so far

vars == <<req, linkerCache, featureCache, promptCache, asked>>

Idle == [stage |-> "idle"]
Settled == {"idle", "compiled", "bundled", "failed"}

Init == /\ req = [r \in Requests |-> Idle]
        /\ linkerCache = <<>> /\ featureCache = <<>> /\ promptCache = <<>>
        /\ asked = 0

To(r, to) == req' = [req EXCEPT ![r] = to]

\* run: a question arrives.
Ask(r, q) ==
    /\ req[r].stage \in Settled /\ asked < MaxAsked
    /\ To(r, [stage |-> "asked", question |-> q])
    /\ asked' = asked + 1
    /\ UNCHANGED <<linkerCache, featureCache, promptCache>>

\* NLU: an EmptyQuestionError or a ValidationError fails the run.
RunNlu(r) ==
    /\ req[r].stage = "asked"
    /\ IF ParseFails(req[r].question) THEN To(r, [stage |-> "failed"])
       ELSE To(r, [stage |-> "parsed", context |-> Parse(req[r].question)])
    /\ UNCHANGED <<linkerCache, featureCache, promptCache, asked>>

SchemaLinking(r) ==
    /\ req[r].stage = "parsed"
    /\ To(r, [stage |-> "linked", linked |-> Link(linkerCache, req[r].context)])
    /\ linkerCache' = CacheAfter(linkerCache, req[r].context)
    /\ UNCHANGED <<featureCache, promptCache, asked>>

\* BUSINESS_KNOWLEDGE only loads the catalogue, which startup has loaded, so it
\* is one step with RETRIEVAL.
RunRetrieval(r) ==
    /\ req[r].stage = "linked"
    /\ To(r, [stage |-> "retrieved", bundle |-> Retrieve(featureCache, req[r].linked)])
    /\ featureCache' = FeaturesAfter(featureCache)
    /\ UNCHANGED <<linkerCache, promptCache, asked>>

PromptCompilation(r) ==
    /\ req[r].stage = "retrieved"
    /\ To(r, [stage |-> "compiled", bundle |-> req[r].bundle,
              prompt |-> Compile(promptCache, req[r].bundle)])
    /\ promptCache' = PromptsAfter(promptCache, req[r].bundle)
    /\ UNCHANGED <<linkerCache, featureCache, asked>>

BundleOf(r, context) ==
    /\ To(r, [stage |-> "bundled", bundle |-> Retrieve(featureCache, Link(linkerCache, context))])
    /\ linkerCache' = CacheAfter(linkerCache, context)
    /\ featureCache' = FeaturesAfter(featureCache)

\* repair_sql: a request of its own that goes through NLU, linking and retrieval
\* without awaiting and stops there; no prompt is compiled.
RepairSql(r, q) ==
    /\ req[r].stage \in Settled /\ asked < MaxAsked
    /\ asked' = asked + 1
    /\ IF ParseFails(q)
       THEN To(r, [stage |-> "failed"]) /\ UNCHANGED <<linkerCache, featureCache>>
       ELSE BundleOf(r, Parse(q))
    /\ UNCHANGED promptCache

Next == \E r \in Requests :
            \/ \E q \in Questions : Ask(r, q) \/ RepairSql(r, q)
            \/ RunNlu(r) \/ SchemaLinking(r) \/ RunRetrieval(r) \/ PromptCompilation(r)

Spec == Init /\ [][Next]_vars

----------------------------------------------------------------------------
Bundled == {r \in Requests : req[r].stage \in {"retrieved", "compiled", "bundled"}}
Compiled == {r \in Requests : req[r].stage = "compiled"}

\* What a process that has answered nothing yet makes of a question.
ColdBundle(q) == Retrieve(<<>>, Link(<<>>, Parse(q)))

\* The three shared caches are invisible: whatever was asked before or meanwhile,
\* a question gets the bundle and the prompt a fresh process would give it
\* (CandidateGenerator, example_features, PromptCompiler.compile).
HistoryIndependent ==
    /\ \A r \in Bundled : req[r].bundle = ColdBundle(req[r].bundle.linked.context.question)
    /\ \A r \in Compiled : req[r].prompt = Prompt(req[r].bundle)

\* The join edges connect every table the answer needs (resolved_table_names)
\* to the first one, each edge starting at a table already reached, so the
\* Relationships section can be followed from top to bottom.
JoinsConnect == \A r \in Bundled :
    LET linked == req[r].bundle.linked
        tables == resolved_table_names(linked)
        reached(n) == {tables[1]} \cup {linked.joins[i].target : i \in 1..n}
    IN  Len(tables) > 1 =>
            /\ ToSet(tables) \subseteq reached(Len(linked.joins))
            /\ \A i \in DOMAIN linked.joins : linked.joins[i].source \in reached(i - 1)

Lost(before, s) == SectionTokens(before) - Tokens(s.shown)

\* What trimming the sections `built` to `s` may and must do.
TrimmedInOrder(built, s) ==
    LET lost(n) == Lost(built[n], s[n])
        unmarked == [n \in DOMAIN s |-> [s[n] EXCEPT !.marked = FALSE]]
    IN  /\ Total(built) <= MaxTokens => s = built
        /\ \A n \in Required : s[n] = built[n]
        /\ \A i, j \in DOMAIN TrimOrder :
                LET earlier == s[TrimOrder[i]]
                    later == TrimOrder[j]
                IN  i < j => /\ s[later] # built[later] => earlier.shown = 0 \/ earlier.marked
                             /\ lost(later) > Tokens(MarkerChars) => earlier.shown = 0
        /\ RequiredTotal(built) <= MaxTokens => Total(unmarked) <= MaxTokens

\* What PromptBudgetManager.enforce does keep to: nothing goes while the prompt
\* fits and instructions never; a section is touched only when every section
\* before it is gone or cut, and gives up more than a marker's length only when
\* all before it are gone; and what is left of the sections fits the budget.  It
\* documents more, that the prompt fits `max_tokens` and that each section goes
\* before the next is touched: a cut section's marker is not paid for, so the
\* prompt can end over its budget by its markers, and the next section is cut
\* to make up for one.
TrimsInOrder == \A r \in Compiled :
    TrimmedInOrder(BuildSections(req[r].bundle), req[r].prompt.sections)

\* Two requests that are sent the same prompt asked for the same thing: the same
\* filter values, limit, order and period.  Stated by the prompt itself: it
\* asks for "SQL that correctly answers the user's question".
PromptKnowsTheQuestion == \A r, s \in Compiled :
    AsText(req[r].prompt) = AsText(req[s].prompt) =>
        LET a == req[r].bundle.linked.context
            b == req[s].bundle.linked.context
        IN  <<a.intent, a.filters, a.limit, a.sort, a.time>> = <<b.intent, b.filters, b.limit, b.sort, b.time>>
=============================================================================
