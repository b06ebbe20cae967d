------------------------------ MODULE Retrieval ------------------------------
(***************************************************************************)
(* The retrieval engine (querymind.retrieval) over the query library and   *)
(* the business knowledge catalogue: every example of the library is       *)
(* scored against the linked question by eight weighted signals and the    *)
(* best are taken.                                                         *)
(***************************************************************************)
EXTENDS SchemaLinker

CONSTANTS
    Library,        \* the examples: id and its alphabetical order, intent, concepts, tables,
                    \* columns (<<table, column>>), keywords, features of its SQL, difficulty
    Knowledge,      \* the business concepts, in catalogue order: id, name, aliases, related
    Overlaps,       \* pairs of a term and a text of which one contains the other
    TopK            \* default_top_k

\* A duplicate id refuses the whole catalogue when it is loaded.
ASSUME LibraryAssumption == /\ TopK \in Nat \ {0} /\ Library \in Seq(ToSet(Library))
                            /\ \A i, j \in DOMAIN Library : Library[i].id = Library[j].id => i = j
                            /\ \A i, j \in DOMAIN Knowledge : Knowledge[i].id = Knowledge[j].id => i = j

----------------------------------------------------------------------------
(* Business knowledge: what concept a term means.                          *)

\* By name, then by alias, then by related term, then by a partial match with
\* name or alias; the first of the catalogue each time.
ResolveConcept(term) ==
    LET named == SelectSeq(Knowledge, LAMBDA c : c.name = term)
        aliased == SelectSeq(Knowledge, LAMBDA c : term \in c.aliases)
        related == SelectSeq(Knowledge, LAMBDA c : term \in c.related)
        partial == SelectSeq(Knowledge, LAMBDA c :
                        \E t \in {c.name} \cup c.aliases : <<term, t>> \in Overlaps)
        all == named \o aliased \o related \o partial
    IN  IF all = <<>> THEN term ELSE all[1].id

Canonicalize(terms) == {ResolveConcept(t) : t \in terms}

----------------------------------------------------------------------------
(* What is compared.  An example's features are computed once and cached   *)
(* under its id.                                                           *)

ExampleFeatures(e) ==
    [concepts |-> Canonicalize(e.concepts), keywords |-> e.keywords, columns |-> e.columns,
     tables |-> e.tables \cup {c[1] : c \in e.columns}]

Features(cache, e) == IF e.id \in DOMAIN cache THEN cache[e.id] ELSE ExampleFeatures(e)

\* Scoring a context touches every example.
FeaturesAfter(cache) == [id \in {e.id : e \in ToSet(Library)} |->
                            Features(cache, CHOOSE e \in ToSet(Library) : e.id = id)]

\* Of the stopwords, those the questions here use; one-letter words are dropped too.
STOPWORDS == {"by", "in", "and", "with", "how", "many", "show", "which", "at", "the"}
OneLetter == {n \in Numerals : NumberOf[n] < 10}

context_columns(linked) ==
    {<<r.table, r.column>> : r \in ToSet(linked.metrics) \cup ToSet(linked.dimensions)
                                     \cup ToSet(linked.filters) \cup ToSet(linked.sort)}

ContextFeatures(linked) ==
    [concepts |-> Canonicalize(ToSet(linked.context.concepts)),
     keywords |-> ToSet(linked.context.question) \ (STOPWORDS \cup OneLetter),
     columns |-> context_columns(linked),
     tables |-> ToSet(resolved_table_names(linked))]

----------------------------------------------------------------------------
(* The signals.  Scores are multiples of 1/Whole, exact for sets of up to  *)
(* twelve elements.                                                        *)

Whole == 27720

Jaccard(a, b) == IF a \cup b = {} THEN 0
                 ELSE (Whole * Cardinality(a \cap b)) \div Cardinality(a \cup b)

implies_aggregation(linked) ==
    \/ linked.context.aggregation # NoValue
    \/ \E m \in ToSet(linked.metrics) : m.of.aggregation # NoValue

expected_features(linked) ==
    {f \in {"JOIN", "GROUP BY", "aggregate function", "ORDER BY", "LIMIT", "WHERE"} :
        CASE f = "JOIN" -> Len(resolved_table_names(linked)) > 1 \/ linked.joins # <<>>
          [] f = "GROUP BY" -> linked.dimensions # <<>> \/ implies_aggregation(linked)
          [] f = "aggregate function" -> implies_aggregation(linked)
          [] f = "ORDER BY" -> linked.sort # <<>>
          [] f = "LIMIT" -> linked.context.limit # <<>>
          [] f = "WHERE" -> linked.filters # <<>>}

SqlFeatureOverlap(linked, e) ==
    LET expected == expected_features(linked)
    IN  IF expected = {} THEN Whole
        ELSE (Whole * Cardinality(expected \cap e.features)) \div Cardinality(expected)

\* 0 beginner, 1 intermediate, 2 advanced, 3 expert.
implied_difficulty(linked) ==
    LET n == Len(resolved_table_names(linked))
        points == (IF n > 1 THEN n - 1 ELSE 0)
                  + Cardinality({p \in {"aggregation", "dimensions", "sort", "filters", "time",
                                        "ambiguities"} :
                        CASE p = "aggregation" -> implies_aggregation(linked)
                          [] p = "dimensions" -> linked.dimensions # <<>>
                          [] p = "sort" -> linked.sort # <<>>
                          [] p = "filters" -> Len(linked.filters) > 1
                          [] p = "time" -> linked.context.time # NoValue
                          [] p = "ambiguities" -> linked.ambiguities # <<>>})
    IN  IF points < 2 THEN 0 ELSE IF points < 4 THEN 1 ELSE IF points < 6 THEN 2 ELSE 3

DifficultySimilarity(linked, e) ==
    LET d == implied_difficulty(linked)
        distance == IF d > e.difficulty THEN d - e.difficulty ELSE e.difficulty - d
    IN  Whole - (Whole * distance) \div 3

IntentSimilarity(linked, e) == IF linked.context.intent = e.intent THEN Whole ELSE 0
BusinessConceptOverlap(q, f) == Jaccard(q.concepts, f.concepts)
SchemaOverlap(q, f) ==
    Jaccard({<<t>> : t \in q.tables} \cup q.columns, {<<t>> : t \in f.tables} \cup f.columns)
TableOverlap(q, f) == Jaccard(q.tables, f.tables)
ColumnOverlap(q, f) == Jaccard(q.columns, f.columns)
KeywordOverlap(q, f) == Jaccard(q.keywords, f.keywords)

\* The weighted sum, weights in hundredths.
ScoreExample(linked, e, f) ==
    LET q == ContextFeatures(linked)
    IN    15 * IntentSimilarity(linked, e) + 20 * BusinessConceptOverlap(q, f)
        + 10 * SchemaOverlap(q, f) + 15 * TableOverlap(q, f) + 15 * ColumnOverlap(q, f)
        + 10 * SqlFeatureOverlap(linked, e) + 10 * KeywordOverlap(q, f)
        + 5 * DifficultySimilarity(linked, e)

----------------------------------------------------------------------------
(* RetrievalEngine.retrieve: the best TopK, ties broken by id.             *)

Rank(scored) ==
    LET better(c) == {d \in scored : d.score > c.score \/ (d.score = c.score /\ d.rank < c.rank)}
        n == IF Cardinality(scored) < TopK THEN Cardinality(scored) ELSE TopK
    IN  [k \in 1..n |-> CHOOSE c \in scored : Cardinality(better(c)) = k - 1]

Retrieve(cache, linked) ==
    [linked |-> linked,
     examples |-> Rank({[id |-> e.id, rank |-> e.order,
                         score |-> ScoreExample(linked, e, Features(cache, e))] : e \in ToSet(Library)})]
=============================================================================
