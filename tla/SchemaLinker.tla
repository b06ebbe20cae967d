---------------------------- MODULE SchemaLinker ----------------------------
(***************************************************************************)
(* The schema linker (querymind.schema_linker) over the metadata registry  *)
(* (querymind.metadata): every concept of a QueryContext is matched with   *)
(* the tables or the columns of the schema, a confident winner is taken    *)
(* and the tables of all winners are joined along the foreign keys.        *)
(*                                                                         *)
(* Confidences are integers in ten-thousandths.  How alike two strings     *)
(* are (difflib's ratio, and containment) is a table of measured values.   *)
(***************************************************************************)
EXTENDS Nlu, Metadata, Functions

CONSTANTS
    Dictionary,     \* the dictionary's tables: name in words and synonyms, by table
    Columns,        \* the columns: table, name, words, synonyms, keywords (display name with them)
    Abbreviations,  \* expansions of abbreviated words, as sets of words
    Resemblance     \* the best fuzzy and partial ratios of a concept with an item's texts

\* The registry reads a table's columns off the mapped class.
ASSUME ColumnsAssumption == \A c \in Columns : c.table \in ExtractTables

----------------------------------------------------------------------------
(* The registry's tables and columns, enriched from the dictionary.        *)

Enrich(t) == [table |-> t, column |-> NoValue, words |-> Dictionary[t].words,
              synonyms |-> Dictionary[t].synonyms, keywords |-> {}]

Tables == {Enrich(t) : t \in ExtractTables}

ColumnItems == {[table |-> c.table, column |-> c.name, words |-> c.words,
                 synonyms |-> c.synonyms, keywords |-> c.keywords] : c \in Columns}

----------------------------------------------------------------------------
(* Matching one concept with one table or column.                          *)

Expand(words) == UNION {IF w \in DOMAIN Abbreviations THEN Abbreviations[w] ELSE {w} :
                          w \in ToSet(words)}

FUZZY_THRESHOLD == 7500

\* The tiers from exact to partial; the first that applies.
Match(concept, item) ==
    LET alike == Resemblance[concept, item.table, item.column]
    IN  CASE item.words = concept -> "EXACT"
          [] item.words # concept /\ concept \in item.keywords -> "BUSINESS_DICTIONARY"
          [] item.words # concept /\ concept \in item.synonyms \ item.keywords -> "SYNONYM"
          [] OTHER -> IF Expand(concept) = Expand(item.words) THEN "ALIAS"
                      ELSE IF alike.fuzzy >= FUZZY_THRESHOLD THEN "FUZZY"
                      ELSE IF alike.partial > 0 THEN "PARTIAL" ELSE NoValue

\* Fixed for the first four tiers, scaled into a range below them for the others.
Score(concept, item, tier) ==
    LET alike == Resemblance[concept, item.table, item.column]
    IN  CASE tier = "EXACT" -> 10000
          [] tier = "BUSINESS_DICTIONARY" -> 9200
          [] tier = "SYNONYM" -> 8500
          [] tier = "ALIAS" -> 7800
          [] tier = "FUZZY" -> 4500 + alike.fuzzy - FUZZY_THRESHOLD
          [] tier = "PARTIAL" -> 2500 + (1900 * alike.partial) \div 10000

\* Every table, or every column, that matches at some tier; order and rank are
\* those of the confidences.
GenerateCandidates(isTable, concept) ==
    {[table |-> i.table, column |-> i.column, confidence |-> Score(concept, i, Match(concept, i))] :
        i \in {i \in (IF isTable THEN Tables ELSE ColumnItems) :
                    Match(concept, i) # NoValue}}

MIN_CONFIDENCE == 6000
MIN_MARGIN == 1000

\* The best candidate when it is good enough and clear of the runner-up.
Winner(candidates) ==
    {c \in candidates : /\ c.confidence >= MIN_CONFIDENCE
                        /\ \A d \in candidates \ {c} : c.confidence - d.confidence >= MIN_MARGIN}

----------------------------------------------------------------------------
(* The candidate cache: keyed by what is looked for and by the concept.    *)

\* Mutant: tables and columns of one concept share an entry.
CacheKeyConceptOnly(isTable, concept) == <<TRUE, concept>>
CacheKey(isTable, concept) == <<isTable, concept>>

Cached(cache, isTable, concept) ==
    LET key == CacheKey(isTable, concept)
    IN  IF key \in DOMAIN cache THEN cache[key] ELSE GenerateCandidates(isTable, concept)

\* The lookups one link makes, in order.
Lookups(context) ==
    LET of(seq, isTable) == [i \in DOMAIN seq |-> <<isTable, seq[i]>>]
    IN  of(context.entities, TRUE) \o of(Names(context.metrics), FALSE)
        \o of(context.dimensions, FALSE)
        \o of([i \in DOMAIN context.filters |-> context.filters[i].field], FALSE)
        \o of([i \in DOMAIN context.sort |-> context.sort[i].field], FALSE)

CacheAfter(cache, context) ==
    LET lookups == Lookups(context)
        key(i) == CacheKey(lookups[i][1], lookups[i][2])
        found(k) == LET i == CHOOSE i \in DOMAIN lookups : key(i) = k
                    IN  GenerateCandidates(lookups[i][1], lookups[i][2])
    IN  [k \in DOMAIN cache \cup {key(i) : i \in DOMAIN lookups} |->
            IF k \in DOMAIN cache THEN cache[k] ELSE found(k)]

----------------------------------------------------------------------------
(* Joins: breadth first from the first table to each of the others.        *)

\* The edges that lead out of the tables reached.
Frontier(reached) == {r \in UNION {edges_from(t) : t \in reached} : r.target \notin reached}

\* One round of the search: the tables one hop further.
Hop(paths) ==
    LET next == Frontier(DOMAIN paths)
        last(t) == CHOOSE r \in next : r.target = t
    IN  [t \in DOMAIN paths \cup {r.target : r \in next} |->
            IF t \in DOMAIN paths THEN paths[t] ELSE Append(paths[last(t).source], last(t))]

\* A shortest path from s to every table within reach.
PathsFrom(s) ==
    LET after[n \in 0..Cardinality(ExtractTables)] ==
            IF n = 0 THEN [t \in {s} |-> <<>>] ELSE Hop(after[n - 1])
    IN  after[Cardinality(ExtractTables)]

PathTo(paths, target) == IF target \in DOMAIN paths THEN paths[target] ELSE <<>>
find_path(source, target) == PathTo(PathsFrom(source), target)

\* Mutant: each path is searched from the table to the anchor.
find_paths_to(anchor, others) ==
    LET edges[n \in 0..Len(others)] ==
            IF n = 0 THEN <<>> ELSE edges[n - 1] \o find_path(others[n], anchor)
    IN  Distinct(edges[Len(others)])

find_paths_from(anchor, others) ==
    LET edges[n \in 0..Len(others)] ==
            IF n = 0 THEN <<>> ELSE edges[n - 1] \o find_path(anchor, others[n])
    IN  Distinct(edges[Len(others)])

resolve_relationship_paths(entities, columns, filters) ==
    LET involved == Distinct(entities \o columns \o filters)
    IN  IF Len(involved) < 2 THEN <<>> ELSE find_paths_from(Head(involved), Tail(involved))

----------------------------------------------------------------------------
(* SchemaLinker.link.                                                      *)

\* What each concept is resolved to: at most one candidate.
Winners(cache, isTable, concepts) ==
    [i \in DOMAIN concepts |-> Winner(Cached(cache, isTable, concepts[i]))]

\* The winner of each element of seq, with the element kept; an element
\* without one is left out, and becomes an ambiguity.
Resolve(winners, seq) ==
    LET won == InOrder({i \in DOMAIN seq : winners[i] # {}}, Len(seq))
    IN  [j \in DOMAIN won |-> LET c == CHOOSE c \in winners[won[j]] : TRUE
                             IN  [of |-> seq[won[j]], table |-> c.table, column |-> c.column]]

Unresolved(winners, concepts, kind) ==
    LET lost == InOrder({i \in DOMAIN concepts : winners[i] = {}}, Len(concepts))
    IN  [j \in DOMAIN lost |-> [concept |-> concepts[lost[j]], kind |-> kind]]

TablesOf(resolved) == [i \in DOMAIN resolved |-> resolved[i].table]

Fields(expressions) == [i \in DOMAIN expressions |-> expressions[i].field]

LinkedQueryContext(context, entities, metrics, dimensions, filters, sort, ambiguities) ==
    [context |-> context, entities |-> entities, metrics |-> metrics,
     dimensions |-> dimensions, filters |-> filters, sort |-> sort, ambiguities |-> ambiguities,
     joins |-> resolve_relationship_paths(
                    TablesOf(entities), TablesOf(metrics \o dimensions), TablesOf(filters \o sort))]

Link(cache, context) ==
    LET metricNames == Names(context.metrics)
        filterFields == Fields(context.filters)
        sortFields == Fields(context.sort)
        entities == Winners(cache, TRUE, context.entities)
        metrics == Winners(cache, FALSE, metricNames)
        dimensions == Winners(cache, FALSE, context.dimensions)
        filters == Winners(cache, FALSE, filterFields)
        sort == Winners(cache, FALSE, sortFields)
    IN  LinkedQueryContext(context,
            Resolve(entities, context.entities), Resolve(metrics, context.metrics),
            Resolve(dimensions, context.dimensions), Resolve(filters, context.filters),
            Resolve(sort, context.sort),
            Unresolved(entities, context.entities, "ENTITY")
            \o Unresolved(metrics, metricNames, "METRIC")
            \o Unresolved(dimensions, context.dimensions, "DIMENSION")
            \o Unresolved(filters, filterFields, "FILTER_FIELD")
            \o Unresolved(sort, sortFields, "SORT_FIELD"))

\* LinkedQueryContext.resolved_table_names
resolved_table_names(linked) ==
    Distinct(TablesOf(linked.entities \o linked.metrics \o linked.dimensions
                      \o linked.filters \o linked.sort))
=============================================================================
