-------------------------------- MODULE Nlu --------------------------------
(***************************************************************************)
(* The natural language understanding engine (querymind.nlu): one pure     *)
(* function from a question to a QueryContext.                             *)
(*                                                                         *)
(* A question is the sequence of its normalised words, so the regular      *)
(* expressions of the code, all anchored at word boundaries, become        *)
(* matches of word sequences.  Words are taken up to grammatical number    *)
(* (every vocabulary lists both numbers of a noun with the same meaning)   *)
(* and a canonical name is the sequence of its words ("order_item" is      *)
(* <<"order", "item">>).  Calendar arithmetic (the bounds of "last month") *)
(* is left out: only the presence of a time expression is read later on.   *)
(***************************************************************************)
EXTENDS Naturals, Sequences, SequencesExt, FiniteSets

CONSTANTS NumberOf,     \* the numerals among the words, with their values
          DateTokens    \* the words that are a date (2024-01-31) or a year

NoValue == "none"
Numerals == DOMAIN NumberOf
IsWord(w) == w \notin Numerals \cup DateTokens

----------------------------------------------------------------------------
(* Vocabularies: phrase and canonical name, longest phrase first.          *)

Same(w) == << <<w>>, <<w>> >>

ENTITY_SYNONYMS ==
    << << <<"product", "category">>, <<"category">> >>,
       << <<"transaction">>, <<"payment">> >>,
       << <<"order", "item">>, <<"order", "item">> >>,
       << <<"promo", "code">>, <<"promotion">> >>,
       << <<"line", "item">>, <<"order", "item">> >>,
       Same("warehouse"), Same("promotion"), Same("inventory"), Same("customer"),
       << <<"purchase">>, <<"order">> >>,
       Same("category"), Same("supplier"), Same("shipment"),
       << <<"delivery">>, <<"shipment">> >>, << <<"shopper">>, <<"customer">> >>,
       Same("product"), Same("payment"),
       << <<"client">>, <<"customer">> >>, << <<"vendor">>, <<"supplier">> >>,
       Same("review"), << <<"rating">>, <<"review">> >>,
       Same("return"), << <<"refund">>, <<"return">> >>,
       << <<"buyer">>, <<"customer">> >>, Same("order"),
       << <<"stock">>, <<"inventory">> >>,
       << <<"item">>, <<"product">> >>, << <<"sku">>, <<"product">> >> >>

DIMENSION_SYNONYMS ==
    << << <<"customer", "segment">>, <<"customer", "segment">> >>,
       << <<"payment", "method">>, <<"payment", "method">> >>,
       << <<"sales", "channel">>, <<"sales", "channel">> >>,
       << <<"order", "status">>, <<"order", "status">> >>,
       << <<"product", "name">>, <<"product", "name">> >>,
       Same("country"), << <<"segment">>, <<"customer", "segment">> >>,
       << <<"channel">>, <<"sales", "channel">> >>, Same("carrier"), Same("region"),
       << <<"status">>, <<"order", "status">> >>, Same("gender"), Same("state"), Same("city") >>

METRIC_SYNONYMS ==
    << << <<"gross", "merchandise", "value">>, <<"revenue">> >>,
       << <<"average", "order", "value">>, <<"average", "order", "value">> >>,
       << <<"quantity", "on", "hand">>, <<"inventory", "level">> >>,
       << <<"number", "of", "order">>, <<"order", "count">> >>,
       << <<"discount", "amount">>, <<"discount", "amount">> >>,
       << <<"inventory", "level">>, <<"inventory", "level">> >>,
       << <<"average", "rating">>, <<"review", "rating">> >>,
       << <<"quantity", "sold">>, <<"quantity">> >>,
       << <<"shipping", "cost">>, <<"shipping", "amount">> >>,
       << <<"review", "rating">>, <<"review", "rating">> >>,
       << <<"shipping", "fee">>, <<"shipping", "amount">> >>,
       << <<"total", "sales">>, <<"revenue">> >>,
       << <<"order", "value">>, <<"order", "value">> >>,
       << <<"order", "count">>, <<"order", "count">> >>,
       << <<"return", "rate">>, <<"return", "rate">> >>,
       << <<"stock", "level">>, <<"inventory", "level">> >>,
       << <<"units", "sold">>, <<"quantity">> >>,
       << <<"unit", "price">>, <<"price">> >>, << <<"cost", "price">>, <<"cost">> >>,
       << <<"tax", "amount">>, <<"tax", "amount">> >>, << <<"lead", "time">>, <<"lead", "time">> >>,
       Same("quantity"), << <<"discount">>, <<"discount", "amount">> >>,
       Same("revenue"), Same("profit"), << <<"margin">>, <<"profit">> >>,
       << <<"rating">>, <<"review", "rating">> >>, << <<"sales">>, <<"revenue">> >>,
       Same("price"), Same("cost"), << <<"gmv">>, <<"revenue">> >>,
       << <<"aov">>, <<"average", "order", "value">> >>, << <<"tax">>, <<"tax", "amount">> >> >>

\* What a field of a filter or of a sort may be called: the three together.
\* A phrase that two of them list ("rating") means what the last one says.
LastMeaning(entries) == [p \in {e[1] : e \in ToSet(entries)} |->
    entries[Max({i \in DOMAIN entries : entries[i][1] = p})][2]]

KnownFields == LastMeaning(ENTITY_SYNONYMS \o DIMENSION_SYNONYMS \o METRIC_SYNONYMS)

AGGREGATION_KEYWORDS ==
    [SUM |-> {<<"sum", "of">>, <<"total">>, <<"sum">>},
     AVERAGE |-> {<<"average">>, <<"avg">>, <<"mean">>},
     COUNT |-> {<<"count", "of">>, <<"number", "of">>, <<"how", "many">>, <<"count">>},
     MIN |-> {<<"minimum">>, <<"lowest">>, <<"smallest">>, <<"cheapest">>, <<"min">>},
     MAX |-> {<<"maximum">>, <<"highest">>, <<"largest">>, <<"max">>}]

----------------------------------------------------------------------------
(* Where a phrase stands in a question.                                    *)

At(text, i, phrase) == i + Len(phrase) - 1 <= Len(text)
                       /\ SubSeq(text, i, i + Len(phrase) - 1) = phrase

Starts(text, phrase) == {i \in DOMAIN text : At(text, i, phrase)}

\* The numbers up to n that are in S, in their order.
InOrder(S, n) ==
    LET upto[k \in 0..n] == IF k = 0 THEN <<>>
                            ELSE IF k \in S THEN Append(upto[k - 1], k) ELSE upto[k - 1]
    IN  upto[n]

\* Matches in the order of the question; no two start at one word.
ByPlace(text, found) ==
    LET places == InOrder({m.at : m \in found}, Len(text))
    IN  [k \in DOMAIN places |-> CHOOSE m \in found : m.at = places[k]]

\* The phrases of the vocabulary in turn, longest first: the first place that
\* no earlier phrase claimed, unless its canonical name was found already.
find_vocabulary_matches(text, vocabulary) ==
    LET take(found, entry) ==
            LET size == Len(entry[1])
                free == {i \in Starts(text, entry[1]) :
                            \A m \in found : i + size <= m.at \/ m.at + m.size <= i}
            IN  IF (\E m \in found : m.name = entry[2]) \/ free = {} THEN found
                ELSE found \cup {[name |-> entry[2], at |-> Min(free), size |-> size]}
        occurring == SelectSeq(vocabulary, LAMBDA entry : Starts(text, entry[1]) # {})
    IN  ByPlace(text, FoldLeft(take, {}, occurring))

Names(matches) == [i \in DOMAIN matches |-> matches[i].name]

----------------------------------------------------------------------------
(* The extractors.                                                         *)

\* The window before a metric in which a keyword asks for its aggregation:
\* 20 characters in the code, its last AggregationWindow words here.
AggregationWindow == 2

\* The latest keyword of the window that ends before the metric.
find_aggregation_before(text, at) ==
    LET keywords == UNION {{a} \X AGGREGATION_KEYWORDS[a] : a \in DOMAIN AGGREGATION_KEYWORDS}
        hits == {[for |-> h[1][1], at |-> h[2]] : h \in {h \in keywords \X DOMAIN text :
                    /\ At(text, h[2], h[1][2])
                    /\ h[2] + AggregationWindow >= at /\ h[2] + Len(h[1][2]) <= at}}
    IN  IF hits = {} THEN NoValue
        ELSE (CHOOSE h \in hits : \A g \in hits : g.at <= h.at).for

Metrics(text, found) ==
    [i \in DOMAIN found |->
        [name |-> found[i].name, aggregation |-> find_aggregation_before(text, found[i].at)]]

ExtractMetrics(text) == Metrics(text, find_vocabulary_matches(text, METRIC_SYNONYMS))

\* The comparator patterns in the order they are tried: the words between field
\* and value, the operator, and what the value is made of.
COMPARATORS ==
    << [op |-> "GREATER_THAN_OR_EQUAL", words |-> {<<"at", "least">>}, value |-> {"number"}],
       [op |-> "LESS_THAN_OR_EQUAL", words |-> {<<"at", "most">>}, value |-> {"number"}],
       [op |-> "GREATER_THAN_OR_EQUAL", words |-> {<<"greater", "than", "or", "equal", "to">>},
        value |-> {"number"}],
       [op |-> "LESS_THAN_OR_EQUAL", words |-> {<<"less", "than", "or", "equal", "to">>},
        value |-> {"number"}],
       [op |-> "GREATER_THAN",
        words |-> {<<"greater", "than">>, <<"more", "than">>, <<"above">>, <<"over">>},
        value |-> {"number"}],
       [op |-> "LESS_THAN",
        words |-> {<<"less", "than">>, <<"fewer", "than">>, <<"under">>, <<"below">>},
        value |-> {"number"}],
       [op |-> "NOT_EQUALS",
        words |-> {<<"not", "equal", "to">>, <<"not", "equals">>, <<"excluding">>, <<"except">>},
        value |-> {"number", "words"}],
       [op |-> "EQUALS", words |-> {<<"equal", "to">>, <<"equals">>}, value |-> {"number", "words"}],
       [op |-> "CONTAINS",
        words |-> {<<"containing">>, <<"contains">>, <<"like">>, <<"named">>}, value |-> {"words"}],
       [op |-> "IN", words |-> {<<"in">>}, value |-> {"words"}] >>

\* How many words from i on are the value: one numeral, or up to four words.
ValueSize(text, i, kinds) ==
    LET wordy == {n \in 1..4 : i + n - 1 <= Len(text) /\ \A j \in i..(i + n - 1) : IsWord(text[j])}
    IN  CASE "words" \in kinds /\ wordy # {} -> Max(wordy)
          [] "number" \in kinds /\ i \in DOMAIN text /\ text[i] \in Numerals -> 1
          [] OTHER -> 0

\* The ways comparator c can match from word i on: a field of one to three words,
\* words of the comparator and a value.
Comparisons(text, i, c) ==
    LET field(n) == \A j \in i..(i + n - 1) : j \in DOMAIN text /\ IsWord(text[j])
        match(n, v) == [at |-> i, end |-> v + ValueSize(text, v, c.value), op |-> c.op,
                        field |-> SubSeq(text, i, i + n - 1), from |-> v]
    IN  UNION {{match(n, i + n + Len(w)) : w \in {w \in c.words : At(text, i + n, w)}} :
                  n \in {n \in 1..3 : field(n)}}

\* The longest ending of the candidate that is a known field.
LongestKnown(endings, fields) ==
    IF endings = {} THEN <<>>
    ELSE fields[CHOOSE e \in endings : \A d \in endings : Len(d) <= Len(e)]

resolve_field_in(fields, candidate) ==
    LongestKnown({SubSeq(candidate, s, Len(candidate)) : s \in DOMAIN candidate} \cap DOMAIN fields,
                 fields)

resolve_field(candidate) == resolve_field_in(KnownFields, candidate)

\* One match of finditer: the one with the longest field.  A match that overlaps
\* a claimed one, or names no known field, is skipped but uses up its words.
Claim(acc, m, field) ==
    [next |-> m.end,
     found |-> IF field = <<>> \/ \E g \in acc.found : m.at < g.end /\ g.at < m.end THEN acc.found
               ELSE acc.found \cup {[m EXCEPT !.field = field]}]

ClaimLongest(acc, matches) ==
    IF matches = {} THEN acc
    ELSE LET m == CHOOSE m \in matches : \A o \in matches : Len(o.field) <= Len(m.field)
         IN  Claim(acc, m, resolve_field(m.field))

\* finditer of one pattern, left to right.
Scan(text, found, c) ==
    FoldLeft(LAMBDA acc, i : IF i < acc.next THEN acc
                             ELSE ClaimLongest(acc, {m \in Comparisons(text, i, c) : m.end > m.from}),
             [next |-> 1, found |-> found], [i \in DOMAIN text |-> i]).found

Filters(text, matches) ==
    [i \in DOMAIN matches |->
        [field |-> matches[i].field, operator |-> matches[i].op,
         value |-> SubSeq(text, matches[i].from, matches[i].end - 1)]]

\* Every pattern in turn, then in the order of the question.
ExtractFilters(text) ==
    Filters(text, ByPlace(text, FoldLeft(LAMBDA found, c : Scan(text, found, c), {}, COMPARATORS)))

\* between, then before, then after a date, then a period relative to the day
\* the extractor was built.
ExtractTime(text) ==
    LET dated(k) == \E i \in DOMAIN text : text[i] = k /\ i < Len(text) /\ text[i + 1] \in DateTokens
        between == \E i \in DOMAIN text : /\ i + 3 <= Len(text) /\ text[i] = "between"
                                          /\ text[i + 1] \in DateTokens
                                          /\ text[i + 2] = "and" /\ text[i + 3] \in DateTokens
        relative == {p \in {<<"today">>, <<"yesterday">>}
                            \cup ({"this", "last"} \X {"week", "month", "quarter", "year"}) :
                        Starts(text, p) # {}}
    IN  CASE between -> "between"
          [] ~between /\ dated("before") -> "before"
          [] ~between /\ ~dated("before") /\ dated("after") -> "after"
          [] OTHER -> IF relative = {} THEN NoValue ELSE "relative"

\* Superlatives, longest first.
SUPERLATIVES == << <<"greatest", "DESC">>, <<"smallest", "ASC">>, <<"cheapest", "ASC">>,
                   <<"highest", "DESC">>, <<"largest", "DESC">>, <<"lowest", "ASC">>,
                   <<"bottom", "ASC">>, <<"least", "ASC">>, <<"worst", "ASC">>,
                   <<"most", "DESC">>, <<"best", "DESC">>, <<"top", "DESC">> >>

\* "most" and "least" of "at most", "at least" are no superlatives.
Superlative(text, w) == \E i \in DOMAIN text :
    text[i] = w /\ ~(w \in {"most", "least"} /\ i > 1 /\ text[i - 1] = "at")

\* A field that is named, or else the first metric.
SortField(named, metrics) == IF named = <<>> /\ metrics # <<>> THEN metrics[1].name ELSE named

SortBy(text, at, field) ==
    IF field = <<>> THEN <<>>
    ELSE <<[field |-> field,
            direction |-> IF at + 3 <= Len(text) /\ text[at + 3] \in {"asc", "ascending"}
                          THEN "ASC" ELSE "DESC"]>>

\* An explicit "sort by"; its lazy field is the single next word, so a direction
\* is seen only right after that word.
ExplicitSort(text, metrics, by) ==
    IF by = {} THEN <<>>
    ELSE SortBy(text, Min(by), SortField(resolve_field(<<text[Min(by) + 2]>>), metrics))

\* A superlative sorts the first metric.
SuperlativeSort(metrics, hits) ==
    IF metrics = <<>> \/ hits = <<>> THEN <<>>
    ELSE <<[field |-> metrics[1].name, direction |-> hits[1][2]]>>

FirstOf(this, that) == IF this # <<>> THEN this ELSE that

ExtractSort(text, metrics) ==
    FirstOf(ExplicitSort(text, metrics,
                         {i \in DOMAIN text : /\ i + 2 <= Len(text) /\ IsWord(text[i + 2])
                                              /\ text[i] \in {"sort", "sorted", "order", "ordered"}
                                              /\ text[i + 1] = "by"}),
            SuperlativeSort(metrics, SelectSeq(SUPERLATIVES, LAMBDA s : Superlative(text, s[1]))))

\* The number after the first limiting word.  LimitExpression takes no zero:
\* its ValidationError fails the parse.
ExtractLimit(text) ==
    LET at == {i \in DOMAIN text : /\ text[i] \in {"top", "first", "bottom", "last", "limit"}
                                   /\ i < Len(text) /\ text[i + 1] \in Numerals}
    IN  IF at = {} THEN <<>> ELSE <<NumberOf[text[Min(at) + 1]]>>

\* The intent rules in order; the first that matches gives intent and confidence.
RULES ==
    << [intent |-> "TREND", score |-> 90,
        words |-> {<<"trend">>, <<"trending">>, <<"over", "time">>, <<"month", "over", "month">>,
                   <<"year", "over", "year">>, <<"growth">>, <<"change", "over">>}],
       [intent |-> "COMPARISON", score |-> 90,
        words |-> {<<"compare">>, <<"comparison">>, <<"versus">>, <<"vs">>, <<"difference", "between">>}],
       [intent |-> "COUNT", score |-> 90,
        words |-> {<<"how", "many">>, <<"count", "of">>, <<"number", "of">>, <<"count">>}],
       [intent |-> "AVERAGE", score |-> 90, words |-> {<<"average">>, <<"avg">>, <<"mean">>}],
       [intent |-> "SUM", score |-> 85, words |-> {<<"total">>, <<"sum", "of">>, <<"sum">>}],
       [intent |-> "MAX", score |-> 85,
        words |-> {<<"maximum">>, <<"highest">>, <<"most", "expensive">>, <<"largest">>, <<"most">>}],
       [intent |-> "MIN", score |-> 85,
        words |-> {<<"minimum">>, <<"lowest">>, <<"cheapest">>, <<"smallest">>, <<"least">>}],
       [intent |-> "AGGREGATION", score |-> 75,
        words |-> {<<"by", "region">>, <<"by", "category">>, <<"by", "month">>, <<"by", "year">>,
                   <<"broken", "down">>, <<"group", "by">>, <<"grouped", "by">>, <<"per">>}],
       [intent |-> "DETAIL", score |-> 60,
        words |-> {<<"show">>, <<"list">>, <<"detail", "of">>, <<"who", "is">>, <<"what", "is">>,
                   <<"which">>}] >>

Classify(text) ==
    LET topN == \E i \in DOMAIN text : /\ text[i] \in {"top", "bottom", "first", "best", "worst"}
                                       /\ i < Len(text) /\ text[i + 1] \in Numerals
        hit(r) == \E w \in r.words : \E i \in Starts(text, w) :
                    ~(w \in {<<"most">>, <<"least">>} /\ i > 1 /\ text[i - 1] = "at")
        hits == SelectSeq(RULES, hit)
    IN  CASE topN -> [intent |-> "TOP_N", score |-> 95]
          [] ~topN /\ hits # <<>> -> [intent |-> hits[1].intent, score |-> hits[1].score]
          [] OTHER -> [intent |-> "SELECT", score |-> 40]

----------------------------------------------------------------------------
(* QueryParser.parse.                                                      *)

resolve_aggregation(intent, metrics) ==
    LET asked == SelectSeq(metrics, LAMBDA m : m.aggregation # NoValue)
    IN  CASE intent \in {"COUNT", "SUM", "AVERAGE", "MIN", "MAX"} -> intent
          [] intent = "AGGREGATION" /\ asked # <<>> -> asked[1].aggregation
          [] intent = "AGGREGATION" /\ asked = <<>> /\ metrics # <<>> -> "SUM"
          [] OTHER -> NoValue

\* Each element once, at its first place (dict.fromkeys and its spelled-out kin).
Distinct(seq) ==
    LET first == InOrder({i \in DOMAIN seq : \A j \in 1..(i - 1) : seq[j] # seq[i]}, Len(seq))
    IN  [k \in DOMAIN first |-> seq[first[k]]]

collect_business_concepts(entities, dimensions, metrics, filters) ==
    Distinct(entities \o dimensions \o Names(metrics)
             \o [i \in DOMAIN filters |-> filters[i].field])

compute_confidence(score, entities, metrics, filters, time) ==
    LET sum == score + (IF entities # <<>> THEN 5 ELSE 0) + (IF metrics # <<>> THEN 5 ELSE 0)
                     + (IF filters # <<>> THEN 3 ELSE 0) + (IF time # NoValue THEN 2 ELSE 0)
    IN  IF sum > 100 THEN 100 ELSE sum

\* An empty question is refused, and so is a limit of zero.
ParseFails(text) == text = <<>> \/ ExtractLimit(text) = <<0>>

QueryContext(text, class, entities, dimensions, metrics, filters, time) ==
    [question |-> text, intent |-> class.intent,
     entities |-> entities,                      \* the primary first
     dimensions |-> dimensions, metrics |-> metrics, filters |-> filters,
     time |-> time, sort |-> ExtractSort(text, metrics), limit |-> ExtractLimit(text),
     aggregation |-> resolve_aggregation(class.intent, metrics),
     concepts |-> collect_business_concepts(entities, dimensions, metrics, filters),
     confidence |-> compute_confidence(class.score, entities, metrics, filters, time)]

Parse(text) ==
    QueryContext(text, Classify(text),
                 Names(find_vocabulary_matches(text, ENTITY_SYNONYMS)),
                 Names(find_vocabulary_matches(text, DIMENSION_SYNONYMS)),
                 ExtractMetrics(text), ExtractFilters(text), ExtractTime(text))
=============================================================================
