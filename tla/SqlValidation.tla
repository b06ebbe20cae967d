--------------------------- MODULE SqlValidation ---------------------------
(***************************************************************************)
(* SQL validation (querymind.sql_validation) and the execution guard       *)
(* (querymind.sql_execution.validator): ten independent validators over    *)
(* the first statement of a text, and the guard over all of it.            *)
(*                                                                         *)
(* A text is what sqlglot makes of it: whether it can be tokenized and     *)
(* parsed, its dialect, and its statements as syntax trees of which only   *)
(* the nodes some validator looks for are kept.  Messages are left out; an *)
(* issue is its code.                                                      *)
(***************************************************************************)
EXTENDS Metadata, Sequences, FiniteSets, SequencesExt

CONSTANTS
    None,           \* no value
    ColumnNames,    \* the columns of every table
    Metrics         \* business metrics: their preferred schema objects, by name

----------------------------------------------------------------------------
(* sqlglot, as the validators use it (external).                           *)

\* A SELECT over the given tables, to be refined with EXCEPT.  Its nodes are the
\* types of the expressions anywhere in the tree that may write.
Select(tables) ==
    [kind |-> "select", nodes |-> {}, tables |-> tables, ctes |-> {}, derived |-> {},
     columns |-> {}, outputs |-> <<>>, joins |-> <<>>, functions |-> {},
     group |-> None, having |-> FALSE, aggregates |-> FALSE, nested |-> FALSE, mentions |-> {}]

Ref(name, alias) == [name |-> name, alias |-> alias, schema |-> None]
Column(qualifier, name) == [qualifier |-> qualifier, name |-> name]
Text(statements) ==
    [reads |-> "ok", statements |-> statements, dialect |-> "postgres", backtick |-> FALSE]
Unreadable(how) == [Text(<<>>) EXCEPT !.reads = how]
Blank == Unreadable("blank")

----------------------------------------------------------------------------
(* The helpers of sql_validation.parser.                                   *)

local_scope_names(s) == s.ctes \cup s.derived

\* Later tables override earlier ones of the same alias.
build_alias_map(s) ==
    LET named(r) == IF r.alias # None THEN r.alias ELSE r.name
        names == {named(s.tables[i]) : i \in DOMAIN s.tables}
        last(n) == CHOOSE i \in DOMAIN s.tables :
                     /\ named(s.tables[i]) = n
                     /\ \A j \in DOMAIN s.tables : named(s.tables[j]) = n => j <= i
    IN  [n \in names \cup s.derived |-> IF n \in s.derived THEN n ELSE s.tables[last(n)].name]

\* The left table of a join is that of any other qualifier of its condition:
\* next(iter(...)) of a set of strings, which the process's hash seed orders.
left_table(s, join, order) ==
    LET others == {c.qualifier : c \in join.on} \ {None, join.alias}
        first == CHOOSE q \in others : \A p \in others : order[q] <= order[p]
    IN  IF others = {} \/ first \notin DOMAIN build_alias_map(s) THEN None
        ELSE build_alias_map(s)[first]

column_exists(t, name) == t \in ExtractTables /\ name \in ColumnNames[t]

Repeats(names) == \E i, j \in DOMAIN names : i # j /\ names[i] = names[j] /\ names[i] # None
Aliases(refs) == [i \in DOMAIN refs |-> refs[i].alias]
If(condition, code) == IF condition THEN {code} ELSE {}

----------------------------------------------------------------------------
(* The ten validators: the codes of the errors each reports, and of the    *)
(* warnings where it has any.                                              *)

SyntaxValidator(s) == If(s.kind # "select", "unsupported_statement_type")

Foreign(s) == {r \in ToSet(s.tables) : r.name \notin local_scope_names(s)}

SchemaValidator(s) ==
    LET map == build_alias_map(s)
        bad(c) == /\ c.qualifier \in DOMAIN map \ local_scope_names(s)
                  /\ map[c.qualifier] \in ExtractTables
                  /\ ~column_exists(map[c.qualifier], c.name)
    IN  If(\E r \in Foreign(s) : r.schema \notin {None, "public"}, "unknown_schema")
        \cup If(\E r \in Foreign(s) : r.name \notin ExtractTables, "unknown_table")
        \cup If(\E c \in s.columns : bad(c), "unknown_column")

TableValidator(s) ==
    LET plain == [i \in DOMAIN s.tables |->
                    IF s.tables[i].alias = None THEN s.tables[i].name ELSE None]
    IN  If(\E r \in Foreign(s) : r.name \notin ExtractTables, "unknown_table")
        \cup If(Repeats(Aliases(s.tables)), "duplicate_table_alias")
        \cup If(Repeats(plain), "ambiguous_table_reference")

OutputAliases(s) == IF s.kind = "select" THEN Aliases(s.outputs) ELSE <<>>

ColumnValidator(s) ==
    LET map == build_alias_map(s)
        scope == {map[q] : q \in DOMAIN map} \ local_scope_names(s)
        owners(c) == {t \in scope : column_exists(t, c.name)}
        bare == {c \in s.columns : c.qualifier = None /\ c.name \notin ToSet(OutputAliases(s))}
        qualified == {c \in s.columns : c.qualifier \in DOMAIN map}
    IN  If(\E c \in s.columns : c.qualifier \notin DOMAIN map \cup {None}, "invalid_qualification")
        \cup If(\/ \E c \in bare : owners(c) = {}
                \/ \E c \in qualified : /\ map[c.qualifier] \notin local_scope_names(s)
                                        /\ ~column_exists(map[c.qualifier], c.name),
                "unknown_column")
        \cup If(\E c \in bare : Cardinality(owners(c)) > 1, "ambiguous_column")

\* The joins it can judge: both sides are tables of the schema.
Judged(s, order) ==
    {j \in ToSet(s.joins) : /\ j.type # "CROSS"
                            /\ {left_table(s, j, order), j.right} \subseteq ExtractTables}

Related(a, b) == \E r \in edges_from(a) \cup edges_from(b) : {r.source, r.target} = {a, b}

JoinValidator(s, order) ==
    If(\E j \in Judged(s, order) : ~Related(left_table(s, j, order), j.right),
       "unknown_join_relationship")

JoinWarnings(s, order) ==
    LET matches(j, l) == \E r \in edges_from(l) \cup edges_from(j.right) :
                            /\ r.target \in {l, j.right}
                            /\ edge_columns(r) \cap {c.name : c \in j.on} # {}
    IN  If(\E j \in Judged(s, order) :
              LET l == left_table(s, j, order)
              IN  Related(l, j.right) /\ j.on # {} /\ ~matches(j, l),
           "join_columns_do_not_match_relationship")

APPROVED_FUNCTIONS == {"COUNT", "SUM", "AVG", "MIN", "MAX", "ROUND", "COALESCE", "CASE",
                       "LOWER", "UPPER", "DATE_TRUNC"}

FunctionValidator(s) == If(~(s.functions \subseteq APPROVED_FUNCTIONS), "unsupported_function")

AggregateValidator(s) ==
    LET grouped == s.group # None \/ s.aggregates
        loose(o) == /\ ~o.aggregate /\ ~o.literal
                    /\ s.group = None \/ o.text \notin s.group
    IN  If(s.kind = "select" /\ grouped /\ \E i \in DOMAIN s.outputs : loose(s.outputs[i]),
           "missing_group_by")
        \cup If(s.kind = "select" /\ s.nested, "nested_aggregate")

AggregateWarnings(s) ==
    If(s.kind = "select" /\ s.having /\ s.group = None /\ ~s.aggregates,
       "having_without_aggregation")

AliasValidator(s) ==
    If(Repeats(Aliases(s.tables)) \/ Repeats(OutputAliases(s)), "duplicate_alias")
    \cup If(\E c \in s.columns : c.qualifier \notin DOMAIN build_alias_map(s) \cup {None},
            "unknown_alias")

\* A heuristic over the text, so only ever a warning.
BusinessRuleValidator(s) ==
    LET map == build_alias_map(s)
        objects == {r.name : r \in ToSet(s.tables)}
                   \cup {<<map[c.qualifier], c.name>> :
                           c \in {c \in s.columns : c.qualifier \in DOMAIN map}}
    IN  If(\E m \in s.mentions \cap DOMAIN Metrics : Metrics[m] # {} /\ Metrics[m] \cap objects = {},
           "business_metric_schema_mismatch")

DialectValidator(text) ==
    If(text.dialect # "postgres", "unsupported_dialect")
    \cup If(text.backtick, "unsupported_dialect_construct")

----------------------------------------------------------------------------
(* SQLValidationEngine.validate.                                           *)

\* Only a ParseError becomes an issue; a text that cannot be tokenized raises
\* through the engine.
ValidationRaises(text) == text.reads = "token_error"

Errors(text, order) ==
    IF text.reads = "parse_error" \/ text.statements = <<>> THEN {"sql_syntax_error"}
    ELSE LET s == Head(text.statements)
         IN  SyntaxValidator(s) \cup SchemaValidator(s) \cup TableValidator(s)
             \cup ColumnValidator(s) \cup JoinValidator(s, order) \cup FunctionValidator(s)
             \cup AggregateValidator(s) \cup AliasValidator(s) \cup DialectValidator(text)

Warnings(text, order) ==
    IF text.reads = "parse_error" \/ text.statements = <<>> THEN {}
    ELSE LET s == Head(text.statements)
         IN  JoinWarnings(s, order) \cup AggregateWarnings(s) \cup BusinessRuleValidator(s)

Validate(text, order) ==
    [is_valid |-> Errors(text, order) = {},
     errors |-> Errors(text, order), warnings |-> Warnings(text, order)]

----------------------------------------------------------------------------
(* ExecutionGuard.check: the permit the executor needs.                    *)

\* sqlglot's errors are not caught here.
GuardRaises(text, is_valid) == is_valid /\ text.reads \in {"parse_error", "token_error"}

\* The node types looked for anywhere in the tree.
WRITE_NODE_TYPES == {"Insert", "Update", "Delete", "Merge", "Create", "Alter", "Drop",
                     "TruncateTable", "Copy"}

\* What PostgreSQL does not run in a read-only transaction (external):
\* statements that are no queries, and queries that change rows or make tables.
Writes(s) ==
    \/ s.kind # "select"
    \/ s.nodes \cap {"Insert", "Update", "Delete", "Merge", "Create", "Alter", "Drop",
                     "TruncateTable", "Copy", "Into"} # {}

\* Mutant: only the first statement is looked at, as in the validators.
check_first(text, is_valid) ==
    /\ is_valid
    /\ text.statements # <<>>
    /\ Head(text.statements).kind = "select"
    /\ Head(text.statements).nodes \cap WRITE_NODE_TYPES = {}
check(text, is_valid) ==
    /\ is_valid
    /\ Len(text.statements) = 1
    /\ text.statements[1].kind = "select"
    /\ text.statements[1].nodes \cap WRITE_NODE_TYPES = {}
=============================================================================
