------------------------------ MODULE Metadata ------------------------------
(***************************************************************************)
(* The metadata registry (querymind.metadata): the tables of the mapped    *)
(* classes and the graph of their relationships.  Every foreign key has a  *)
(* relationship() on both sides, so the graph has an edge each way.        *)
(***************************************************************************)
EXTENDS Schema

\* One table per mapped class of Base; the account tables are not in its registry.
ExtractTables == DOMAIN BaseMetadata

ExtractRelationships ==
    UNION {{[source |-> t, target |-> k.target, via |-> k.column] : k \in BaseMetadata[t].fks}
           \cup {[source |-> k.target, target |-> t, via |-> k.column] : k \in BaseMetadata[t].fks} :
             t \in ExtractTables}

edges_from(t) == {r \in ExtractRelationships : r.source = t}

\* The columns of an edge: a foreign key is named like the key it refers to,
\* except the parent of a category.
edge_columns(r) == {r.via} \cup (IF r.via = "parent_category_id" THEN {"category_id"} ELSE {})
=============================================================================
