----------------------------- MODULE MCService -----------------------------
(***************************************************************************)
(* A small instance of Service: an analyst with an API key, a viewer and   *)
(* an administrator; texts that read, join, write, hide a write behind a   *)
(* SELECT or in its INTO, or cannot be read.  One client may send          *)
(* anything; the other what can get in its way: it revokes the key, uses   *)
(* it, makes another.                                                      *)
(***************************************************************************)
EXTENDS Service, TLC

CONSTANTS r1, r2

MCColumnNames ==
    [t \in ExtractTables |->
        CASE t = "customers" -> {"customer_id", "email"}
          [] t = "orders" -> {"order_id", "customer_id", "total_amount"}
          [] t = "order_items" -> {"order_id", "order_item_id", "product_id", "quantity"}
          [] OTHER -> {}]

MCMetrics == [revenue |-> {"payments"}]

MCRole == [ann |-> "analyst", vic |-> "viewer", adm |-> "admin"]
MCFirstKeys == [k1 |-> "ann"]

Output(text) == [alias |-> None, text |-> text, aggregate |-> FALSE, literal |-> FALSE]

Reads == [Select(<<Ref("customers", None)>>) EXCEPT
            !.columns = {Column(None, "email")}, !.outputs = <<Output("email")>>]
Deletes == [Select(<<Ref("customers", None)>>) EXCEPT !.kind = "delete", !.nodes = {"Delete"}]

Join(right, alias, on) == [type |-> "INNER", right |-> right, alias |-> alias, on |-> on]

\* SELECT i.quantity FROM customers c JOIN orders o ON ...
\*   JOIN order_items i ON o.order_id = i.order_id AND c.customer_id = o.customer_id
ThreeTables ==
    [Select(<<Ref("customers", "c"), Ref("orders", "o"), Ref("order_items", "i")>>) EXCEPT
        !.columns = {Column("i", "quantity"), Column("o", "order_id"), Column("i", "order_id"),
                     Column("c", "customer_id"), Column("o", "customer_id")},
        !.outputs = <<Output("i.quantity")>>,
        !.joins = <<Join("orders", "o", {Column("c", "customer_id"), Column("o", "customer_id")}),
                    Join("order_items", "i", {Column("o", "order_id"), Column("i", "order_id"),
                                              Column("c", "customer_id"), Column("o", "customer_id")})>>]

MCTexts ==
    [good |-> Text(<<Reads>>),
     total |-> Text(<<[Reads EXCEPT !.outputs = <<[Output("count(*)") EXCEPT !.aggregate = TRUE]>>,
                                    !.columns = {}, !.functions = {"COUNT"}, !.aggregates = TRUE,
                                    !.mentions = {"revenue"}]>>),
     joined |-> Text(<<ThreeTables>>),
     wrong |-> Text(<<[Reads EXCEPT !.columns = {Column(None, "phone")}]>>),
     two |-> Text(<<Reads, Deletes>>),
     cte |-> Text(<<[Reads EXCEPT !.nodes = {"Delete"}]>>),
     into |-> Text(<<[Reads EXCEPT !.nodes = {"Into"},
                                   !.tables = <<Ref("archive", None), Ref("customers", None)>>]>>),
     blank |-> Blank, garbled |-> Unreadable("parse_error"), open |-> Unreadable("token_error")]

Content(sql_block, block, raw) == [sql_block |-> sql_block, block |-> block, raw |-> raw]

Asks(key, content) == [Plan("query", key, "ann") EXCEPT !.content = content]
BearerAnn(route) == Plan(route, None, "ann")

Anything ==
    {Asks("k1", Content("good", None, "wrong")), Asks(None, Content(None, "two", "good")),
     Asks(None, Content(None, None, "joined")), Asks(None, Content("wrong", "good", "good")),
     Asks(None, Content("blank", None, "good")), Asks(None, Content(None, None, "open")),
     [Asks(None, None) EXCEPT !.question = "unanswered"],
     [BearerAnn("sql") EXCEPT !.question = "empty"],
     [BearerAnn("sql") EXCEPT !.content = Content("blank", None, "good")],
     [BearerAnn("sql") EXCEPT !.content = Content("total", None, "good")],
     [BearerAnn("validate") EXCEPT !.text = "open"],
     [BearerAnn("validate") EXCEPT !.text = "wrong"],
     [BearerAnn("repair") EXCEPT !.question = "empty"], BearerAnn("repair"),
     [BearerAnn("execute") EXCEPT !.text = "cte", !.claim = TRUE],
     [BearerAnn("execute") EXCEPT !.text = "into", !.claim = TRUE],
     [BearerAnn("execute") EXCEPT !.text = "garbled", !.claim = TRUE],
     [BearerAnn("execute") EXCEPT !.text = "total", !.claim = TRUE],
     BearerAnn("format"), [BearerAnn("format") EXCEPT !.claim = TRUE],
     [Asks(None, Content("good", None, "good")) EXCEPT !.bearer = "vic"], Plan("health", "k1", "bad"), Plan("me", "malformed", None),
     Plan("me", "k2", "ann"), Plan("diagnostics", None, "adm"), Plan("metrics", "k1", None),
     Plan("create_api_key", "k1", "vic"), Plan("create_api_key", "k1", None),
     BearerAnn("list_api_keys"), Plan("settings", None, "bad"), Plan("me", None, "gone"),
     [BearerAnn("revoke_api_key") EXCEPT !.target = "k1"],
     [Plan("revoke_api_key", None, "vic") EXCEPT !.target = "k1"],
     [Plan("revoke_api_key", None, "adm") EXCEPT !.target = "k2"],
     Plan("live", None, None), Plan("ready", None, None)}

Interfering ==
    {[BearerAnn("revoke_api_key") EXCEPT !.target = "k1"], Asks("k1", Content("good", None, "wrong")),
     Plan("create_api_key", None, "vic")}

MCPlans == (r1 :> Anything) @@ (r2 :> Interfering)

MCRepairs == {"good", "two"}
MCOrders == {[q \in {"c", "o", "i"} |-> CASE q = "c" -> x [] q = "o" -> 2 [] q = "i" -> 3] :
               x \in {1, 4}}
=============================================================================
