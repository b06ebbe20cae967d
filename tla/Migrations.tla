----------------------------- MODULE Migrations -----------------------------
(***************************************************************************)
(* The Alembic revisions and alembic/env.py: a chain of seven revisions,   *)
(* each an upgrade and a downgrade made of DDL operations, run in ONE      *)
(* transaction per command (env.py opens begin_transaction around          *)
(* run_migrations).  What PostgreSQL accepts is modelled by Accepts and    *)
(* Apply.  Of the rows only one thing matters to DDL: whether orders hold  *)
(* promotion ids and whether the promotions they name still exist.         *)
(***************************************************************************)
EXTENDS Schema, Sequences, SequencesExt, Integers

VARIABLES
    schema,      \* table name -> Table, the database's catalogue
    version,     \* row of alembic_version: number of revisions applied
    refs,        \* orders.promotion_id values: "none", "live" or "dangling"
    txn,         \* the running command, or NoTxn
    failed       \* operations PostgreSQL has refused so far

vars == <<schema, version, refs, txn, failed>>

\* The empty catalogue.
NoTables == [t \in {} |-> Order]

-----------------------------------------------------------------------------
\* Operations, as op.create_table, op.create_index, ... record them.
CreateTable(t, def)       == [op |-> "create_table", table |-> t, arg |-> def]
DropTable(t)              == [op |-> "drop_table", table |-> t, arg |-> {}]
CreateIndexes(t, names)   == [op |-> "create_index", table |-> t, arg |-> names]
DropIndexes(t, names)     == [op |-> "drop_index", table |-> t, arg |-> names]
CreateForeignKey(t, fk)   == [op |-> "create_foreign_key", table |-> t, arg |-> fk]
DropForeignKey(t, column) == [op |-> "drop_constraint", table |-> t, arg |-> column]
AddColumn(t, check)       == [op |-> "add_column", table |-> t, arg |-> check]
DropColumn(t, check)      == [op |-> "drop_column", table |-> t, arg |-> check]

\* A table dropped together with the indexes its revision created.
DropWithIndexes(t, names) == <<DropIndexes(t, names), DropTable(t)>>

Create_customers == <<
    CreateTable("customers", Table({}, {"customer_number", "email"},
                                   {"customer_segment_valid_values"}, {})),
    CreateIndexes("customers", {"customer_segment", "is_active", "signup_date"}) >>

Create_product_categories == <<
    CreateTable("product_categories",
        Table({FK("parent_category_id", "product_categories", "RESTRICT")},
              {"parent_category_id_category_name"}, {}, {})),
    CreateIndexes("product_categories", {"category_name", "parent_category_id"}) >>

Create_suppliers == <<
    CreateTable("suppliers", Table({}, {"supplier_code"},
                                   {"lead_time_days_non_negative", "rating_in_range"}, {})),
    CreateIndexes("suppliers", {"country_code", "is_active", "supplier_name"}) >>

Create_customer_addresses == <<
    CreateTable("customer_addresses",
        Table({FK("customer_id", "customers", "CASCADE")}, {},
              {"address_type_valid_values"}, {})),
    CreateIndexes("customer_addresses", {"country_code", "customer_id", "one_default_per_type"}) >>

Create_products == <<
    CreateTable("products",
        Table({FK("category_id", "product_categories", "RESTRICT"),
               FK("supplier_id", "suppliers", "RESTRICT")}, {"sku"},
              {"cost_price_non_negative", "unit_price_non_negative"}, {})),
    CreateIndexes("products",
        {"category_id", "is_active", "launch_date", "product_name", "supplier_id"}) >>

Upgrade1df7 ==
    Create_customers \o Create_product_categories \o Create_suppliers
    \o Create_customer_addresses \o Create_products

Downgrade1df7 ==
    DropWithIndexes("products",
        {"supplier_id", "product_name", "launch_date", "is_active", "category_id"})
    \o DropWithIndexes("customer_addresses",
                       {"one_default_per_type", "customer_id", "country_code"})
    \o DropWithIndexes("suppliers", {"supplier_name", "is_active", "country_code"})
    \o DropWithIndexes("product_categories", {"parent_category_id", "category_name"})
    \o DropWithIndexes("customers", {"signup_date", "is_active", "customer_segment"})

Create_warehouses == <<
    CreateTable("warehouses", Table({}, {"warehouse_code"}, {}, {})),
    CreateIndexes("warehouses", {"country_code"}) >>

\* orders.promotion_id is a plain column here: promotions does not exist yet.
Create_orders == <<
    CreateTable("orders",
        Table({FK("customer_id", "customers", "RESTRICT")}, {"order_number"},
              {"order_status_valid_values", "sales_channel_valid_values",
               "discount_amount_non_negative", "shipping_amount_non_negative",
               "subtotal_amount_non_negative", "tax_amount_non_negative",
               "total_amount_non_negative"}, {})),
    CreateIndexes("orders", {"customer_id", "customer_id_order_date", "order_date",
                             "order_status", "promotion_id", "sales_channel"}) >>

Create_inventory == <<
    CreateTable("inventory",
        Table({FK("product_id", "products", "RESTRICT"),
               FK("warehouse_id", "warehouses", "RESTRICT")}, {"product_id_warehouse_id"},
              {"quantity_on_hand_non_negative", "reorder_level_non_negative"}, {})),
    CreateIndexes("inventory", {"product_id", "quantity_on_hand", "warehouse_id"}) >>

Create_order_items == <<
    CreateTable("order_items",
        Table({FK("order_id", "orders", "RESTRICT"), FK("product_id", "products", "RESTRICT")},
              {"order_id_product_id"},
              {"discount_amount_non_negative", "line_total_non_negative",
               "quantity_positive", "unit_price_non_negative"}, {})),
    CreateIndexes("order_items", {"order_id", "product_id", "product_id_order_id"}) >>

UpgradeD4ec ==
    Create_warehouses \o Create_orders \o Create_inventory
    \o Create_order_items

DowngradeD4ec ==
    DropWithIndexes("order_items", {"product_id_order_id", "product_id", "order_id"})
    \o DropWithIndexes("inventory", {"warehouse_id", "quantity_on_hand", "product_id"})
    \o DropWithIndexes("orders", {"sales_channel", "promotion_id", "order_status",
                                  "order_date", "customer_id_order_date", "customer_id"})
    \o DropWithIndexes("warehouses", {"country_code"})

Create_promotions == <<
    CreateTable("promotions", Table({}, {"promotion_code"},
        {"discount_type_valid_values", "discount_value_non_negative",
         "ends_at_after_starts_at"}, {})),
    CreateIndexes("promotions", {"is_active", "starts_at_ends_at"}) >>

Create_payments == <<
    CreateTable("payments",
        Table({FK("order_id", "orders", "RESTRICT")}, {"transaction_reference"},
              {"payment_method_valid_values", "payment_status_valid_values",
               "amount_non_negative"}, {})),
    CreateIndexes("payments", {"order_id", "paid_at", "payment_status"}) >>

Create_shipments == <<
    CreateTable("shipments",
        Table({FK("order_id", "orders", "RESTRICT"),
               FK("warehouse_id", "warehouses", "RESTRICT")}, {"tracking_number"},
              {"shipment_status_valid_values"}, {})),
    CreateIndexes("shipments", {"order_id", "shipment_status", "shipped_at", "warehouse_id"}) >>

Create_product_reviews == <<
    CreateTable("product_reviews",
        Table({FK("customer_id", "customers", "RESTRICT"),
               FK("order_item_id", "order_items", "SET NULL"),
               FK("product_id", "products", "RESTRICT")},
              {"order_item_id"}, {"rating_in_range"}, {})),
    CreateIndexes("product_reviews",
        {"customer_id", "product_id", "product_id_rating", "rating", "review_date"}) >>

Create_returns == <<
    CreateTable("returns",
        Table({FK("order_item_id", "order_items", "RESTRICT")}, {},
              {"return_reason_valid_values", "return_status_valid_values",
               "quantity_returned_positive", "refund_amount_non_negative"}, {})),
    CreateIndexes("returns", {"order_item_id", "requested_at", "return_status"}) >>

Upgrade071f ==
    Create_promotions \o Create_payments \o Create_shipments
    \o Create_product_reviews \o Create_returns
    \o <<CreateForeignKey("orders", FK("promotion_id", "promotions", "RESTRICT"))>>

\* Mutant: promotions is dropped while orders still refers to it.
Downgrade071fKeepsForeignKey ==
    DropWithIndexes("returns", {"return_status", "requested_at", "order_item_id"})
    \o DropWithIndexes("product_reviews", {"review_date", "rating", "product_id_rating",
                                           "product_id", "customer_id"})
    \o DropWithIndexes("shipments", {"warehouse_id", "shipped_at", "shipment_status", "order_id"})
    \o DropWithIndexes("payments", {"payment_status", "paid_at", "order_id"})
    \o DropWithIndexes("promotions", {"starts_at_ends_at", "is_active"})

Downgrade071f ==
    <<DropForeignKey("orders", "promotion_id")>>
    \o DropWithIndexes("returns", {"return_status", "requested_at", "order_item_id"})
    \o DropWithIndexes("product_reviews", {"review_date", "rating", "product_id_rating",
                                           "product_id", "customer_id"})
    \o DropWithIndexes("shipments", {"warehouse_id", "shipped_at", "shipment_status", "order_id"})
    \o DropWithIndexes("payments", {"payment_status", "paid_at", "order_id"})
    \o DropWithIndexes("promotions", {"starts_at_ends_at", "is_active"})

Create_users == <<
    CreateTable("users", Table({}, {"username", "email"}, {}, {})) >>

Create_refresh_tokens == <<
    CreateTable("refresh_tokens", Table({FK("user_id", "users", "CASCADE")}, {"jti"}, {}, {})) >>

Upgrade3daf ==
    Create_users \o Create_refresh_tokens

Downgrade3daf == <<DropTable("refresh_tokens"), DropTable("users")>>

\* Mutant: the column is added without its CHECK constraint.
UpgradeF76bNoCheck == <<AddColumn("users", {})>>

UpgradeF76b == <<AddColumn("users", {"user_role_valid_values"})>>

DowngradeF76b == <<DropColumn("users", {"user_role_valid_values"})>>

Upgrade5e83 == <<CreateTable("api_keys",
                     Table({FK("user_id", "users", "CASCADE")}, {"key_hash"}, {}, {}))>>

Downgrade5e83 == <<DropTable("api_keys")>>

Upgrade0846 == <<
    CreateTable("audit_log", Table({FK("actor_user_id", "users", "SET NULL")}, {}, {}, {})),
    CreateIndexes("audit_log", {"created_at", "event_type"}) >>

\* Mutant: the indexes are dropped and the table is forgotten.
Downgrade0846NoDrop == <<DropIndexes("audit_log", {"event_type", "created_at"})>>

Downgrade0846 == DropWithIndexes("audit_log", {"event_type", "created_at"})

\* The chain down_revision spells out, oldest first.
Revisions == <<
    [up |-> Upgrade1df7, down |-> Downgrade1df7], [up |-> UpgradeD4ec, down |-> DowngradeD4ec],
    [up |-> Upgrade071f, down |-> Downgrade071f], [up |-> Upgrade3daf, down |-> Downgrade3daf],
    [up |-> UpgradeF76b, down |-> DowngradeF76b], [up |-> Upgrade5e83, down |-> Downgrade5e83],
    [up |-> Upgrade0846, down |-> Downgrade0846] >>

HeadRevision == Len(Revisions)

-----------------------------------------------------------------------------
(***************************************************************************)
(* PostgreSQL.  A foreign key needs its target, a dropped table must have  *)
(* no foreign key of another table pointing at it, and a foreign key added *)
(* to existing rows is checked against them.                               *)
(***************************************************************************)
Accepts(s, r, o) ==
    CASE o.op = "create_table" -> /\ o.table \notin DOMAIN s
                                  /\ \A k \in o.arg.fks : k.target \in DOMAIN s \union {o.table}
      [] o.op = "drop_table" -> /\ o.table \in DOMAIN s
                                /\ \A t \in DOMAIN s \ {o.table} :
                                      \A k \in s[t].fks : k.target # o.table
      [] o.op = "create_index" -> o.table \in DOMAIN s /\ o.arg \intersect s[o.table].idx = {}
      [] o.op = "drop_index" -> o.table \in DOMAIN s /\ o.arg \subseteq s[o.table].idx
      [] o.op = "create_foreign_key" -> /\ {o.table, o.arg.target} \subseteq DOMAIN s
                                        /\ r # "dangling"
      [] o.op = "drop_constraint" -> \E k \in s[o.table].fks : k.column = o.arg
      [] o.op = "add_column" -> o.arg \intersect s[o.table].ck = {}
      [] o.op = "drop_column" -> o.arg \subseteq s[o.table].ck

Apply(s, o) ==
    CASE o.op = "create_table" -> [t \in DOMAIN s \union {o.table} |->
                                      IF t = o.table THEN o.arg ELSE s[t]]
      [] o.op = "drop_table" -> [t \in DOMAIN s \ {o.table} |-> s[t]]
      [] o.op = "create_index" -> [s EXCEPT ![o.table].idx = @ \union o.arg]
      [] o.op = "drop_index" -> [s EXCEPT ![o.table].idx = @ \ o.arg]
      [] o.op = "create_foreign_key" -> [s EXCEPT ![o.table].fks = @ \union {o.arg}]
      [] o.op = "drop_constraint" -> [s EXCEPT ![o.table].fks = {k \in @ : k.column # o.arg}]
      [] o.op = "add_column" -> [s EXCEPT ![o.table].ck = @ \union o.arg]
      [] o.op = "drop_column" -> [s EXCEPT ![o.table].ck = @ \ o.arg]

\* What an operation does to the promotion ids the orders hold.
ApplyRefs(r, o) ==
    CASE o.op = "drop_table" /\ o.table = "promotions" -> IF r = "live" THEN "dangling" ELSE r
      [] o.op = "drop_table" /\ o.table = "orders" -> "none"
      [] OTHER -> r

-----------------------------------------------------------------------------
NoTxn == [ops |-> <<>>, target |-> -1]

Idle == txn = NoTxn

Init ==
    /\ schema = NoTables
    /\ version = 0
    /\ refs = "none"
    /\ txn = NoTxn
    /\ failed = {}

\* The operations that lead from revision `from` to revision `to`.
Path(from, to) ==
    IF from < to
    THEN FlattenSeq([i \in 1 .. to - from |-> Revisions[from + i].up])
    ELSE FlattenSeq([i \in 1 .. from - to |-> Revisions[from + 1 - i].down])

\* alembic upgrade <rev> / alembic downgrade <rev>: the transaction works on
\* its own copy of catalogue and rows until it commits.
Command(to) ==
    /\ Idle
    /\ to # version
    /\ txn' = [ops |-> Path(version, to), target |-> to, schema |-> schema, refs |-> refs]
    /\ UNCHANGED <<schema, version, refs, failed>>

RunOp ==
    /\ ~Idle /\ txn.ops # <<>>
    /\ LET o == Head(txn.ops) IN
         IF Accepts(txn.schema, txn.refs, o)
         THEN /\ txn' = [txn EXCEPT !.ops = Tail(@), !.schema = Apply(@, o),
                                    !.refs = ApplyRefs(@, o)]
              /\ UNCHANGED failed
         ELSE /\ txn' = NoTxn            \* rolled back; the command exits with the error
              /\ failed' = failed \union {[op |-> o.op, table |-> o.table]}
    /\ UNCHANGED <<schema, version, refs>>

Commit ==
    /\ ~Idle /\ txn.ops = <<>>
    /\ schema' = txn.schema /\ refs' = txn.refs /\ version' = txn.target
    /\ txn' = NoTxn
    /\ UNCHANGED failed

\* The process dies, or the connection is lost: PostgreSQL rolls back.
Crash ==
    /\ ~Idle
    /\ txn' = NoTxn
    /\ UNCHANGED <<schema, version, refs, failed>>

\* scripts/seed_database.py fills the business tables; some orders use a promotion.
Seed ==
    /\ Idle /\ refs = "none"
    /\ DOMAIN BaseMetadata \subseteq DOMAIN schema
    /\ refs' = "live"
    /\ UNCHANGED <<schema, version, txn, failed>>

Next ==
    \/ \E to \in 0 .. Len(Revisions) : Command(to)
    \/ RunOp \/ Commit \/ Crash \/ Seed

Spec == Init /\ [][Next]_vars
-----------------------------------------------------------------------------
\* The catalogue an upgrade of an empty database to revision v leaves.
FreshAt[v \in 0 .. HeadRevision] ==
    IF v = 0 THEN NoTables ELSE FoldLeft(Apply, FreshAt[v - 1], Revisions[v].up)

(***************************************************************************)
(* Every downgrade undoes its upgrade exactly: whatever commands, crashes  *)
(* and refused operations came before, a database stamped with a revision  *)
(* has the catalogue a fresh database upgraded to that revision has.       *)
(***************************************************************************)
StampTellsSchema == Idle => schema = FreshAt[version]

(***************************************************************************)
(* The database at the head revision is what the ORM classes declare, in   *)
(* Base.metadata and in AuthBase.metadata, which env.py's autogenerate     *)
(* never compares: constraints, indexes and ON DELETE rules agree.         *)
(***************************************************************************)
HeadIsTheModels == Idle /\ version = HeadRevision => schema = ModelTables

(***************************************************************************)
(* The order of the operations is right in both directions: PostgreSQL     *)
(* never refuses one, but for batch 3's foreign key of orders, and that    *)
(* only because orders kept the ids of promotions an earlier downgrade     *)
(* dropped.  Such a database is pinned to batch 2, its upgrade refused,    *)
(* until the orders themselves are dropped.                                *)
(***************************************************************************)
OnlyOldPromotionIdsRefused ==
    /\ failed \subseteq {[op |-> "create_foreign_key", table |-> "orders"]}
    /\ refs = "dangling" => version = 2
=============================================================================
