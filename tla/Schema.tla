------------------------------- MODULE Schema -------------------------------
(***************************************************************************)
(* The schema the ORM models declare: what each mapped class says about    *)
(* its table's foreign keys (column, referred table, ON DELETE rule),      *)
(* unique constraints, CHECK constraints and indexes.  Column types,       *)
(* defaults and relationship() attributes are left out.  Names follow the  *)
(* naming convention of querymind.db.base with the table's prefix removed  *)
(* (ix_orders_order_date is "order_date" of "orders").                     *)
(***************************************************************************)

\* One table: constraints and indexes by name, as NAMING_CONVENTION makes them.
Table(fks, uq, ck, idx) == [fks |-> fks, uq |-> uq, ck |-> ck, idx |-> idx]
FK(column, target, onDelete) == [column |-> column, target |-> target, onDelete |-> onDelete]

Customer == Table({}, {"customer_number", "email"}, {"customer_segment_valid_values"},
                  {"signup_date", "customer_segment", "is_active"})

CustomerAddress ==
    Table({FK("customer_id", "customers", "CASCADE")},
          {}, {"address_type_valid_values"},
          {"customer_id", "country_code",
           "one_default_per_type"})       \* unique, partial: WHERE is_default = true

Supplier == Table({}, {"supplier_code"}, {"lead_time_days_non_negative", "rating_in_range"},
                  {"supplier_name", "country_code", "is_active"})

ProductCategory ==
    Table({FK("parent_category_id", "product_categories", "RESTRICT")},
          {"parent_category_id_category_name"}, {},
          {"parent_category_id", "category_name"})

Product ==
    Table({FK("category_id", "product_categories", "RESTRICT"),
           FK("supplier_id", "suppliers", "RESTRICT")},
          {"sku"}, {"unit_price_non_negative", "cost_price_non_negative"},
          {"category_id", "supplier_id", "product_name", "is_active", "launch_date"})

Warehouse == Table({}, {"warehouse_code"}, {}, {"country_code"})

Inventory ==
    Table({FK("product_id", "products", "RESTRICT"),
           FK("warehouse_id", "warehouses", "RESTRICT")},
          {"product_id_warehouse_id"},
          {"quantity_on_hand_non_negative", "reorder_level_non_negative"},
          {"product_id", "warehouse_id", "quantity_on_hand"})

Promotion ==
    Table({}, {"promotion_code"},
          {"discount_type_valid_values", "discount_value_non_negative",
           "ends_at_after_starts_at"},
          {"starts_at_ends_at", "is_active"})

Order ==
    Table({FK("customer_id", "customers", "RESTRICT"),
           FK("promotion_id", "promotions", "RESTRICT")},      \* nullable
          {"order_number"},
          {"order_status_valid_values", "sales_channel_valid_values",
           "subtotal_amount_non_negative", "discount_amount_non_negative",
           "tax_amount_non_negative", "shipping_amount_non_negative",
           "total_amount_non_negative"},
          {"customer_id", "order_date", "order_status", "sales_channel",
           "customer_id_order_date", "promotion_id"})

OrderItem ==
    Table({FK("order_id", "orders", "RESTRICT"), FK("product_id", "products", "RESTRICT")},
          {"order_id_product_id"},
          {"quantity_positive", "unit_price_non_negative",
           "discount_amount_non_negative", "line_total_non_negative"},
          {"order_id", "product_id", "product_id_order_id"})

Payment ==
    Table({FK("order_id", "orders", "RESTRICT")}, {"transaction_reference"},
          {"payment_method_valid_values", "payment_status_valid_values",
           "amount_non_negative"},
          {"order_id", "payment_status", "paid_at"})

Shipment ==
    Table({FK("order_id", "orders", "RESTRICT"), FK("warehouse_id", "warehouses", "RESTRICT")},
          {"tracking_number"}, {"shipment_status_valid_values"},
          {"order_id", "warehouse_id", "shipment_status", "shipped_at"})

ProductReview ==
    Table({FK("product_id", "products", "RESTRICT"),
           FK("customer_id", "customers", "RESTRICT"),
           FK("order_item_id", "order_items", "SET NULL")},
          {"order_item_id"}, {"rating_in_range"},
          {"product_id", "customer_id", "rating", "review_date", "product_id_rating"})

Return ==
    Table({FK("order_item_id", "order_items", "RESTRICT")}, {},
          {"return_reason_valid_values", "return_status_valid_values",
           "quantity_returned_positive", "refund_amount_non_negative"},
          {"order_item_id", "return_status", "requested_at"})

User == Table({}, {"username", "email"}, {"user_role_valid_values"}, {})

RefreshToken == Table({FK("user_id", "users", "CASCADE")}, {"jti"}, {}, {})

ApiKey == Table({FK("user_id", "users", "CASCADE")}, {"key_hash"}, {}, {})

AuditLog == Table({FK("actor_user_id", "users", "SET NULL")}, {}, {},
                  {"event_type", "created_at"})

(***************************************************************************)
(* Base.metadata holds the business tables, AuthBase.metadata the          *)
(* account tables: two registries over one database.                       *)
(***************************************************************************)
BaseMetadata ==
    [customers |-> Customer, customer_addresses |-> CustomerAddress, suppliers |-> Supplier,
     product_categories |-> ProductCategory, products |-> Product, warehouses |-> Warehouse,
     inventory |-> Inventory, promotions |-> Promotion, orders |-> Order,
     order_items |-> OrderItem, payments |-> Payment, shipments |-> Shipment,
     product_reviews |-> ProductReview, returns |-> Return]

AuthBaseMetadata ==
    [users |-> User, refresh_tokens |-> RefreshToken, api_keys |-> ApiKey,
     audit_log |-> AuditLog]

ModelTables == [t \in DOMAIN BaseMetadata \union DOMAIN AuthBaseMetadata |->
                  IF t \in DOMAIN BaseMetadata THEN BaseMetadata[t] ELSE AuthBaseMetadata[t]]
=============================================================================
