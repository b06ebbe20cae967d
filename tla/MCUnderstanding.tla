-------------------------- MODULE MCUnderstanding --------------------------
(***************************************************************************)
(* A small instance of Understanding: the dictionary's tables and a dozen  *)
(* of its columns, with the ratios difflib gives for their texts; questions *)
(* that meet an exact and an ambiguous concept, a concept looked up as      *)
(* table and as column, joins over several hops, a trimmed prompt, and     *)
(* the two questions that fail to parse.                                   *)
(***************************************************************************)
EXTENDS Understanding

MCNumberOf == [n \in {"0", "5", "100", "200"} |->
                CASE n = "0" -> 0 [] n = "5" -> 5 [] n = "100" -> 100 [] n = "200" -> 200]
MCDateTokens == {"2024"}

Tbl(w, s) == [words |-> w, synonyms |-> s]

MCDictionary ==
    [customers |-> Tbl(<<"customer">>, {<<"client">>, <<"buyer">>}),
     customer_addresses |-> Tbl(<<"customer", "address">>, {<<"address">>}),
     product_categories |-> Tbl(<<"product", "category">>, {<<"category">>, <<"department">>}),
     suppliers |-> Tbl(<<"supplier">>, {<<"vendor">>, <<"manufacturer">>}),
     products |-> Tbl(<<"product">>, {<<"catalog">>, <<"item">>, <<"sku">>}),
     warehouses |-> Tbl(<<"warehouse">>, {<<"fulfillment", "center">>}),
     inventory |-> Tbl(<<"inventory">>, {<<"stock">>, <<"stock", "level">>}),
     orders |-> Tbl(<<"order">>, {<<"purchase">>, <<"sales">>, <<"transaction">>}),
     order_items |-> Tbl(<<"order", "item">>, {<<"line", "item">>, <<"order", "line">>}),
     payments |-> Tbl(<<"payment">>, {<<"transaction">>, <<"charge">>}),
     shipments |-> Tbl(<<"shipment">>, {<<"delivery">>, <<"parcel">>}),
     product_reviews |-> Tbl(<<"product", "review">>, {<<"review">>, <<"rating">>}),
     promotions |-> Tbl(<<"promotion">>, {<<"coupon">>, <<"discount">>, <<"sales">>}),
     returns |-> Tbl(<<"return">>, {<<"refund", "request">>})]

Col(t, n, w, s, k) == [table |-> t, name |-> n, words |-> w, synonyms |-> s, keywords |-> k]

MCColumns ==
    {Col("orders", "order_id", <<"order", "id">>, {}, {<<"order", "id">>}),
     Col("order_items", "order_id", <<"order", "id">>, {}, {<<"order", "id">>}),
     Col("products", "unit_price", <<"unit", "price">>,
         {<<"price">>, <<"list", "price">>}, {<<"unit", "price">>, <<"price">>, <<"list", "price">>}),
     Col("order_items", "unit_price", <<"unit", "price">>, {<<"price", "paid">>}, {<<"unit", "price">>}),
     Col("customer_addresses", "state_province", <<"state", "province">>,
         {<<"state">>, <<"region">>}, {<<"state", "province">>, <<"state">>}),
     Col("customer_addresses", "country_code", <<"country", "code">>, {<<"country">>}, {<<"country">>}),
     Col("suppliers", "country_code", <<"country", "code">>, {}, {<<"country">>}),
     Col("order_items", "quantity", <<"quantity">>, {<<"qty">>}, {<<"quantity">>, <<"qty">>}),
     Col("inventory", "quantity_on_hand", <<"quantity", "on", "hand">>,
         {<<"inventory", "level">>}, {<<"quantity", "on", "hand">>}),
     Col("product_categories", "category_name", <<"category", "name">>,
         {<<"category">>}, {<<"category", "name">>, <<"category">>}),
     Col("product_reviews", "rating", <<"rating">>, {<<"star", "rating">>}, {<<"rating">>}),
     Col("suppliers", "rating", <<"rating">>, {<<"supplier", "rating">>}, {<<"rating">>})}

MCAbbreviations == [id |-> {"identifier"}, qty |-> {"quantity"}]

\* concept, table, column, fuzzy ratio, partial ratio
Measured ==
    {<< <<"order">>, "order_items", NoValue, 0, 4545>>,
     << <<"customer">>, "customer_addresses", NoValue, 0, 4444>>,
     << <<"category">>, "product_categories", NoValue, 7777, 0>>,
     << <<"product">>, "product_categories", NoValue, 0, 4375>>,
     << <<"product">>, "product_reviews", NoValue, 0, 4666>>,
     << <<"price">>, "products", "unit_price", 10000, 10000>>,
     << <<"price">>, "order_items", "unit_price", 0, 5000>>,
     << <<"price">>, "customer_addresses", "state_province", 7692, 0>>,
     << <<"quantity">>, "inventory", "quantity_on_hand", 0, 5000>>,
     << <<"order">>, "orders", "order_id", 7692, 6250>>,
     << <<"order">>, "order_items", "order_id", 7692, 6250>>,
     << <<"order">>, "order_items", "quantity", 0, 3125>>,
     << <<"review", "rating">>, "product_reviews", "rating", 0, 4615>>,
     << <<"review", "rating">>, "suppliers", "rating", 0, 4615>>,
     << <<"product">>, "products", "unit_price", 0, 3684>>,
     << <<"product">>, "product_categories", "category_name", 0, 4375>> }

Concepts == {v[2] : v \in ToSet(ENTITY_SYNONYMS \o DIMENSION_SYNONYMS \o METRIC_SYNONYMS)}

MCResemblance ==
    [c \in Concepts, t \in DOMAIN MCDictionary, k \in {NoValue} \cup {x.name : x \in MCColumns} |->
        LET m == {x \in Measured : x[1] = c /\ x[2] = t /\ x[3] = k}
        IN  IF m = {} THEN [fuzzy |-> 0, partial |-> 0]
            ELSE LET x == CHOOSE x \in m : TRUE IN [fuzzy |-> x[4], partial |-> x[5]]]

MCLibrary ==
    << [id |-> "orders_by_price", order |-> 2, intent |-> "SELECT", concepts |-> {<<"order">>, <<"price">>},
        tables |-> {"orders"}, columns |-> {<<"products", "unit_price">>},
        keywords |-> {"order", "price"}, features |-> {"JOIN", "WHERE"}, difficulty |-> 1],
       [id |-> "top_customers", order |-> 3, intent |-> "TOP_N", concepts |-> {<<"customer">>, <<"revenue">>},
        tables |-> {"customers", "orders"}, columns |-> {},
        keywords |-> {"top", "customer"}, features |-> {"JOIN", "GROUP BY", "ORDER BY", "LIMIT",
                                                        "aggregate function"}, difficulty |-> 1],
       [id |-> "category_ratings", order |-> 1, intent |-> "AVERAGE", concepts |-> {<<"department">>},
        tables |-> {"product_categories"}, columns |-> {<<"product_reviews", "rating">>},
        keywords |-> {"rating", "category"}, features |-> {"JOIN", "GROUP BY", "aggregate function"},
        difficulty |-> 2] >>

MCKnowledge ==
    << [id |-> <<"category">>, name |-> <<"product", "category">>,
        aliases |-> {<<"department">>}, related |-> {}],
       [id |-> <<"sold">>, name |-> <<"units", "sold">>,
        aliases |-> {<<"sold", "quantity">>}, related |-> {<<"order", "item">>}] >>

MCOverlaps == {<< <<"category">>, <<"product", "category">> >>, << <<"quantity">>, <<"sold", "quantity">> >>}

MCFixedChars == [system |-> 330, constraint |-> 420, output_format |-> 220, business_context |-> 58,
                 schema_context |-> 0, relationship |-> 30, retrieved_examples |-> 0]
MCLineChars == [system |-> 0, constraint |-> 0, output_format |-> 0, business_context |-> 12,
                schema_context |-> 60, relationship |-> 70, retrieved_examples |-> 60]

PriceOver100 == <<"order", "price", "over", "100">>
PriceOver200 == <<"order", "price", "over", "200">>

MCQuestions ==
    {PriceOver100, PriceOver200,
     <<"top", "5", "customer", "by", "quantity">>,
     <<"order", "in", "california">>,                                  \* "order" as a column too
     <<"average", "rating", "per", "product", "category", "in", "texas">>,
     <<"supplier", "with", "return", "last", "month">>,                \* three hops, a period
     <<"quantity", "sort", "by", "price", "asc">>,                     \* no entity
     <<"top", "0", "product">>, <<>>}                                  \* both fail

MCTwoQuestions == {PriceOver100, PriceOver200}
=============================================================================
