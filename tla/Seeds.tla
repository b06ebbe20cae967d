------------------------------- MODULE Seeds -------------------------------
(***************************************************************************)
(* scripts/seed_database.py and querymind.seeds: SeedOrchestrator.run()    *)
(* walks fourteen generators, persisting (one transaction) after each, and *)
(* DatasetValidator then checks what was persisted.                        *)
(*                                                                         *)
(* A generator is a function of its random draws; an action chooses the    *)
(* draws with \E.  Rows keep the columns that keys, constraints, amounts   *)
(* and dates need, and refer to each other by unique key.  Money is in     *)
(* cents, time in minutes, a day number counts from 1 November.            *)
(***************************************************************************)
EXTENDS Integers, Sequences, FiniteSets, FiniteSetsExt, Functions

CONSTANTS
    Configs,          \* the SeedConfig values a command line can resolve to
    MaxRuns,          \* bound: how often the script is started
    Regions,          \* warehouse regions
    Taxonomy,         \* top-level category -> number of curated subcategories
    Prices, Quantities, OrderDays, PercentOff, FixedOff,
    PromotionStarts, PromotionLengths, PaidDelays, ShipDelays, TransitDelays, ReviewDelays,
    ReturnDelays, ResolveDelays      \* the extremes of each range drawn from

ASSUME DrawsAssumption ==
    /\ Quantities \subseteq Nat \ {0} /\ Prices \subseteq Nat /\ OrderDays \subseteq Int
    /\ PercentOff \subseteq 1000 .. 4000 /\ FixedOff \subseteq 500 .. 5000
    /\ PromotionStarts \subseteq Nat /\ PromotionLengths \subseteq 3 .. 21
    /\ PaidDelays \subseteq 1 .. 180
    /\ ShipDelays \subseteq 0 .. 2 /\ TransitDelays \subseteq 1 .. 7
    /\ ReviewDelays \subseteq 1 .. 30 /\ ReturnDelays \subseteq 1 .. 40
    /\ ResolveDelays \subseteq 1 .. 10

\* What pydantic lets through (DatasetSizeConfig, _validate_business_window): every
\* size is positive, but the number of addresses is rounded and may be none.
ASSUME ConfigsAssumption ==
    /\ \A c \in Configs :
         /\ {c.suppliers, c.warehouses, c.product_categories, c.products, c.inventory,
             c.customers, c.promotions, c.orders} \subseteq Nat \ {0}
         /\ c.addresses \in Nat /\ c.items \subseteq Nat \ {0}
         /\ c.start \in Int /\ c.end \in Int /\ c.start < c.end
         /\ c.years \in Seq([nov : Int, weekday : 0 .. 6])
    /\ IsFiniteSet(DOMAIN Taxonomy) /\ DOMAIN Taxonomy # {}
    /\ \A n \in DOMAIN Taxonomy : Taxonomy[n] \in Nat

VARIABLES
    config,     \* the resolved SeedConfig of the running script
    db,         \* table -> committed rows
    mem,        \* table -> the objects this run generated
    plan,       \* order number -> planned items (OrderGenerator._planned_items)
    at,         \* stage of run(): index into SEED_GENERATION_ORDER, 15 when done
    state,      \* "off", "running", "exited"
    exit,       \* exit code of the last finished script: -1 for none
    refused,    \* the last persist() raised IntegrityError
    runs        \* scripts started

vars == <<config, db, mem, plan, at, state, exit, refused, runs>>

SEED_GENERATION_ORDER ==
    <<"suppliers", "warehouses", "product_categories", "products", "inventory",
      "customers", "customer_addresses", "promotions", "orders", "order_items",
      "payments", "shipments", "product_reviews", "returns">>

TableNames == {SEED_GENERATION_ORDER[i] : i \in 1 .. 14}
NoRows == [t \in TableNames |-> {}]
None == -1
Day == 1440
Minutes(day) == day * Day

\* utils.round_currency: half-up, of an amount in ten-thousandths of a cent.
RoundCurrency(x) == (x + 5000) \div 10000

\* percentage_of; a percentage has two decimals too and is in hundredths.
PercentageOf(amount, percent) == RoundCurrency(amount * percent)

-----------------------------------------------------------------------------
(***************************************************************************)
(* Constraints of the tables (see Schema), as PostgreSQL enforces them on  *)
(* flush: the unique key of a row, None where NULL or a partial index      *)
(* exempts it; the rows it refers to; its CHECK constraints.               *)
(***************************************************************************)
Key(t, r) ==
    CASE t = "suppliers" -> r.code
      [] t = "warehouses" -> <<r.region, r.seq>>
      [] t = "product_categories" -> <<r.parent, r.name>>
      [] t = "products" -> r.sku
      [] t = "inventory" -> <<r.product, r.warehouse>>
      [] t = "customers" -> r.number       \* faker.unique keeps the emails apart
      [] t = "customer_addresses" ->
            IF r.is_default THEN <<r.customer, r.type>> ELSE <<r.n, "row">>
      [] t = "promotions" -> r.code
      [] t = "orders" -> r.number
      [] t = "order_items" -> <<r.order, r.product>>
      [] t = "payments" -> r.reference
      [] t = "shipments" -> r.order        \* tracking numbers run over the orders
      [] t = "product_reviews" -> r.item
      [] t = "returns" -> <<r.item, r.requested>>     \* no unique constraint

References(t, r) ==
    CASE t = "product_categories" ->
            IF r.parent = "none" THEN {} ELSE {<<t, <<"none", <<r.parent, 0>> >> >>}
      [] t = "products" -> {<<"product_categories", r.category>>, <<"suppliers", r.supplier>>}
      [] t = "inventory" -> {<<"products", r.product>>, <<"warehouses", r.warehouse>>}
      [] t = "customer_addresses" -> {<<"customers", r.customer>>}
      [] t = "orders" -> {<<"customers", r.customer>>}
                         \union IF r.promotion = None THEN {} ELSE {<<"promotions", r.promotion>>}
      [] t = "order_items" -> {<<"orders", r.order>>, <<"products", r.product>>}
      [] t = "payments" -> {<<"orders", r.order>>}
      [] t = "shipments" -> {<<"orders", r.order>>, <<"warehouses", r.warehouse>>}
      [] t \in {"product_reviews", "returns"} -> {<<"order_items", r.item>>}
      [] OTHER -> {}

Checks(t, r) ==
    CASE t = "inventory" -> r.quantity >= 0 /\ r.reorder >= 0
      [] t = "promotions" -> r.value >= 0 /\ r.ends > r.starts
      [] t = "orders" -> /\ r.subtotal >= 0 /\ r.discount >= 0 /\ r.tax >= 0
                         /\ r.shipping >= 0 /\ r.total >= 0
      [] t = "order_items" -> r.quantity > 0 /\ r.line >= 0
      [] t = "returns" -> r.quantity > 0
      [] OTHER -> TRUE

Accepted(t, rows) ==
    LET after == db[t] \union rows IN
    /\ \A r \in rows : \A s \in after : Key(t, r) = Key(t, s) => r = s /\ s \notin db[t]
    /\ \A r \in rows : \A ref \in References(t, r) :
          \E s \in (IF ref[1] = t THEN after ELSE db[ref[1]]) : Key(ref[1], s) = ref[2]
    /\ \A r \in rows : Checks(t, r)

-----------------------------------------------------------------------------
\* AsyncSessionTransactionRunner.persist: add_all, flush, commit; on an
\* IntegrityError nothing of the stage is stored and the script dies.
Persist(t, rows) ==
    IF Accepted(t, rows)
    THEN /\ db' = [db EXCEPT ![t] = @ \union rows]
         /\ mem' = [mem EXCEPT ![t] = rows]
         /\ at' = at + 1
         /\ UNCHANGED <<state, exit, refused>>
    ELSE /\ state' = "exited" /\ exit' = 1 /\ refused' = TRUE
         /\ UNCHANGED <<db, mem, at>>

At(t) == state = "running" /\ at <= 14 /\ SEED_GENERATION_ORDER[at] = t

\* A ValueError of a generator: the script dies before persisting the stage.
Raise ==
    /\ state' = "exited" /\ exit' = 1
    /\ UNCHANGED <<db, mem, at, refused>>

Keep == UNCHANGED <<config, plan, runs>>

\* Mutant: supplier codes differ from run to run.
SuppliersNumberedByRun ==
    /\ At("suppliers") /\ Keep
    /\ Persist("suppliers", {[code |-> 10 * runs + i] : i \in 1 .. config.suppliers})

Suppliers ==
    /\ At("suppliers") /\ Keep
    /\ Persist("suppliers", {[code |-> i] : i \in 1 .. config.suppliers})

\* Codes WH-<region>-<nn> number the warehouses of each region separately.
Warehouses ==
    /\ At("warehouses") /\ Keep
    /\ \E d \in [1 .. config.warehouses -> Regions] :
         Persist("warehouses",
                 {[region |-> d[i], seq |-> Cardinality({j \in 1 .. i : d[j] = d[i]})] :
                    i \in 1 .. config.warehouses})

\* Top levels first; then children dealt round-robin, curated names before
\* numbered "Specialty" ones.
CategoryRows(n) ==
    LET names == CHOOSE s \in [1 .. Cardinality(DOMAIN Taxonomy) -> DOMAIN Taxonomy] :
                    {s[i] : i \in DOMAIN s} = DOMAIN Taxonomy
        tops == Min({n, Len(names)})
        child(k) == LET parent == names[(k % tops) + 1]
                        nth == (k \div tops) + 1
                    IN [parent |-> parent,
                        name |-> IF nth <= Taxonomy[parent] THEN <<"curated", nth>>
                                 ELSE <<"specialty", nth - Taxonomy[parent]>>]
    IN {[parent |-> "none", name |-> <<names[i], 0>>] : i \in 1 .. tops}
       \union {child(k) : k \in 0 .. n - tops - 1}

ProductCategories ==
    /\ At("product_categories") /\ Keep
    /\ Persist("product_categories", CategoryRows(config.product_categories))

Keys(t) == {Key(t, r) : r \in mem[t]}

Products ==
    /\ At("products") /\ Keep
    /\ IF mem["product_categories"] = {} \/ mem["suppliers"] = {} THEN Raise ELSE
         \E c \in [1 .. config.products -> Keys("product_categories")],
            s \in [1 .. config.products -> Keys("suppliers")] :
           Persist("products", {[sku |-> i, category |-> c[i], supplier |-> s[i]] :
                                  i \in 1 .. config.products})

\* should_stock() splits the shuffled pairs; a shortfall is topped up from the
\* rejected ones and an excess trimmed, so any `count` distinct pairs may come out.
\* A depleted row has less than its reorder level on hand.
InventoryRows ==
    /\ At("inventory") /\ Keep
    /\ LET pairs == Keys("products") \X Keys("warehouses") IN
       IF pairs = {} \/ config.inventory > Cardinality(pairs) THEN Raise ELSE
         \E selected \in kSubset(config.inventory, pairs) :
         \E depleted \in SUBSET selected :
           Persist("inventory",
                   {[product |-> p[1], warehouse |-> p[2], reorder |-> 2,
                     quantity |-> IF p \in depleted THEN 0 ELSE 12] : p \in selected})

Customers ==
    /\ At("customers") /\ Keep
    /\ Persist("customers", {[number |-> i] : i \in 1 .. config.customers})

\* Mutant: every extra address is a default one.
IsDefaultAlways(extra, base, i) == TRUE

\* Whether the i-th extra address is the first seen for its customer and type.
IsDefault(extra, base, i) ==
    /\ ~(extra[i][2] = "shipping" /\ extra[i][1] <= base)
    /\ \A j \in 1 .. i - 1 : extra[j] # extra[i]

CustomerAddresses ==
    /\ At("customer_addresses") /\ Keep
    /\ LET base == Min({config.addresses, config.customers})
           extras == config.addresses - base
       IN \E extra \in [1 .. extras -> Keys("customers") \X {"billing", "shipping"}] :
            Persist("customer_addresses",
                {[n |-> c, customer |-> c, type |-> "shipping", is_default |-> TRUE] :
                    c \in 1 .. base}
                \union {[n |-> base + i, customer |-> extra[i][1], type |-> extra[i][2],
                         is_default |-> IsDefault(extra, base, i)] : i \in 1 .. extras})

-----------------------------------------------------------------------------
\* BusinessCalendar: the fourth Thursday of November, and the campaigns of a year
\* whose 1 November falls on `weekday` (Monday = 0) and follows day `nov`.
Thanksgiving(weekday) == 1 + ((3 - weekday) % 7) + 21
BlackFriday(weekday) == Thanksgiving(weekday) + 1
StandardCampaigns(year) ==
    LET friday == year.nov + BlackFriday(year.weekday)
    IN << <<friday, friday + 3>>, <<year.nov + 31, year.nov + 61>>,
          <<year.nov - 91, year.nov - 61>> >>

\* The campaigns of each year, clamped to the business window; those outside are
\* skipped.
CalendarAnchoredWindows ==
    LET starts(w) == Max({Minutes(w[1]), Minutes(config.start)})
        ends(w) == Min({Minutes(w[2] + 1) - 1, Minutes(config.end + 1) - 1})
        kept(w) == IF ends(w) > starts(w) THEN << <<starts(w), ends(w)>> >> ELSE <<>>
        of(c) == kept(c[1]) \o kept(c[2]) \o kept(c[3])
        windows[y \in 0 .. Len(config.years)] ==
            IF y = 0 THEN <<>> ELSE windows[y - 1] \o of(StandardCampaigns(config.years[y]))
    IN windows[Len(config.years)]

\* A random start leaves 21 days; the window's own start when it is shorter.
RandomWindowStarts ==
    LET span == Max({Minutes(config.end) - Minutes(config.start) - 21 * Day, 0})
    IN {Minutes(config.start) + offset : offset \in PromotionStarts \intersect 0 .. span}

Promotions ==
    /\ At("promotions") /\ Keep
    /\ LET anchored == CalendarAnchoredWindows
           n == config.promotions
           discounts == ({"percentage"} \X PercentOff) \union ({"fixed_amount"} \X FixedOff)
       IN \E d \in [1 .. n -> discounts], len \in [1 .. n -> PromotionLengths],
             start \in [1 .. n -> RandomWindowStarts] :
            Persist("promotions",
                {[code |-> i, type |-> d[i][1], value |-> d[i][2],
                  starts |-> IF i <= Len(anchored) THEN anchored[i][1] ELSE start[i],
                  ends |-> IF i <= Len(anchored) THEN anchored[i][2]
                           ELSE start[i] + len[i] * Day] : i \in 1 .. n})

-----------------------------------------------------------------------------
OrderStatuses == {"pending", "confirmed", "shipped", "delivered", "cancelled", "returned"}

\* PromotionRules.is_promotion_active compares dates, not times of day.
Active(p, day) == p.starts \div Day <= day /\ day <= p.ends \div Day

ComputeDiscount(p, subtotal) ==
    IF p.type = "percentage" THEN PercentageOf(subtotal, p.value)
    ELSE Min({p.value, subtotal})

\* OrderRules: free shipping from 50.00 on, else 5.99; tax of 7.25 percent.
ShippingFee(subtotal) == IF subtotal >= 5000 THEN 0 ELSE 599
Tax(net) == RoundCurrency(net * 725)

Subtotal(items) == SumFunction([i \in items |-> i.price * i.quantity])

\* _pick_products draws without replacement, so a product occurs once per order.
Plans == UNION {[ps -> Prices \X Quantities] : ps \in (SUBSET Keys("products")) \ {{}}}
Planned(f) == {[product |-> p, price |-> f[p][1], quantity |-> f[p][2]] : p \in DOMAIN f}

OrderRow(i, d) ==
    LET subtotal == Subtotal(Planned(d.items))
        discount == IF d.promotion = None THEN 0
                    ELSE ComputeDiscount(CHOOSE p \in mem["promotions"] : p.code = d.promotion,
                                         subtotal)
        tax == Tax(subtotal - discount)
        shipping == ShippingFee(subtotal)
    IN [number |-> i, customer |-> d.customer, placed |-> Minutes(d.day) + 360,
        status |-> d.status, promotion |-> d.promotion, subtotal |-> subtotal,
        discount |-> discount, tax |-> tax, shipping |-> shipping,
        total |-> subtotal - discount + tax + shipping]

\* sample_item_count, but never more than there are products.
ItemCounts == {Min({n, Cardinality(Keys("products"))}) : n \in config.items}

\* What one iteration of OrderGenerator.generate may draw.
OrderDraws ==
    {d \in [customer : Keys("customers"), day : OrderDays, status : OrderStatuses,
            items : {f \in Plans : Cardinality(DOMAIN f) \in ItemCounts},
            promotion : Keys("promotions") \union {None}] :
        /\ d.day \in config.start .. config.end
        /\ d.promotion # None =>
              \E p \in mem["promotions"] : p.code = d.promotion /\ Active(p, d.day)}

Orders ==
    /\ At("orders") /\ UNCHANGED <<config, runs>>
    /\ \E d \in [1 .. config.orders -> OrderDraws] :
         /\ plan' = [i \in 1 .. config.orders |-> Planned(d[i].items)]
         /\ Persist("orders", {OrderRow(i, d[i]) : i \in 1 .. config.orders})

OrderItems ==
    /\ At("order_items") /\ Keep
    /\ Persist("order_items",
          UNION {{[order |-> o.number, product |-> i.product, quantity |-> i.quantity,
                   price |-> i.price, line |-> i.price * i.quantity] : i \in plan[o.number]} :
                 o \in mem["orders"]})

\* PaymentGenerator._SUCCESSFUL_STATUSES and ShipmentGenerator._SHIPPABLE_STATUSES.
SuccessfulStatuses == {"confirmed", "shipped", "delivered", "returned"}
ShippableStatuses == {"confirmed", "shipped", "delivered", "returned"}

\* The attempts of an order: d.wins is the draw that succeeds (None for none of
\* the 1 + d.retries), a failed row precedes each retry, and an order that moved
\* on is captured whatever was drawn.  A cancelled order may be charged too.
PaymentsForOrder(o, d) ==
    LET n == IF d.wins = None THEN d.retries ELSE d.wins
        captured == d.wins # None \/ o.status \in SuccessfulStatuses
        row(k, status, paid) == [reference |-> <<o.number, k>>, order |-> o.number,
                                 amount |-> o.total, status |-> status, paid |-> paid]
    IN IF o.status = "pending" THEN {row(0, "pending", None)}
       ELSE {row(k, "failed", None) : k \in 0 .. n - 1}
            \union {IF captured THEN row(n, "captured", o.placed + d.delay)
                    ELSE row(n, "failed", None)}

PaymentDraws == {d \in [retries : 0 .. 2, wins : {None} \union 0 .. 2, delay : PaidDelays] :
                    d.wins <= d.retries}

Payments ==
    /\ At("payments") /\ Keep
    /\ \E d \in [mem["orders"] -> PaymentDraws] :
         Persist("payments", UNION {PaymentsForOrder(o, d[o]) : o \in mem["orders"]})

ShipmentStatuses == {"delivered", "in_transit", "pending", "failed", "returned_to_sender"}

\* ShipmentGenerator._resolve_status.
ResolveStatus(order, drawn) ==
    CASE order \in {"delivered", "returned"} -> "delivered"
      [] order = "confirmed" -> IF drawn \in {"pending", "failed"} THEN drawn ELSE "pending"
      [] order = "shipped" -> IF drawn = "delivered" THEN "in_transit" ELSE drawn

ShipmentRow(o, d) ==
    LET status == ResolveStatus(o.status, d.status)
        shipped == IF status = "pending" THEN None ELSE o.placed + d.processing * Day
    IN [order |-> o.number, warehouse |-> d.warehouse, status |-> status, shipped |-> shipped,
        delivered |-> IF status = "delivered" THEN shipped + d.transit * Day ELSE None]

Shipments ==
    /\ At("shipments") /\ Keep
    /\ LET shippable == {o \in mem["orders"] : o.status \in ShippableStatuses} IN
       IF mem["warehouses"] = {} THEN Raise ELSE
         \E d \in [shippable -> [status : ShipmentStatuses, processing : ShipDelays,
                                 transit : TransitDelays, warehouse : Keys("warehouses")]] :
           Persist("shipments", {ShipmentRow(o, d[o]) : o \in shippable})

-----------------------------------------------------------------------------
OrderOf(item) == CHOOSE o \in mem["orders"] : o.number = item.order

\* _delivered_at_by_order: the latest delivery of an order, None without one.
DeliveredAt(order) ==
    LET delivered == {s \in mem["shipments"] : s.order = order /\ s.delivered # None}
    IN IF delivered = {} THEN None ELSE Max({s.delivered : s \in delivered})

\* _captured_by_order.
Captured(order) == \E p \in mem["payments"] : p.order = order /\ p.status = "captured"

ItemKey(item) == <<item.order, item.product>>

\* Mutant: the items of any order with a delivered parcel may be reviewed.
ReviewableAnyStatus(item) == DeliveredAt(item.order) # None

Reviewable(item) == OrderOf(item).status = "delivered" /\ DeliveredAt(item.order) # None

ProductReviews ==
    /\ At("product_reviews") /\ Keep
    /\ \E reviewed \in SUBSET {i \in mem["order_items"] : Reviewable(i)} :
       \E delay \in [reviewed -> ReviewDelays] :
         Persist("product_reviews",
             {[item |-> ItemKey(i), date |-> DeliveredAt(i.order) + delay[i] * Day] :
                i \in reviewed})

ReturnWindowDays == 30
Terminal == {"approved", "rejected", "refunded", "completed"}
Refundable == {"refunded", "completed"}

Returnable(item) ==
    DeliveredAt(item.order) # None /\ OrderOf(item).status \in {"delivered", "returned"}

\* Mutant: the policy window is not looked at.
ReturnStatusesAnyTime(window_open, payment_captured) ==
    IF ~payment_captured THEN {"rejected"} ELSE {"requested"} \union Terminal

\* ReturnRules.assign_return_status: what may be drawn.
ReturnStatuses(window_open, payment_captured) ==
    IF ~window_open \/ ~payment_captured THEN {"rejected"} ELSE {"requested"} \union Terminal

ReturnDraws(item) ==
    {d \in [delay : ReturnDelays, quantity : 1 .. item.quantity,
            status : {"requested"} \union Terminal, resolve : ResolveDelays] :
        d.status \in ReturnStatuses(d.delay <= ReturnWindowDays, Captured(item.order))}

\* Mutant: the whole order is refunded for one of its items.
ReturnRowWholeOrder(item, d) ==
    [item |-> ItemKey(item), status |-> d.status, quantity |-> d.quantity,
     requested |-> DeliveredAt(item.order) + d.delay * Day, resolved |-> None,
     refund |-> OrderOf(item).total]

ReturnRow(item, d) ==
    LET requested == DeliveredAt(item.order) + d.delay * Day IN
    [item |-> ItemKey(item), status |-> d.status, quantity |-> d.quantity,
     requested |-> requested,
     resolved |-> IF d.status \in Terminal THEN requested + d.resolve * Day ELSE None,
     refund |-> IF d.status \in Refundable THEN item.price * d.quantity ELSE None]

Returns ==
    /\ At("returns") /\ Keep
    /\ \E returned \in SUBSET {i \in mem["order_items"] : Returnable(i)} :
       \E d \in [returned -> UNION {ReturnDraws(i) : i \in returned}] :
         /\ \A i \in returned : d[i] \in ReturnDraws(i)
         /\ Persist("returns", {ReturnRow(i, d[i]) : i \in returned})

-----------------------------------------------------------------------------
(***************************************************************************)
(* DatasetValidator, over the committed rows.                              *)
(***************************************************************************)
CheckRowCounts == \A t \in TableNames : db[t] # {}

CheckNoOrphanOrders == \A o \in db["orders"] : \E c \in db["customers"] : c.number = o.customer

CheckNoOrphanOrderItems ==
    \A i \in db["order_items"] : /\ \E o \in db["orders"] : o.number = i.order
                                 /\ \E p \in db["products"] : p.sku = i.product

LinesOf(order) ==
    SumFunction([i \in {i \in db["order_items"] : i.order = order} |-> i.line])

CheckOrderTotals ==
    \A o \in db["orders"] : /\ o.subtotal = LinesOf(o.number)
                            /\ o.total = o.subtotal - o.discount + o.tax + o.shipping

CheckPaymentAmounts ==
    \A p \in db["payments"], o \in db["orders"] : p.order = o.number => p.amount = o.total

CheckInventoryNonNegative == \A r \in db["inventory"] : r.quantity >= 0

\* The joins of the two review queries and of the return query.
CheckReviewEligibility ==
    \A r \in db["product_reviews"], o \in db["orders"] : r.item[1] = o.number =>
        /\ o.status = "delivered"
        /\ \A s \in db["shipments"] :
              s.order = o.number /\ s.delivered # None => r.date > s.delivered

CheckReturnEligibility ==
    \A r \in db["returns"], o \in db["orders"] :
        r.item[1] = o.number => o.status \in {"delivered", "returned"}

AllPassed ==
    /\ CheckRowCounts /\ CheckNoOrphanOrders /\ CheckNoOrphanOrderItems
    /\ CheckOrderTotals /\ CheckPaymentAmounts /\ CheckInventoryNonNegative
    /\ CheckReviewEligibility /\ CheckReturnEligibility

Validate ==
    /\ state = "running" /\ at = 15
    /\ state' = "exited" /\ exit' = IF AllPassed THEN 0 ELSE 1
    /\ UNCHANGED <<config, db, mem, plan, at, refused, runs>>

(***************************************************************************)
(* GenerationReport.from_results, from the objects in memory.  A rate is   *)
(* its numerator and denominator; a zero denominator is reported as 0.     *)
(***************************************************************************)
Rate(n, of) == IF of = 0 THEN <<0, 1>> ELSE <<n, of>>

Report ==
    LET count == [t \in TableNames |-> Cardinality(mem[t])]
        delivered == {i \in mem["order_items"] : OrderOf(i).status = "delivered"}
    IN [count |-> count,
        total_revenue |-> SumFunction([o \in mem["orders"] |-> o.total]),
        return_rate |-> Rate(count["returns"], Cardinality(delivered)),
        review_rate |-> Rate(count["product_reviews"], Cardinality(delivered)),
        inventory_coverage |-> Rate(count["inventory"], count["products"] * count["warehouses"]),
        promotion_usage |-> Rate(Cardinality({o \in mem["orders"] : o.promotion # None}),
                                 count["orders"]),
        payment_success |-> Rate(Cardinality({p \in mem["payments"] : p.status = "captured"}),
                                 count["payments"])]

-----------------------------------------------------------------------------
Init ==
    /\ config \in Configs
    /\ db = NoRows /\ mem = NoRows /\ plan = <<>>
    /\ at = 1 /\ state = "off" /\ exit = None /\ refused = FALSE /\ runs = 0

\* seed_database.py: a new process resolves its configuration and starts over.
Start ==
    /\ state # "running" /\ runs < MaxRuns
    /\ config' \in Configs
    /\ state' = "running" /\ at' = 1 /\ mem' = NoRows /\ plan' = <<>>
    /\ exit' = None /\ refused' = FALSE /\ runs' = runs + 1
    /\ UNCHANGED db

\* The process is killed between two commits.
Crash ==
    /\ state = "running"
    /\ state' = "exited" /\ exit' = 137
    /\ UNCHANGED <<config, db, mem, plan, at, refused, runs>>

Next ==
    \/ Start \/ Crash \/ Validate
    \/ Suppliers \/ Warehouses \/ ProductCategories \/ Products \/ InventoryRows
    \/ Customers \/ CustomerAddresses \/ Promotions \/ Orders \/ OrderItems
    \/ Payments \/ Shipments \/ ProductReviews \/ Returns

Spec == Init /\ [][Next]_vars

-----------------------------------------------------------------------------
(***************************************************************************)
(* No draw makes a generator produce rows the schema refuses: on an empty  *)
(* database every persist() succeeds.  The generators keep the partial     *)
(* unique index of default addresses, the unique pairs of inventory and    *)
(* order_items and the CHECKs on amounts by construction, stages apart     *)
(* from the rows they refer to.                                            *)
(***************************************************************************)
FreshRunNeverRefused == refused => at = 1 /\ db # NoRows

(***************************************************************************)
(* Seeding on top of existing data, after a completed run or after one cut *)
(* short between two commits, changes nothing: the second run is refused   *)
(* before its first commit, so every commit extends rows of its own run    *)
(* only and rows of two runs never mix.                                    *)
(***************************************************************************)
ReseedAddsNothing == [][db' # db => db = mem]_vars

(***************************************************************************)
(* The generators and the validator agree: a run that reaches the          *)
(* validator is reported bad only because a table came out empty, and exit *)
(* code 0 means a whole dataset, never one cut short.                      *)
(***************************************************************************)
ValidatorAgrees ==
    /\ state = "exited" /\ at = 15 /\ exit = 1
          => \E t \in {"customer_addresses", "shipments", "product_reviews", "returns"} :
                 db[t] = {}
    /\ exit = 0 => \A t \in TableNames : db[t] # {}

(***************************************************************************)
(* The story an order's rows tell is one a shop could have lived: a parcel *)
(* belongs to an order with a payment captured after it was placed, and    *)
(* leaves at the minute the order was placed or after that payment, never  *)
(* in between; it arrives after it left and after the payment; refunds go  *)
(* only to captured orders, within the return window.  The first of the    *)
(* two departures breaks "Payments before Shipment in the                  *)
(* temporal-integrity requirements" (ShipmentGenerator's docstring): a     *)
(* parcel leaves whole days after order_date, perhaps none, and paid_at    *)
(* is up to three hours after it.                                          *)
(***************************************************************************)
FulfilmentConsistent ==
    at > 12 => /\ \A s \in mem["shipments"] : \E o \in mem["orders"], p \in mem["payments"] :
                     /\ o.number = s.order /\ p.order = s.order /\ p.status = "captured"
                     /\ o.placed < p.paid
                     /\ s.shipped # None => s.shipped = o.placed \/ s.shipped > p.paid
                     /\ s.delivered # None => /\ s.shipped # None /\ s.delivered > s.shipped
                                              /\ s.delivered > p.paid
               /\ \A r \in mem["returns"] : r.refund # None =>
                     /\ Captured(r.item[1])
                     /\ r.requested - DeliveredAt(r.item[1]) <= ReturnWindowDays * Day

(***************************************************************************)
(* Money: a discount never exceeds the goods and the refunds of an order   *)
(* never exceed the price of its goods, its subtotal: a refund is counted  *)
(* from the items' prices and may exceed what a discounted order paid.     *)
(* The report, made from the objects in memory, counts the rows committed, *)
(* and its rates are fractions of one: all but the return rate, whose      *)
(* numerator also counts items of returned orders that its denominator     *)
(* leaves out.                                                             *)
(***************************************************************************)
BooksBalance ==
    /\ \A o \in mem["orders"] :
         /\ o.discount <= o.subtotal
         /\ SumFunction([r \in {r \in mem["returns"] : r.item[1] = o.number} |->
                            IF r.refund = None THEN 0 ELSE r.refund]) <= o.subtotal
    /\ at = 15 => /\ \A t \in TableNames : Report.count[t] = Cardinality(db[t])
                 /\ \A r \in {Report.review_rate, Report.inventory_coverage,
                              Report.promotion_usage, Report.payment_success} : r[1] <= r[2]

=============================================================================
