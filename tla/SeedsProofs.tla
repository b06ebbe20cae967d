---------------------------- MODULE SeedsProofs ----------------------------
(***************************************************************************)
(* Proofs about Seeds, for every configuration, every set of draws within  *)
(* the ranges of DrawsAssumption and any number of runs.                   *)
(*                                                                         *)
(* The inductive invariant IInv has three parts: Shape (which tables can   *)
(* have rows at which stage, and that from the second stage on the         *)
(* database holds the rows of this run only), Made (one fact per table:    *)
(* what its generator promises the later generators and the validator) and *)
(* Outcome (what the script's exit tells).  Each stage keeps it: its rows  *)
(* are accepted (Accepted) because of the facts of the tables they refer   *)
(* to, and make the next fact.                                             *)
(***************************************************************************)
EXTENDS Seeds, FiniteSetTheorems, WellFoundedInduction, TLAPS

-----------------------------------------------------------------------------
(* Induction over the naturals, on sets.                                   *)

LEMMA Least ==
  ASSUME NEW T, T \subseteq Nat, T # {}
  PROVE  \E x \in T : \A y \in T : x <= y
<1> DEFINE R == {p \in Nat \X Nat : p[1] < p[2]}
<1>1. IsWellFoundedOn(R, Nat)
  BY NatLessThanWellFounded DEF OpToRel
<1>2. PICK x \in T : \A y \in T : ~ (<<y, x>> \in R)
  <2> HIDE DEF R
  <2> QED BY <1>1, WFMin
<1>3. ASSUME NEW y \in T PROVE x <= y
  <2>1. x \in Nat /\ y \in Nat /\ ~ (<<y, x>> \in R)
    BY <1>2
  <2>2. ~ (y < x)
    BY <2>1
  <2> QED BY <2>1, <2>2
<1> QED BY <1>3

LEMMA SetInduction ==
  ASSUME NEW S, 0 \in S, \A n \in Nat : n \in S => n + 1 \in S
  PROVE  Nat \subseteq S
<1>1. SUFFICES ASSUME Nat \ S # {} PROVE FALSE
  OBVIOUS
<1>2. PICK x \in Nat \ S : \A y \in Nat \ S : x <= y
  BY <1>1, Least
<1>3. x # 0 /\ x - 1 \in Nat /\ ~ (x <= x - 1)
  OBVIOUS
<1>4. x - 1 \in S
  BY <1>2, <1>3
<1> QED BY <1>3, <1>4

-----------------------------------------------------------------------------
(* Sums over finite sets.                                                  *)

Pick(s) == CHOOSE x \in s : TRUE

\* One unfolding of the recursion of SumFunction, and its fixed point.
Unfold(f, g) ==
  [s \in SUBSET DOMAIN f |-> IF s = {} THEN 0 ELSE f[Pick(s)] + g[s \ {Pick(s)}]]
Partial(f) == CHOOSE g : g = Unfold(f, g)

LEMMA SumIs == ASSUME NEW f PROVE SumFunction(f) = Partial(f)[DOMAIN f]
BY DEF SumFunction, SumFunctionOnSet, FoldFunctionOnSet, MapThenFoldSet, Partial, Unfold, Pick

\* A finite family of natural numbers.
Family(f) == IsFiniteSet(DOMAIN f) /\ f \in [DOMAIN f -> Nat]

LEMMA UnfoldTyped ==
  ASSUME NEW f, Family(f), NEW g \in [SUBSET DOMAIN f -> Nat]
  PROVE  Unfold(f, g) \in [SUBSET DOMAIN f -> Nat]
<1>1. ASSUME NEW s \in SUBSET DOMAIN f, s # {}
      PROVE  f[Pick(s)] + g[s \ {Pick(s)}] \in Nat
  <2>1. Pick(s) \in s
    BY <1>1 DEF Pick
  <2> QED BY <2>1 DEF Family
<1> QED BY <1>1 DEF Unfold

\* The sets of at most n elements for which g already is the sum.
Exact(f, g, n) ==
  \A s \in SUBSET DOMAIN f : Cardinality(s) <= n => g[s] = Unfold(f, g)[s]

LEMMA ExactExists ==
  ASSUME NEW f, Family(f), NEW n \in Nat
  PROVE  \E g \in [SUBSET DOMAIN f -> Nat] : Exact(f, g, n)
<1> DEFINE S == {m \in Nat : \E g \in [SUBSET DOMAIN f -> Nat] : Exact(f, g, m)}
<1>0. \A s \in SUBSET DOMAIN f : /\ IsFiniteSet(s) /\ Cardinality(s) \in Nat
                                 /\ Cardinality(s) = 0 <=> s = {}
  BY FS_Subset, FS_CardinalityType, FS_EmptySet DEF Family
<1>1. 0 \in S
  <2> DEFINE g == [s \in SUBSET DOMAIN f |-> 0]
  <2>1. g \in [SUBSET DOMAIN f -> Nat]
    OBVIOUS
  <2>2. Exact(f, g, 0)
    BY <1>0 DEF Exact, Unfold
  <2> QED BY <2>1, <2>2
<1>2. ASSUME NEW m \in Nat, m \in S PROVE m + 1 \in S
  <2>1. PICK g \in [SUBSET DOMAIN f -> Nat] : Exact(f, g, m)
    BY <1>2
  <2> DEFINE h == Unfold(f, g)
  <2>2. h \in [SUBSET DOMAIN f -> Nat]
    BY UnfoldTyped
  <2>3. ASSUME NEW s \in SUBSET DOMAIN f, Cardinality(s) <= m + 1
        PROVE  h[s] = Unfold(f, h)[s]
    <3>1. CASE s = {}
      BY <3>1 DEF Unfold
    <3>2. CASE s # {}
      <4> DEFINE t == s \ {Pick(s)}
      <4>1. Pick(s) \in s
        BY <3>2 DEF Pick
      <4>2. t \in SUBSET DOMAIN f /\ Cardinality(t) <= m
        <5>1. Cardinality(t) = Cardinality(s) - 1 /\ Cardinality(s) \in Nat
          BY <1>0, <4>1, FS_RemoveElement
        <5> QED BY <5>1, <2>3
      <4>3. g[t] = h[t]
        BY <2>1, <4>2 DEF Exact
      <4>4. h[s] = f[Pick(s)] + g[t]
        BY <3>2 DEF Unfold
      <4>5. Unfold(f, h)[s] = f[Pick(s)] + h[t]
        <5> HIDE DEF h
        <5> QED BY <3>2 DEF Unfold
      <4> QED BY <4>3, <4>4, <4>5
    <3> QED BY <3>1, <3>2
  <2>4. Exact(f, h, m + 1)
    BY <2>3 DEF Exact
  <2> QED BY <2>2, <2>4
<1>3. Nat \subseteq S
  <2> HIDE DEF S
  <2> QED BY <1>1, <1>2, SetInduction
<1> QED BY <1>3

LEMMA PartialUnfolds ==
  ASSUME NEW f, Family(f)
  PROVE  /\ Partial(f) = Unfold(f, Partial(f))
         /\ Partial(f) \in [SUBSET DOMAIN f -> Nat]
<1> DEFINE n == Cardinality(DOMAIN f)
<1>0. n \in Nat /\ \A s \in SUBSET DOMAIN f : Cardinality(s) <= n
  BY FS_Subset, FS_CardinalityType DEF Family
<1>1. PICK g \in [SUBSET DOMAIN f -> Nat] : Exact(f, g, n)
  BY <1>0, ExactExists
<1>2. g = Unfold(f, g)
  <2>1. \A s \in SUBSET DOMAIN f : g[s] = Unfold(f, g)[s]
    BY <1>0, <1>1 DEF Exact
  <2>2. Unfold(f, g) \in [SUBSET DOMAIN f -> Nat]
    BY UnfoldTyped
  <2> QED BY <2>1, <2>2
<1>3. Partial(f) = Unfold(f, Partial(f))
  BY <1>2 DEF Partial
<1> DEFINE p == Partial(f)
           S == {m \in Nat : \A s \in SUBSET DOMAIN f : Cardinality(s) <= m => p[s] \in Nat}
<1> HIDE DEF p
<1>4. \A s \in SUBSET DOMAIN f :
        p[s] = IF s = {} THEN 0 ELSE f[Pick(s)] + p[s \ {Pick(s)}]
  BY <1>3 DEF Unfold, p
<1>5. \A s \in SUBSET DOMAIN f : /\ IsFiniteSet(s) /\ Cardinality(s) \in Nat
                                 /\ Cardinality(s) = 0 <=> s = {}
  BY FS_Subset, FS_CardinalityType, FS_EmptySet DEF Family
<1>6. 0 \in S
  BY <1>4, <1>5
<1>7. ASSUME NEW m \in Nat, m \in S PROVE m + 1 \in S
  <2>1. ASSUME NEW s \in SUBSET DOMAIN f, Cardinality(s) <= m + 1, s # {} PROVE p[s] \in Nat
    <3> DEFINE t == s \ {Pick(s)}
    <3>1. Pick(s) \in s
      BY <2>1 DEF Pick
    <3>2. t \in SUBSET DOMAIN f /\ Cardinality(t) <= m
      <4>1. Cardinality(t) = Cardinality(s) - 1 /\ Cardinality(s) \in Nat
        BY <1>5, <3>1, FS_RemoveElement
      <4> QED BY <4>1, <2>1
    <3>3. p[t] \in Nat /\ f[Pick(s)] \in Nat
      BY <3>1, <3>2, <1>7 DEF Family
    <3>4. p[s] = f[Pick(s)] + p[t]
      BY <2>1, <1>4
    <3> QED BY <3>3, <3>4
  <2>2. ASSUME NEW s \in SUBSET DOMAIN f, s = {} PROVE p[s] \in Nat
    BY <2>2, <1>4
  <2> QED BY <2>1, <2>2
<1>8. Nat \subseteq S
  <2> HIDE DEF S
  <2> QED BY <1>6, <1>7, SetInduction
<1>9. \A s \in SUBSET DOMAIN f : p[s] \in Nat
  BY <1>0, <1>8
<1>10. p \in [SUBSET DOMAIN f -> Nat]
  <2>1. p = [s \in SUBSET DOMAIN f |-> p[s]]
    BY <1>3 DEF Unfold, p
  <2> QED BY <2>1, <1>9
<1> QED BY <1>3, <1>10 DEF p

LEMMA SubsetsFinite ==
  ASSUME NEW D, IsFiniteSet(D), NEW s \in SUBSET D
  PROVE  /\ IsFiniteSet(s) /\ Cardinality(s) \in Nat /\ (Cardinality(s) = 0 <=> s = {})
         /\ \A x \in s : Cardinality(s \ {x}) = Cardinality(s) - 1
BY FS_Subset, FS_CardinalityType, FS_EmptySet, FS_RemoveElement

LEMMA PartialPick ==
  ASSUME NEW f, Family(f), NEW s \in SUBSET DOMAIN f
  PROVE  /\ Partial(f)[s] \in Nat
         /\ s = {} => Partial(f)[s] = 0
         /\ s # {} => Pick(s) \in s /\ Partial(f)[s] = f[Pick(s)] + Partial(f)[s \ {Pick(s)}]
<1>1. Partial(f)[s] = Unfold(f, Partial(f))[s] /\ Partial(f)[s] \in Nat
  BY PartialUnfolds
<1>2. Unfold(f, Partial(f))[s] = IF s = {} THEN 0 ELSE f[Pick(s)] + Partial(f)[s \ {Pick(s)}]
  BY DEF Unfold
<1>3. s # {} => Pick(s) \in s
  BY DEF Pick
<1> QED BY <1>1, <1>2, <1>3

\* A sum is the same whichever element is taken out first.
LEMMA RemoveAny ==
  ASSUME NEW f, Family(f), NEW U \in SUBSET DOMAIN f, NEW x \in U
  PROVE  Partial(f)[U] = f[x] + Partial(f)[U \ {x}]
<1> DEFINE p == Partial(f)
           Holds(V) == \A y \in V : p[V] = f[y] + p[V \ {y}]
           S == {m \in Nat : \A V \in SUBSET DOMAIN f : Cardinality(V) <= m => Holds(V)}
<1>0. \A V \in SUBSET DOMAIN f :
        /\ IsFiniteSet(V) /\ Cardinality(V) \in Nat /\ (Cardinality(V) = 0 <=> V = {})
        /\ \A y \in V : Cardinality(V \ {y}) = Cardinality(V) - 1
  BY SubsetsFinite DEF Family
<1>1. 0 \in S
  BY <1>0
<1>2. ASSUME NEW m \in Nat, m \in S PROVE m + 1 \in S
  <2>1. ASSUME NEW V \in SUBSET DOMAIN f, Cardinality(V) <= m + 1, NEW y \in V
        PROVE  p[V] = f[y] + p[V \ {y}]
    <3> DEFINE q == Pick(V)
    <3>1. q \in V /\ p[V] = f[q] + p[V \ {q}]
      BY PartialPick
    <3>2. CASE q # y
      <4>1. y \in V \ {q} /\ q \in V \ {y} /\ V \ {q} \in SUBSET DOMAIN f /\ V \ {y} \in SUBSET DOMAIN f
        BY <3>1, <3>2
      <4>2. Cardinality(V \ {q}) <= m /\ Cardinality(V \ {y}) <= m
        BY <1>0, <3>1, <2>1
      <4>3. p[V \ {q}] = f[y] + p[(V \ {q}) \ {y}]
        BY <1>2, <4>1, <4>2
      <4>4. p[V \ {y}] = f[q] + p[(V \ {y}) \ {q}]
        BY <1>2, <4>1, <4>2
      <4>5. (V \ {q}) \ {y} = (V \ {y}) \ {q}
        OBVIOUS
      <4>6. p[(V \ {q}) \ {y}] \in Nat /\ f[q] \in Nat /\ f[y] \in Nat
        BY <3>1, PartialPick DEF Family
      <4> HIDE DEF p, q
      <4> QED BY <3>1, <4>3, <4>4, <4>5, <4>6
    <3> QED BY <3>1, <3>2
  <2> QED BY <2>1
<1>3. Nat \subseteq S
  <2> HIDE DEF S
  <2> QED BY <1>1, <1>2, SetInduction
<1>4. Cardinality(U) \in S /\ Cardinality(U) <= Cardinality(U)
  BY <1>0, <1>3
<1> QED BY <1>4

LEMMA SumNat == ASSUME NEW f, Family(f) PROVE SumFunction(f) \in Nat
BY SumIs, PartialPick

\* A family that maps one to one into a family of larger numbers has the smaller sum.
LEMMA SumInjective ==
  ASSUME NEW f, Family(f), NEW h, Family(h), NEW g \in [DOMAIN f -> DOMAIN h],
         \A x, y \in DOMAIN f : g[x] = g[y] => x = y,
         \A x \in DOMAIN f : f[x] <= h[g[x]]
  PROVE  SumFunction(f) <= SumFunction(h)
<1> DEFINE p == Partial(f)
           q == Partial(h)
           Into(U, V) == \A u \in U : g[u] \in V
           S == {m \in Nat : \A U \in SUBSET DOMAIN f : \A V \in SUBSET DOMAIN h :
                    Cardinality(U) <= m /\ Into(U, V) => p[U] <= q[V]}
<1>0. \A U \in SUBSET DOMAIN f :
        /\ IsFiniteSet(U) /\ Cardinality(U) \in Nat /\ (Cardinality(U) = 0 <=> U = {})
        /\ \A y \in U : Cardinality(U \ {y}) = Cardinality(U) - 1
  BY SubsetsFinite DEF Family
<1>1. ASSUME NEW V \in SUBSET DOMAIN h PROVE p[{}] <= q[V]
  <2>1. p[{}] = 0 /\ q[V] \in Nat
    BY PartialPick
  <2> HIDE DEF p, q
  <2> QED BY <2>1
<1>2. 0 \in S
  <2>1. ASSUME NEW U \in SUBSET DOMAIN f, NEW V \in SUBSET DOMAIN h, Cardinality(U) <= 0
        PROVE  p[U] <= q[V]
    <3>1. U = {}
      BY <1>0, <2>1
    <3> QED BY <3>1, <1>1
  <2> QED BY <2>1
<1>3. ASSUME NEW m \in Nat, m \in S PROVE m + 1 \in S
  <2>1. ASSUME NEW U \in SUBSET DOMAIN f, NEW V \in SUBSET DOMAIN h,
               Cardinality(U) <= m + 1, Into(U, V)
        PROVE  p[U] <= q[V]
    <3>1. CASE U = {}
      BY <3>1, <1>1
    <3>2. CASE U # {}
      <4> DEFINE x == Pick(U)
      <4>1. x \in U /\ p[U] = f[x] + p[U \ {x}]
        BY <3>2, PartialPick
      <4>2. g[x] \in V
        BY <4>1, <2>1
      <4>3. q[V] = h[g[x]] + q[V \ {g[x]}]
        BY <4>2, RemoveAny, SMTT(30)
      <4>4. U \ {x} \in SUBSET DOMAIN f /\ V \ {g[x]} \in SUBSET DOMAIN h
        OBVIOUS
      <4>5. Cardinality(U \ {x}) <= m
        BY <1>0, <4>1, <2>1
      <4>6. Into(U \ {x}, V \ {g[x]})
        <5>1. ASSUME NEW u \in U \ {x} PROVE g[u] \in V \ {g[x]}
          BY <4>1, <2>1
        <5> QED BY <5>1
      <4>7. p[U \ {x}] <= q[V \ {g[x]}]
        BY <1>3, <4>4, <4>5, <4>6
      <4>8. f[x] <= h[g[x]] /\ f[x] \in Nat /\ h[g[x]] \in Nat
        BY <4>1 DEF Family
      <4>9. p[U \ {x}] \in Nat /\ q[V \ {g[x]}] \in Nat
        BY <4>4, PartialPick
      <4> HIDE DEF p, q, x
      <4> QED BY <4>1, <4>3, <4>7, <4>8, <4>9
    <3> QED BY <3>1, <3>2
  <2> QED BY <2>1
<1>4. Nat \subseteq S
  <2> HIDE DEF S
  <2> QED BY <1>2, <1>3, SetInduction
<1>5. Cardinality(DOMAIN f) \in S /\ Cardinality(DOMAIN f) <= Cardinality(DOMAIN f)
  BY <1>0, <1>4
<1>6. Into(DOMAIN f, DOMAIN h)
  OBVIOUS
<1>7. p[DOMAIN f] <= q[DOMAIN h]
  BY <1>5, <1>6
<1> QED BY <1>7, SumIs

-----------------------------------------------------------------------------
(***************************************************************************)
(* The inductive invariant.  Each stage leaves a fact about the rows it    *)
(* made, in terms of the rows of earlier stages; stated of the tables as   *)
(* parameters, it survives every later stage, which touches other tables.  *)
(***************************************************************************)
WarehousesMade(W) ==
  IsFiniteSet(W) /\ W # {} /\ \A w \in W : w = [region |-> w.region, seq |-> w.seq]

ProductsMade(P) == IsFiniteSet(P) /\ P # {} /\ \A p, q \in P : p.sku = q.sku => p = q

CustomersMade(C, n) == C = {[number |-> i] : i \in 1 .. n}

InventoryMade(I, P, W) ==
  /\ IsFiniteSet(I) /\ I # {} /\ \A r \in I : r.quantity >= 0
  /\ Cardinality(I) <= Cardinality(P) * Cardinality(W)

\* No code is None, and no discount is larger than what it is taken from.
PromotionsMade(P) ==
  /\ P # {}
  /\ \A p \in P : /\ p.code \in Nat
                  /\ p.value \in Nat
                  /\ \/ p.type = "percentage" /\ p.value <= 4000
                     \/ p.type = "fixed_amount"

PlanMade(items, P) ==
  /\ IsFiniteSet(items) /\ items # {}
  /\ \A i, j \in items : i.product = j.product => i = j
  /\ \A i \in items : /\ \E p \in P : p.sku = i.product
                      /\ i.price \in Nat /\ i.quantity \in Nat \ {0}

OrdersMade(O, pl, P, C) ==
  /\ IsFiniteSet(O) /\ O # {}
  /\ \A o, q \in O : o.number = q.number => o = q
  /\ \A o \in O :
       /\ PlanMade(pl[o.number], P)
       /\ o.subtotal = Subtotal(pl[o.number]) /\ o.discount \in Nat /\ o.discount <= o.subtotal
       /\ o.total = o.subtotal - o.discount + o.tax + o.shipping
       /\ \E day \in Int : o.placed = Minutes(day) + 360
       /\ o.status \in OrderStatuses
       /\ \E c \in C : c.number = o.customer

ItemRow(o, i) == [order |-> o.number, product |-> i.product, quantity |-> i.quantity,
                  price |-> i.price, line |-> i.price * i.quantity]

ItemsMade(I, O, pl) ==
  /\ IsFiniteSet(I) /\ I # {}
  /\ \A r \in I : \E o \in O : \E i \in pl[o.number] : r = ItemRow(o, i)
  /\ \A o \in O : \A i \in pl[o.number] : ItemRow(o, i) \in I

CapturedIn(Y, order) == \E y \in Y : y.order = order /\ y.status = "captured"

\* A captured payment of order o, within three hours of it.
PaidFor(y, o) == /\ y.order = o.number /\ y.status = "captured"
                 /\ y.paid \in Int /\ o.placed < y.paid /\ y.paid <= o.placed + 180

PaymentsMade(Y, O) ==
  /\ IsFiniteSet(Y) /\ Y # {}
  /\ \A y \in Y : \E o \in O : y.order = o.number /\ y.amount = o.total
  /\ \A o \in O : o.status \in SuccessfulStatuses => \E y \in Y : PaidFor(y, o)

\* A parcel leaves a whole number of days after the order: none, or at least one.
ShippedAt(time, o) == time \in Int /\ (time = o.placed \/ time >= o.placed + Day)

ShipmentsMade(S, O) ==
  /\ \A s, q \in S : s.order = q.order => s = q
  /\ \A s \in S : \E o \in O :
       /\ s.order = o.number /\ o.status \in ShippableStatuses
       /\ s.shipped # None => ShippedAt(s.shipped, o)
       /\ s.delivered # None =>
             /\ s.shipped # None /\ s.delivered \in Int /\ s.delivered > s.shipped
             /\ s.delivered >= s.shipped + Day

Arrived(s, i) == s.order = i.order /\ s.delivered # None /\ s.delivered \in Int

ReviewsMade(R, I, O, S) ==
  /\ \A r, q \in R : r.item = q.item => r = q
  /\ \A r \in R : \E i \in I : \E o \in O : \E s \in S :
       /\ r.item = ItemKey(i) /\ o.number = i.order /\ o.status = "delivered"
       /\ Arrived(s, i) /\ r.date \in Int /\ r.date > s.delivered

ReturnsMade(R, I, O, S, Y) ==
  /\ \A r, q \in R : r.item = q.item => r = q
  /\ \A r \in R : \E i \in I : \E o \in O :
       /\ r.item = ItemKey(i) /\ o.number = i.order /\ o.status \in {"delivered", "returned"}
       /\ r.refund # None =>
            /\ r.quantity \in 1 .. i.quantity /\ r.refund = i.price * r.quantity
            /\ CapturedIn(Y, i.order)
            /\ \E s \in S : /\ Arrived(s, i) /\ r.requested \in Int
                            /\ r.requested - s.delivered <= ReturnWindowDays * Day

Made ==
  /\ at > 2 => WarehousesMade(mem["warehouses"])
  /\ at > 3 => mem["product_categories"] # {}
  /\ at > 4 => ProductsMade(mem["products"])
  /\ at > 5 => InventoryMade(mem["inventory"], mem["products"], mem["warehouses"])
  /\ at > 6 => CustomersMade(mem["customers"], config.customers)
  /\ at > 8 => PromotionsMade(mem["promotions"])
  /\ at > 9 => OrdersMade(mem["orders"], plan, mem["products"], mem["customers"])
  /\ at > 10 => ItemsMade(mem["order_items"], mem["orders"], plan)
  /\ at > 11 => PaymentsMade(mem["payments"], mem["orders"])
  /\ at > 12 => ShipmentsMade(mem["shipments"], mem["orders"])
  /\ at > 13 => ReviewsMade(mem["product_reviews"], mem["order_items"], mem["orders"],
                            mem["shipments"])
  /\ at > 14 => ReturnsMade(mem["returns"], mem["order_items"], mem["orders"],
                            mem["shipments"], mem["payments"])

\* The rows in memory are those of the stages passed, and from the second stage
\* on they are all there is; a database that is not empty has the first supplier.
Shape ==
  /\ config \in Configs /\ at \in 1 .. 15
  /\ mem = [t \in TableNames |-> mem[t]] /\ db = [t \in TableNames |-> db[t]]
  /\ \A k \in 1 .. 14 : k >= at => mem[SEED_GENERATION_ORDER[k]] = {}
  /\ at > 1 => db = mem /\ [code |-> 1] \in mem["suppliers"]
  /\ db # NoRows => [code |-> 1] \in db["suppliers"]

Outcome ==
  /\ refused \in BOOLEAN
  /\ state = "running" => exit = None /\ ~refused
  /\ FreshRunNeverRefused /\ ValidatorAgrees

IInv == Shape /\ Made /\ Outcome

-----------------------------------------------------------------------------
(* Stages in general.                                                      *)

LEMMA OrderIs ==
  /\ SEED_GENERATION_ORDER[1] = "suppliers" /\ SEED_GENERATION_ORDER[2] = "warehouses"
  /\ SEED_GENERATION_ORDER[3] = "product_categories" /\ SEED_GENERATION_ORDER[4] = "products"
  /\ SEED_GENERATION_ORDER[5] = "inventory" /\ SEED_GENERATION_ORDER[6] = "customers"
  /\ SEED_GENERATION_ORDER[7] = "customer_addresses" /\ SEED_GENERATION_ORDER[8] = "promotions"
  /\ SEED_GENERATION_ORDER[9] = "orders" /\ SEED_GENERATION_ORDER[10] = "order_items"
  /\ SEED_GENERATION_ORDER[11] = "payments" /\ SEED_GENERATION_ORDER[12] = "shipments"
  /\ SEED_GENERATION_ORDER[13] = "product_reviews" /\ SEED_GENERATION_ORDER[14] = "returns"
BY DEF SEED_GENERATION_ORDER

LEMMA TableNamesAre ==
  TableNames = {"suppliers", "warehouses", "product_categories", "products", "inventory",
                "customers", "customer_addresses", "promotions", "orders", "order_items",
                "payments", "shipments", "product_reviews", "returns"}
<1>1. 1 .. 14 = {1, 2, 3, 4, 5, 6, 7, 8, 9, 10, 11, 12, 13, 14}
  OBVIOUS
<1> QED BY <1>1, OrderIs DEF TableNames

LEMMA OrderInjective ==
  \A i, j \in 1 .. 14 : SEED_GENERATION_ORDER[i] = SEED_GENERATION_ORDER[j] => i = j
<1> SUFFICES ASSUME NEW i \in 1 .. 14, NEW j \in 1 .. 14,
                    SEED_GENERATION_ORDER[i] = SEED_GENERATION_ORDER[j]
             PROVE  i = j
  OBVIOUS
<1>1. i \in {1, 2, 3, 4, 5, 6, 7, 8, 9, 10, 11, 12, 13, 14} 
  OBVIOUS
<1>2. j \in {1, 2, 3, 4, 5, 6, 7, 8, 9, 10, 11, 12, 13, 14} 
  OBVIOUS
<1> QED BY <1>1, <1>2, OrderIs

LEMMA StageNumber ==
  ASSUME Shape, NEW k \in 1 .. 14, At(SEED_GENERATION_ORDER[k])
  PROVE  at = k /\ state = "running"
BY OrderInjective DEF Shape, At

\* From the second stage on the constraints need only hold among the rows of the run.
LEMMA FreshAccepted ==
  ASSUME Shape, NEW k \in 2 .. 14, at = k, NEW t, t = SEED_GENERATION_ORDER[k], NEW rows,
         \A r, s \in rows : Key(t, r) = Key(t, s) => r = s,
         \A r \in rows : \A ref \in References(t, r) :
            \E s \in (IF ref[1] = t THEN rows ELSE mem[ref[1]]) : Key(ref[1], s) = ref[2],
         \A r \in rows : Checks(t, r)
  PROVE  Accepted(t, rows)
<1>1. db = mem /\ db[t] = {}
  BY DEF Shape
<1>2. db[t] \union rows = rows
  BY <1>1
<1> HIDE DEF Key, References, Checks
<1> QED BY <1>1, <1>2 DEF Accepted

LEMMA Advance ==
  ASSUME Shape, NEW k \in 1 .. 14, at = k, NEW t, t = SEED_GENERATION_ORDER[k], NEW rows,
         Persist(t, rows), Accepted(t, rows), config' = config,
         k = 1 => db = NoRows /\ [code |-> 1] \in rows
  PROVE  /\ at' = k + 1 /\ mem'[t] = rows
         /\ \A u \in TableNames : u # t => mem'[u] = mem[u]
         /\ UNCHANGED <<state, exit, refused>>
         /\ Shape'
<1>1. /\ db' = [db EXCEPT ![t] = @ \union rows] /\ mem' = [mem EXCEPT ![t] = rows]
      /\ at' = at + 1 /\ UNCHANGED <<state, exit, refused>>
  BY DEF Persist
<1>2. t \in TableNames
  BY DEF TableNames
<1>3. mem[t] = {} /\ db = mem
  <2>1. CASE k = 1
    <3>1. \A i \in 1 .. 14 : mem[SEED_GENERATION_ORDER[i]] = {}
      BY <2>1 DEF Shape
    <3>2. \A u \in TableNames : mem[u] = {}
      BY <3>1 DEF TableNames
    <3>3. mem = [u \in TableNames |-> mem[u]]
      BY DEF Shape
    <3> QED BY <3>2, <3>3, <2>1, <1>2 DEF NoRows
  <2>2. CASE k # 1
    BY <2>2 DEF Shape
  <2> QED BY <2>1, <2>2
<1>4. /\ mem'[t] = rows /\ \A u \in TableNames : u # t => mem'[u] = mem[u]
      /\ mem' = [u \in TableNames |-> mem'[u]]
  BY <1>1, <1>2 DEF Shape
<1>5. db' = mem'
  BY <1>1, <1>3, <1>4, <1>2
<1>6. at' = k + 1 /\ at' \in 1 .. 15
  BY <1>1
<1>7. ASSUME NEW i \in 1 .. 14, i >= at' PROVE mem'[SEED_GENERATION_ORDER[i]] = {}
  <2>1. SEED_GENERATION_ORDER[i] # t /\ SEED_GENERATION_ORDER[i] \in TableNames
    BY <1>6, <1>7, OrderInjective DEF TableNames
  <2>2. mem[SEED_GENERATION_ORDER[i]] = {}
    BY <1>6, <1>7 DEF Shape
  <2> QED BY <1>4, <2>1, <2>2
<1>8. [code |-> 1] \in mem'["suppliers"]
  <2>1. CASE k = 1
    BY <2>1, <1>4, OrderIs
  <2>2. CASE k # 1
    <3>1. t # "suppliers" /\ "suppliers" \in TableNames
      BY <2>2, OrderIs, OrderInjective DEF TableNames
    <3>2. [code |-> 1] \in mem["suppliers"]
      BY <2>2 DEF Shape
    <3> QED BY <3>1, <3>2, <1>4
  <2> QED BY <2>1, <2>2
<1>9. Shape'
  BY <1>4, <1>5, <1>6, <1>7, <1>8 DEF Shape
<1> QED BY <1>1, <1>4, <1>6, <1>9

LEMMA StageDone ==
  ASSUME IInv, NEW k \in 2 .. 14, at = k, state = "running",
         NEW t, t = SEED_GENERATION_ORDER[k], NEW rows,
         Persist(t, rows), Accepted(t, rows), config' = config
  PROVE  /\ at' = k + 1 /\ mem'[t] = rows
         /\ \A u \in TableNames : u # t => mem'[u] = mem[u]
         /\ Shape' /\ Outcome'
<1>1. /\ at' = k + 1 /\ mem'[t] = rows /\ \A u \in TableNames : u # t => mem'[u] = mem[u]
      /\ UNCHANGED <<state, exit, refused>> /\ Shape'
  BY Advance DEF IInv
<1>2. state' = "running" /\ exit' = None /\ refused' = FALSE /\ exit' # 0
  BY <1>1 DEF IInv, Outcome, None
<1>3. Outcome'
  BY <1>2, Zenon DEF Outcome, FreshRunNeverRefused, ValidatorAgrees
<1> QED BY <1>1, <1>3

LEMMA Raised ==
  ASSUME IInv, at <= 14, Raise, config' = config, plan' = plan, state = "running"
  PROVE  IInv'
<1>1. UNCHANGED <<db, mem, at, refused, config, plan>> /\ exit' = 1 /\ state' = "exited"
  BY DEF Raise
<1>2. Shape'
  BY <1>1 DEF IInv, Shape, NoRows
<1>3. Made'
  BY <1>1 DEF IInv, Made
<1>4. Outcome'
  <2>1. refused' = FALSE /\ at' # 15 /\ exit' # 0 /\ state' # "running"
    BY <1>1 DEF IInv, Outcome, Shape
  <2> QED BY <2>1, Zenon DEF Outcome, FreshRunNeverRefused, ValidatorAgrees
<1> QED BY <1>2, <1>3, <1>4 DEF IInv

LEMMA KeyIs == \A r :
  /\ Key("suppliers", r) = r.code /\ Key("warehouses", r) = <<r.region, r.seq>>
  /\ Key("product_categories", r) = <<r.parent, r.name>> /\ Key("products", r) = r.sku
  /\ Key("inventory", r) = <<r.product, r.warehouse>> /\ Key("customers", r) = r.number
  /\ Key("customer_addresses", r) =
        IF r.is_default THEN <<r.customer, r.type>> ELSE <<r.n, "row">>
  /\ Key("promotions", r) = r.code /\ Key("orders", r) = r.number
  /\ Key("order_items", r) = <<r.order, r.product>> /\ Key("payments", r) = r.reference
  /\ Key("shipments", r) = r.order /\ Key("product_reviews", r) = r.item
  /\ Key("returns", r) = <<r.item, r.requested>>
BY DEF Key

LEMMA ReferencesAre == \A r :
  /\ \A t \in {"suppliers", "warehouses", "customers", "promotions"} : References(t, r) = {}
  /\ References("product_categories", r) =
        IF r.parent = "none" THEN {} ELSE {<<"product_categories", <<"none", <<r.parent, 0>> >> >>}
  /\ References("products", r) =
        {<<"product_categories", r.category>>, <<"suppliers", r.supplier>>}
  /\ References("inventory", r) = {<<"products", r.product>>, <<"warehouses", r.warehouse>>}
  /\ References("customer_addresses", r) = {<<"customers", r.customer>>}
  /\ References("orders", r) = {<<"customers", r.customer>>}
        \union IF r.promotion = None THEN {} ELSE {<<"promotions", r.promotion>>}
  /\ References("order_items", r) = {<<"orders", r.order>>, <<"products", r.product>>}
  /\ References("payments", r) = {<<"orders", r.order>>}
  /\ References("shipments", r) = {<<"orders", r.order>>, <<"warehouses", r.warehouse>>}
  /\ References("product_reviews", r) = {<<"order_items", r.item>>}
  /\ References("returns", r) = {<<"order_items", r.item>>}
BY DEF References

LEMMA ChecksAre == \A r :
  /\ \A t \in {"suppliers", "warehouses", "product_categories", "products", "customers",
               "customer_addresses", "payments", "shipments", "product_reviews"} : Checks(t, r)
  /\ Checks("inventory", r) <=> r.quantity >= 0 /\ r.reorder >= 0
  /\ Checks("promotions", r) <=> r.value >= 0 /\ r.ends > r.starts
  /\ Checks("orders", r) <=> /\ r.subtotal >= 0 /\ r.discount >= 0 /\ r.tax >= 0
                             /\ r.shipping >= 0 /\ r.total >= 0
  /\ Checks("order_items", r) <=> r.quantity > 0 /\ r.line >= 0
  /\ Checks("returns", r) <=> r.quantity > 0
BY DEF Checks

LEMMA ImageFinite ==
  ASSUME NEW f, IsFiniteSet(DOMAIN f)
  PROVE  /\ IsFiniteSet({f[x] : x \in DOMAIN f})
         /\ Cardinality({f[x] : x \in DOMAIN f}) <= Cardinality(DOMAIN f)
<1> DEFINE D == DOMAIN f
           T == {f[x] : x \in D}
           g == [x \in D |-> f[x]]
<1>1. g \in Surjection(D, T)
  BY DEF Surjection
<1> QED BY <1>1, FS_Surjection

LEMMA MinTwo == ASSUME NEW a \in Int, NEW b \in Int
                PROVE  Min({a, b}) = IF a <= b THEN a ELSE b
BY DEF Min

LEMMA MaxTwo == ASSUME NEW a \in Int, NEW b \in Int
                PROVE  Max({a, b}) = IF a >= b THEN a ELSE b
BY DEF Max

LEMMA MaxOne == ASSUME NEW a \in Int PROVE Max({a}) = a
BY DEF Max

LEMMA PercentRange == ASSUME NEW x \in PercentOff PROVE x \in Nat /\ 1000 <= x /\ x <= 4000
BY DrawsAssumption

LEMMA FixedRange == ASSUME NEW x \in FixedOff PROVE x \in Nat /\ 500 <= x /\ x <= 5000
BY DrawsAssumption

LEMMA LengthRange == ASSUME NEW x \in PromotionLengths PROVE x \in Nat /\ 3 <= x /\ x <= 21
BY DrawsAssumption

LEMMA ShipRange == ASSUME NEW x \in ShipDelays PROVE x \in Nat /\ 0 <= x /\ x <= 2
BY DrawsAssumption

LEMMA PaidRange == ASSUME NEW x \in PaidDelays PROVE x \in Nat /\ 1 <= x /\ x <= 180
BY DrawsAssumption

LEMMA TransitRange == ASSUME NEW x \in TransitDelays PROVE x \in Nat /\ 1 <= x /\ x <= 7
BY DrawsAssumption

LEMMA ReviewRange == ASSUME NEW x \in ReviewDelays PROVE x \in Nat /\ 1 <= x /\ x <= 30
BY DrawsAssumption

LEMMA ReturnRange == ASSUME NEW x \in ReturnDelays PROVE x \in Nat /\ 1 <= x /\ x <= 40
BY DrawsAssumption

LEMMA SalesRange == /\ Quantities \subseteq Nat \ {0} /\ Prices \subseteq Nat
                    /\ OrderDays \subseteq Int /\ PromotionStarts \subseteq Nat
BY DrawsAssumption, SMTT(30)

LEMMA ConfigIs ==
  ASSUME Shape
  PROVE  /\ config.suppliers \in Nat \ {0} /\ config.warehouses \in Nat \ {0}
         /\ config.product_categories \in Nat \ {0} /\ config.products \in Nat \ {0}
         /\ config.inventory \in Nat \ {0} /\ config.customers \in Nat \ {0}
         /\ config.promotions \in Nat \ {0} /\ config.orders \in Nat \ {0}
         /\ config.addresses \in Nat /\ config.items \subseteq Nat \ {0}
         /\ config.start \in Int /\ config.end \in Int /\ config.start < config.end
         /\ config.years \in Seq([nov : Int, weekday : 0 .. 6])
BY ConfigsAssumption DEF Shape

-----------------------------------------------------------------------------
(* One lemma per stage.                                                    *)

LEMMA SuppliersKeeps == ASSUME IInv, Suppliers PROVE IInv'
<1> DEFINE rows == {[code |-> i] : i \in 1 .. config.suppliers}
           t == "suppliers"
<1>1. /\ Persist(t, rows) /\ UNCHANGED <<config, plan, runs>> /\ Shape /\ Outcome
      /\ t = SEED_GENERATION_ORDER[1]
  BY OrderIs DEF Suppliers, Keep, IInv
<1>2. at = 1 /\ state = "running"
  BY <1>1, StageNumber DEF Suppliers
<1>3. [code |-> 1] \in rows
  BY <1>1, ConfigIs
<1>4. CASE db = NoRows
  <2>1. db[t] = {}
    BY <1>4, TableNamesAre DEF NoRows
  <2>2. Accepted(t, rows)
    BY <2>1, KeyIs, ReferencesAre, ChecksAre DEF Accepted
  <2> HIDE DEF rows
  <2>3. /\ at' = 2 /\ Shape' /\ UNCHANGED <<state, exit, refused>>
    BY <1>1, <1>2, <1>3, <1>4, <2>2, Advance
  <2>4. Made'
    BY <2>3 DEF Made
  <2>5. state' = "running" /\ exit' = None /\ refused' = FALSE /\ exit' # 0
    BY <1>1, <1>2, <2>3 DEF Outcome, None
  <2>6. Outcome'
    BY <2>5, Zenon DEF Outcome, FreshRunNeverRefused, ValidatorAgrees
  <2> QED BY <2>3, <2>4, <2>6 DEF IInv
<1>5. CASE db # NoRows
  <2>1. [code |-> 1] \in db[t]
    BY <1>1, <1>5 DEF Shape
  <2>2. ~ Accepted(t, rows)
    BY <2>1, <1>3 DEF Accepted
  <2>3. /\ UNCHANGED <<db, mem, at>> /\ state' = "exited" /\ exit' = 1 /\ refused' = TRUE
    BY <1>1, <2>2 DEF Persist
  <2>4. Shape'
    BY <1>1, <2>3 DEF Shape, NoRows
  <2>5. Made'
    BY <1>2, <2>3 DEF Made
  <2>6. Outcome'
    BY <1>2, <1>5, <2>3 DEF Outcome, FreshRunNeverRefused, ValidatorAgrees, NoRows
  <2> QED BY <2>4, <2>5, <2>6 DEF IInv
<1> QED BY <1>4, <1>5

LEMMA WarehousesKeeps == ASSUME IInv, Warehouses PROVE IInv'
<1> DEFINE t == "warehouses"
           n == config.warehouses
<1>1. /\ UNCHANGED <<config, plan, runs>> /\ Shape /\ Made /\ Outcome
      /\ t = SEED_GENERATION_ORDER[2] /\ At(t) /\ n \in Nat \ {0}
  BY OrderIs, ConfigIs DEF Warehouses, Keep, IInv
<1>2. at = 2 /\ state = "running"
  BY <1>1, StageNumber
<1>3. PICK d \in [1 .. n -> Regions] :
        Persist(t, {[region |-> d[i], seq |-> Cardinality({j \in 1 .. i : d[j] = d[i]})] :
                      i \in 1 .. n})
  BY DEF Warehouses
<1> DEFINE f == [i \in 1 .. n |->
                   [region |-> d[i], seq |-> Cardinality({j \in 1 .. i : d[j] = d[i]})]]
           rows == {f[i] : i \in 1 .. n}
<1>4. Persist(t, rows)
  BY <1>3
<1>5. \A r \in rows : r = [region |-> r.region, seq |-> r.seq]
  OBVIOUS
<1>6. IsFiniteSet(rows) /\ rows # {}
  <2>1. IsFiniteSet(DOMAIN f)
    BY <1>1, FS_Interval
  <2>2. f[1] \in rows
    <3>1. 1 \in 1 .. n
      BY <1>1
    <3> QED BY <3>1
  <2> QED BY <2>1, <2>2, ImageFinite
<1> HIDE DEF rows
<1>7. Accepted(t, rows)
  <2>1. ASSUME NEW r \in rows, NEW s \in rows, Key(t, r) = Key(t, s) PROVE r = s
    <3>1. <<r.region, r.seq>> = <<s.region, s.seq>>
      BY <2>1, KeyIs
    <3>2. r.region = s.region /\ r.seq = s.seq
      BY <3>1
    <3> QED BY <3>2, <1>5, Zenon
  <2> QED BY <1>1, <1>2, <2>1, FreshAccepted, ReferencesAre, ChecksAre
<1>8. at' = 3 /\ mem'[t] = rows /\ Shape' /\ Outcome'
  BY <1>1, <1>2, <1>4, <1>7, StageDone
<1>9. Made'
  BY <1>5, <1>6, <1>8 DEF Made, WarehousesMade
<1> QED BY <1>8, <1>9 DEF IInv

LEMMA CategoryRowsFit ==
  ASSUME NEW n \in Nat \ {0}
  PROVE  /\ CategoryRows(n) # {}
         /\ \A r \in CategoryRows(n) : r = [parent |-> r.parent, name |-> r.name]
         /\ \A r \in CategoryRows(n) : r.parent # "none" =>
              \E s \in CategoryRows(n) : s.parent = "none" /\ s.name = <<r.parent, 0>>
<1> DEFINE D == DOMAIN Taxonomy
           c == Cardinality(D)
           Onto(s) == {s[i] : i \in DOMAIN s} = D
           names == CHOOSE s \in [1 .. c -> D] : Onto(s)
           tops == Min({n, Len(names)})
           top(i) == [parent |-> "none", name |-> <<names[i], 0>>]
           nth(k) == (k \div tops) + 1
           par(k) == names[(k % tops) + 1]
           child(k) == [parent |-> par(k),
                        name |-> IF nth(k) <= Taxonomy[par(k)] THEN <<"curated", nth(k)>>
                                 ELSE <<"specialty", nth(k) - Taxonomy[par(k)]>>]
           rows == {top(i) : i \in 1 .. tops} \union {child(k) : k \in 0 .. n - tops - 1}
<1>1. CategoryRows(n) = rows
  BY DEF CategoryRows
<1>2. c \in Nat \ {0} /\ ExistsBijection(1 .. c, D)
  BY ConfigsAssumption, FS_CardinalityType, FS_EmptySet
<1>3. names \in [1 .. c -> D]
  <2>1. PICK s \in Bijection(1 .. c, D) : TRUE
    BY <1>2 DEF ExistsBijection
  <2>2. s \in [1 .. c -> D] /\ \A x \in D : \E i \in 1 .. c : s[i] = x
    BY <2>1 DEF Bijection, Surjection
  <2>3. Onto(s)
    BY <2>2
  <2> HIDE DEF Onto
  <2> QED BY <2>2, <2>3
<1>4. tops \in 1 .. c
  <2> HIDE DEF names
  <2>1. Len(names) = c
    BY <1>2, <1>3
  <2> QED BY <2>1, <1>2, MinTwo
<1> HIDE DEF names, tops, c
<1>5. top(1) \in rows
  <2>1. 1 \in 1 .. tops
    BY <1>4, <1>2
  <2> QED BY <2>1
<1>6. \A r \in rows : r = [parent |-> r.parent, name |-> r.name]
  OBVIOUS
<1>7. ASSUME NEW r \in rows, r.parent # "none"
      PROVE  \E s \in rows : s.parent = "none" /\ s.name = <<r.parent, 0>>
  <2>1. PICK k \in 0 .. n - tops - 1 : r = child(k)
    BY <1>7
  <2>2. (k % tops) + 1 \in 1 .. tops
    BY <1>4, <1>2
  <2>3. r.parent = names[(k % tops) + 1]
    BY <2>1
  <2>4. top((k % tops) + 1) \in rows
    BY <2>2
  <2> QED BY <2>3, <2>4
<1> HIDE DEF rows
<1> QED BY <1>1, <1>5, <1>6, <1>7

LEMMA ProductCategoriesKeeps == ASSUME IInv, ProductCategories PROVE IInv'
<1> DEFINE t == "product_categories"
           rows == CategoryRows(config.product_categories)
<1>1. /\ UNCHANGED <<config, plan, runs>> /\ Shape /\ Made /\ Outcome
      /\ t = SEED_GENERATION_ORDER[3] /\ At(t) /\ Persist(t, rows)
  BY OrderIs DEF ProductCategories, Keep, IInv
<1>2. at = 3 /\ state = "running"
  BY <1>1, StageNumber
<1>3. /\ rows # {}
      /\ \A r \in rows : r = [parent |-> r.parent, name |-> r.name]
      /\ \A r \in rows : r.parent # "none" =>
           \E s \in rows : s.parent = "none" /\ s.name = <<r.parent, 0>>
  BY <1>1, ConfigIs, CategoryRowsFit
<1> HIDE DEF rows
<1>4. Accepted(t, rows)
  <2>1. ASSUME NEW r \in rows, NEW s \in rows, Key(t, r) = Key(t, s) PROVE r = s
    <3>1. <<r.parent, r.name>> = <<s.parent, s.name>>
      BY <2>1, KeyIs
    <3>2. r.parent = s.parent /\ r.name = s.name
      BY <3>1
    <3> QED BY <3>2, <1>3, Zenon
  <2>2. ASSUME NEW r \in rows, NEW ref \in References(t, r)
        PROVE  ref[1] = t /\ \E s \in rows : Key(t, s) = ref[2]
    <3>1. r.parent # "none" /\ ref = <<t, <<"none", <<r.parent, 0>> >> >>
      BY ReferencesAre
    <3>2. PICK s \in rows : s.parent = "none" /\ s.name = <<r.parent, 0>>
      BY <1>3, <3>1
    <3>3. Key(t, s) = <<"none", <<r.parent, 0>> >>
      BY <3>2, KeyIs
    <3> QED BY <3>1, <3>3
  <2> QED BY <1>1, <1>2, <2>1, <2>2, FreshAccepted, ChecksAre
<1>5. at' = 4 /\ mem'[t] = rows /\ mem'["warehouses"] = mem["warehouses"] /\ Shape' /\ Outcome'
  BY <1>1, <1>2, <1>4, StageDone, TableNamesAre
<1>6. Made'
  BY <1>1, <1>2, <1>3, <1>5 DEF Made
<1> QED BY <1>5, <1>6 DEF IInv

LEMMA ProductsKeeps == ASSUME IInv, Products PROVE IInv'
<1> DEFINE t == "products"
           n == config.products
<1>1. /\ UNCHANGED <<config, plan, runs>> /\ Shape /\ Made /\ Outcome
      /\ t = SEED_GENERATION_ORDER[4] /\ At(t) /\ n \in Nat \ {0}
  BY OrderIs, ConfigIs DEF Products, Keep, IInv
<1>2. at = 4 /\ state = "running"
  BY <1>1, StageNumber
<1>3. CASE Raise
  BY <1>1, <1>2, <1>3, Raised
<1>4. CASE ~ Raise
  <2>1. PICK c \in [1 .. n -> Keys("product_categories")], s \in [1 .. n -> Keys("suppliers")] :
          Persist(t, {[sku |-> i, category |-> c[i], supplier |-> s[i]] : i \in 1 .. n})
    BY <1>4 DEF Products
  <2> DEFINE f == [i \in 1 .. n |-> [sku |-> i, category |-> c[i], supplier |-> s[i]]]
             rows == {f[i] : i \in 1 .. n}
  <2>2. Persist(t, rows)
    BY <2>1
  <2>3. /\ IsFiniteSet(rows) /\ rows # {}
        /\ \A p, q \in rows : p.sku = q.sku => p = q
    <3>1. IsFiniteSet(DOMAIN f)
      BY <1>1, FS_Interval
    <3>2. 1 \in 1 .. n
      BY <1>1
    <3>3. f[1] \in rows
      BY <3>2
    <3>4. ASSUME NEW p \in rows, NEW q \in rows, p.sku = q.sku PROVE p = q
      <4>1. PICK i \in 1 .. n : p = f[i]
        OBVIOUS
      <4>2. PICK j \in 1 .. n : q = f[j]
        OBVIOUS
      <4>3. p.sku = i /\ q.sku = j
        BY <4>1, <4>2
      <4> QED BY <4>1, <4>2, <4>3, <3>4
    <3>5. IsFiniteSet(rows)
      BY <3>1, ImageFinite
    <3> HIDE DEF rows
    <3> QED BY <3>3, <3>4, <3>5
  <2>4. ASSUME NEW p \in rows
        PROVE  p.category \in Keys("product_categories") /\ p.supplier \in Keys("suppliers")
    <3>1. PICK i \in 1 .. n : p = f[i]
      OBVIOUS
    <3>2. p.category = c[i] /\ p.supplier = s[i]
      BY <3>1
    <3> QED BY <3>2, <2>1
  <2> HIDE DEF rows
  <2>5. Accepted(t, rows)
    <3>1. ASSUME NEW r \in rows, NEW q \in rows, Key(t, r) = Key(t, q) PROVE r = q
      <4>1. r.sku = q.sku
        BY <3>1, KeyIs
      <4> QED BY <4>1, <2>3
    <3>2. ASSUME NEW r \in rows, NEW ref \in References(t, r)
          PROVE  \E q \in (IF ref[1] = t THEN rows ELSE mem[ref[1]]) : Key(ref[1], q) = ref[2]
      <4>1. CASE ref = <<"product_categories", r.category>>
        BY <4>1, <2>4 DEF Keys
      <4>2. CASE ref = <<"suppliers", r.supplier>>
        BY <4>2, <2>4 DEF Keys
      <4> QED BY <4>1, <4>2, ReferencesAre
    <3> QED BY <1>1, <1>2, <3>1, <3>2, FreshAccepted, ChecksAre, SMTT(30)
  <2>6. /\ at' = 5 /\ mem'[t] = rows /\ Shape' /\ Outcome'
        /\ mem'["warehouses"] = mem["warehouses"]
        /\ mem'["product_categories"] = mem["product_categories"]
    BY <1>1, <1>2, <2>2, <2>5, StageDone, TableNamesAre
  <2>7. Made'
    BY <1>1, <1>2, <2>3, <2>6 DEF Made, ProductsMade
  <2> QED BY <2>6, <2>7 DEF IInv
<1> QED BY <1>3, <1>4

LEMMA KeyCounts ==
  ASSUME NEW t, IsFiniteSet(mem[t])
  PROVE  /\ IsFiniteSet(Keys(t)) /\ Cardinality(Keys(t)) \in Nat
         /\ Cardinality(mem[t]) \in Nat /\ Cardinality(Keys(t)) <= Cardinality(mem[t])
<1> DEFINE f == [r \in mem[t] |-> Key(t, r)]
<1>1. Keys(t) = {f[r] : r \in mem[t]}
  BY DEF Keys
<1>2. IsFiniteSet({f[r] : r \in DOMAIN f}) /\ Cardinality({f[r] : r \in DOMAIN f}) <= Cardinality(mem[t])
  <2>1. DOMAIN f = mem[t]
    OBVIOUS
  <2> HIDE DEF f
  <2> QED BY <2>1, ImageFinite
<1>3. IsFiniteSet(Keys(t)) /\ Cardinality(Keys(t)) <= Cardinality(mem[t])
  BY <1>1, <1>2
<1> QED BY <1>3, FS_CardinalityType

LEMMA Products2 ==
  ASSUME NEW a \in Nat, NEW b \in Nat, NEW c \in Nat, NEW d \in Nat, a <= c, b <= d
  PROVE  a * b <= c * d /\ a * b \in Nat
<1>1. a * b <= c * b
  OBVIOUS
<1>2. c * b <= c * d
  OBVIOUS
<1>3. a * b \in Nat /\ c * b \in Nat /\ c * d \in Nat
  OBVIOUS
<1> QED BY <1>1, <1>2, <1>3

LEMMA InventoryKeeps == ASSUME IInv, InventoryRows PROVE IInv'
<1> DEFINE t == "inventory"
           n == config.inventory
           P == mem["products"]
           W == mem["warehouses"]
           pairs == Keys("products") \X Keys("warehouses")
<1>1. /\ UNCHANGED <<config, plan, runs>> /\ Shape /\ Made /\ Outcome
      /\ t = SEED_GENERATION_ORDER[5] /\ At(t) /\ n \in Nat \ {0}
  BY OrderIs, ConfigIs DEF InventoryRows, Keep, IInv
<1>2. at = 5 /\ state = "running"
  BY <1>1, StageNumber
<1>3. CASE Raise
  BY <1>1, <1>2, <1>3, Raised
<1>4. CASE ~ Raise
  <2>0. PICK selected \in kSubset(n, pairs) : \E depleted \in SUBSET selected :
          Persist(t, {[product |-> p[1], warehouse |-> p[2], reorder |-> 2,
                       quantity |-> IF p \in depleted THEN 0 ELSE 12] : p \in selected})
    BY <1>4 DEF InventoryRows
  <2>1. PICK depleted \in SUBSET selected :
          Persist(t, {[product |-> p[1], warehouse |-> p[2], reorder |-> 2,
                       quantity |-> IF p \in depleted THEN 0 ELSE 12] : p \in selected})
    BY <2>0
  <2> DEFINE f == [p \in selected |-> [product |-> p[1], warehouse |-> p[2], reorder |-> 2,
                                       quantity |-> IF p \in depleted THEN 0 ELSE 12]]
             rows == {f[p] : p \in selected}
  <2>2. Persist(t, rows)
    BY <2>1
  <2>3. selected \in SUBSET pairs /\ Cardinality(selected) = n
    BY <2>0 DEF kSubset
  <2>4. /\ IsFiniteSet(pairs) /\ Cardinality(pairs) <= Cardinality(P) * Cardinality(W)
        /\ Cardinality(P) * Cardinality(W) \in Nat /\ Cardinality(pairs) \in Nat
    <3>1. IsFiniteSet(P) /\ IsFiniteSet(W)
      BY <1>1, <1>2 DEF Made, ProductsMade, WarehousesMade
    <3>2. /\ IsFiniteSet(Keys("products")) /\ Cardinality(Keys("products")) \in Nat
          /\ Cardinality(P) \in Nat /\ Cardinality(Keys("products")) <= Cardinality(P)
      BY <3>1, KeyCounts
    <3>3. /\ IsFiniteSet(Keys("warehouses")) /\ Cardinality(Keys("warehouses")) \in Nat
          /\ Cardinality(W) \in Nat /\ Cardinality(Keys("warehouses")) <= Cardinality(W)
      BY <3>1, KeyCounts
    <3>4. IsFiniteSet(pairs)
          /\ Cardinality(pairs) = Cardinality(Keys("products")) * Cardinality(Keys("warehouses"))
      BY <3>2, <3>3, FS_Product
    <3>5. Cardinality(P) * Cardinality(W) \in Nat
      BY <3>2, <3>3, Products2
    <3> QED BY <3>2, <3>3, <3>4, <3>5, Products2
  <2>5. IsFiniteSet(selected) /\ selected # {} /\ Cardinality(selected) <= Cardinality(pairs)
    BY <1>1, <2>3, <2>4, FS_Subset, FS_EmptySet
  <2>6. /\ IsFiniteSet(rows) /\ rows # {}
        /\ Cardinality(rows) <= Cardinality(selected) /\ Cardinality(rows) \in Nat
    <3>1. DOMAIN f = selected
      OBVIOUS
    <3> HIDE DEF f
    <3> QED BY <2>5, <3>1, ImageFinite, FS_CardinalityType
  <2>7. ASSUME NEW r \in rows
        PROVE  /\ r.quantity \in Nat /\ r.reorder = 2
               /\ r.product \in Keys("products") /\ r.warehouse \in Keys("warehouses")
    BY <2>3
  <2>8. ASSUME NEW r \in rows, NEW s \in rows, r.product = s.product, r.warehouse = s.warehouse
        PROVE  r = s
    <3>1. PICK p \in selected : r = f[p]
      OBVIOUS
    <3>2. PICK q \in selected : s = f[q]
      OBVIOUS
    <3>3. p = <<p[1], p[2]>> /\ q = <<q[1], q[2]>>
      BY <2>3
    <3>4. p[1] = q[1] /\ p[2] = q[2]
      BY <3>1, <3>2, <2>8
    <3> QED BY <3>1, <3>2, <3>3, <3>4
  <2> HIDE DEF rows
  <2>9. Accepted(t, rows)
    <3>1. ASSUME NEW r \in rows, NEW q \in rows, Key(t, r) = Key(t, q) PROVE r = q
      <4>1. <<r.product, r.warehouse>> = <<q.product, q.warehouse>>
        BY <3>1, KeyIs
      <4> QED BY <4>1, <2>8
    <3>2. ASSUME NEW r \in rows, NEW ref \in References(t, r)
          PROVE  \E q \in (IF ref[1] = t THEN rows ELSE mem[ref[1]]) : Key(ref[1], q) = ref[2]
      <4>1. CASE ref = <<"products", r.product>>
        BY <4>1, <2>7 DEF Keys
      <4>2. CASE ref = <<"warehouses", r.warehouse>>
        BY <4>2, <2>7 DEF Keys
      <4> QED BY <4>1, <4>2, ReferencesAre
    <3>3. ASSUME NEW r \in rows PROVE Checks(t, r)
      <4>1. r.quantity >= 0 /\ r.reorder >= 0
        BY <2>7
      <4> QED BY <4>1, ChecksAre
    <3> QED BY <1>1, <1>2, <3>1, <3>2, <3>3, FreshAccepted
  <2>10. /\ at' = 6 /\ mem'[t] = rows /\ Shape' /\ Outcome'
         /\ mem'["warehouses"] = W /\ mem'["products"] = P
         /\ mem'["product_categories"] = mem["product_categories"]
    BY <1>1, <1>2, <2>2, <2>9, StageDone, TableNamesAre
  <2>11. InventoryMade(rows, P, W)
    <3>1. \A r \in rows : r.quantity >= 0
      BY <2>7
    <3>2. Cardinality(rows) <= Cardinality(P) * Cardinality(W)
      <4> HIDE DEF P, W, pairs
      <4> QED BY <2>3, <2>4, <2>5, <2>6, <1>1
    <3> QED BY <2>6, <3>1, <3>2 DEF InventoryMade
  <2>12. Made'
    BY <1>1, <1>2, <2>10, <2>11 DEF Made
  <2> QED BY <2>10, <2>12 DEF IInv
<1> QED BY <1>3, <1>4

LEMMA CustomersKeeps == ASSUME IInv, Customers PROVE IInv'
<1> DEFINE t == "customers"
           n == config.customers
           rows == {[number |-> i] : i \in 1 .. n}
<1>1. /\ UNCHANGED <<config, plan, runs>> /\ Shape /\ Made /\ Outcome
      /\ t = SEED_GENERATION_ORDER[6] /\ At(t) /\ Persist(t, rows)
  BY OrderIs DEF Customers, Keep, IInv
<1>2. at = 6 /\ state = "running"
  BY <1>1, StageNumber
<1>3. ASSUME NEW r \in rows, NEW s \in rows, Key(t, r) = Key(t, s) PROVE r = s
  <2>1. r.number = s.number
    BY <1>3, KeyIs
  <2> QED BY <2>1
<1> HIDE DEF rows
<1>4. Accepted(t, rows)
  BY <1>1, <1>2, <1>3, FreshAccepted, ReferencesAre, ChecksAre
<1>5. /\ at' = 7 /\ mem'[t] = rows /\ Shape' /\ Outcome'
      /\ mem'["warehouses"] = mem["warehouses"] /\ mem'["products"] = mem["products"]
      /\ mem'["product_categories"] = mem["product_categories"]
      /\ mem'["inventory"] = mem["inventory"]
  BY <1>1, <1>2, <1>4, StageDone, TableNamesAre
<1>6. CustomersMade(mem'[t], config'.customers)
  BY <1>1, <1>5 DEF CustomersMade, rows
<1>7. Made'
  BY <1>1, <1>2, <1>5, <1>6 DEF Made
<1> QED BY <1>5, <1>7 DEF IInv

LEMMA CustomerAddressesKeeps == ASSUME IInv, CustomerAddresses PROVE IInv'
<1> DEFINE t == "customer_addresses"
           base == Min({config.addresses, config.customers})
           extras == config.addresses - base
<1>1. /\ UNCHANGED <<config, plan, runs>> /\ Shape /\ Made /\ Outcome
      /\ t = SEED_GENERATION_ORDER[7] /\ At(t)
  BY OrderIs DEF CustomerAddresses, Keep, IInv
<1>2. at = 7 /\ state = "running"
  BY <1>1, StageNumber
<1>3. base \in Nat /\ base <= config.customers /\ extras \in Nat
  <2>1. config.addresses \in Nat /\ config.customers \in Nat
    BY <1>1, ConfigIs
  <2>2. base = IF config.addresses <= config.customers THEN config.addresses ELSE config.customers
    BY <2>1, MinTwo
  <2> HIDE DEF base
  <2> QED BY <2>1, <2>2
<1>4. PICK extra \in [1 .. extras -> Keys("customers") \X {"billing", "shipping"}] :
        Persist(t, {[n |-> c, customer |-> c, type |-> "shipping", is_default |-> TRUE] :
                       c \in 1 .. base}
                   \union {[n |-> base + i, customer |-> extra[i][1], type |-> extra[i][2],
                            is_default |-> IsDefault(extra, base, i)] : i \in 1 .. extras})
  BY DEF CustomerAddresses
<1> HIDE DEF base, extras
<1> DEFINE first(c) == [n |-> c, customer |-> c, type |-> "shipping", is_default |-> TRUE]
           other(i) == [n |-> base + i, customer |-> extra[i][1], type |-> extra[i][2],
                        is_default |-> IsDefault(extra, base, i)]
           rows == {first(c) : c \in 1 .. base} \union {other(i) : i \in 1 .. extras}
<1>5. Persist(t, rows)
  BY <1>4
<1>6. \A i \in 1 .. extras : /\ extra[i] = <<extra[i][1], extra[i][2]>>
                             /\ extra[i][1] \in Keys("customers")
                             /\ extra[i][2] \in {"billing", "shipping"}
  BY <1>4
<1>7. ASSUME NEW c \in 1 .. base PROVE Key(t, first(c)) = <<c, "shipping">>
  <2>1. Key(t, first(c)) = IF first(c).is_default THEN <<first(c).customer, first(c).type>>
                           ELSE <<first(c).n, "row">>
    BY KeyIs
  <2> QED BY <2>1
<1>8. ASSUME NEW i \in 1 .. extras
      PROVE  /\ IsDefault(extra, base, i) => Key(t, other(i)) = extra[i]
             /\ ~ IsDefault(extra, base, i) => Key(t, other(i)) = <<base + i, "row">>
  <2>1. /\ other(i).is_default = IsDefault(extra, base, i) /\ other(i).n = base + i
        /\ other(i).customer = extra[i][1] /\ other(i).type = extra[i][2]
    OBVIOUS
  <2>2. Key(t, other(i)) = IF other(i).is_default THEN <<other(i).customer, other(i).type>>
                           ELSE <<other(i).n, "row">>
    BY KeyIs
  <2> HIDE DEF other
  <2> QED BY <2>1, <2>2, <1>6
<1>9. ASSUME NEW c \in 1 .. base, NEW i \in 1 .. extras PROVE Key(t, first(c)) # Key(t, other(i))
  <2>1. CASE IsDefault(extra, base, i)
    <3>1. ~ (extra[i][2] = "shipping" /\ extra[i][1] <= base)
      BY <2>1 DEF IsDefault
    <3>2. extra[i] # <<c, "shipping">>
      BY <3>1, <1>3
    <3> QED BY <2>1, <3>2, <1>7, <1>8
  <2>2. CASE ~ IsDefault(extra, base, i)
    <3>1. <<c, "shipping">> # <<base + i, "row">>
      OBVIOUS
    <3> QED BY <3>1, <2>2, <1>7, <1>8
  <2> QED BY <2>1, <2>2
<1>10. ASSUME NEW i \in 1 .. extras, NEW j \in 1 .. extras, Key(t, other(i)) = Key(t, other(j))
       PROVE  i = j
  <2>1. ASSUME NEW a \in 1 .. extras, NEW b \in 1 .. extras, IsDefault(extra, base, a),
               extra[a] = extra[b]
        PROVE  ~ (b < a)
    BY <2>1, <1>3 DEF IsDefault
  <2>2. CASE IsDefault(extra, base, i) /\ IsDefault(extra, base, j)
    <3>1. extra[i] = extra[j]
      BY <2>2, <1>8, <1>10
    <3>2. ~ (i < j) /\ ~ (j < i)
      BY <3>1, <2>1, <2>2
    <3> QED BY <3>2, <1>3
  <2>3. ASSUME NEW a \in 1 .. extras, NEW b \in 1 .. extras, IsDefault(extra, base, a),
               ~ IsDefault(extra, base, b)
        PROVE  Key(t, other(a)) # Key(t, other(b))
    <3>1. extra[a] # <<base + b, "row">>
      BY <1>6
    <3> QED BY <3>1, <2>3, <1>8
  <2>4. CASE ~ IsDefault(extra, base, i) /\ ~ IsDefault(extra, base, j)
    <3>1. <<base + i, "row">> = <<base + j, "row">>
      BY <2>4, <1>8, <1>10
    <3>2. base + i = base + j
      BY <3>1
    <3> QED BY <3>2, <1>3
  <2> HIDE DEF other
  <2> QED BY <2>2, <2>3, <2>4, <1>10
<1>11. ASSUME NEW r \in rows, NEW s \in rows, Key(t, r) = Key(t, s) PROVE r = s
  <2>1. \A r1 \in rows : (\E c \in 1 .. base : r1 = first(c)) \/ (\E i \in 1 .. extras : r1 = other(i))
    OBVIOUS
  <2>2. \A c, d \in 1 .. base : Key(t, first(c)) = Key(t, first(d)) => c = d
    BY <1>7
  <2> HIDE DEF first, other, rows
  <2> QED BY <2>1, <2>2, <1>9, <1>10, <1>11
<1>12. ASSUME NEW r \in rows PROVE r.customer \in Keys("customers")
  <2>1. ASSUME NEW c \in 1 .. base PROVE c \in Keys("customers")
    <3>1. [number |-> c] \in mem["customers"]
      <4>1. c \in 1 .. config.customers
        BY <1>3, ConfigIs, <1>1
      <4> QED BY <4>1, <1>1, <1>2 DEF Made, CustomersMade
    <3>2. Key("customers", [number |-> c]) = c
      BY KeyIs
    <3> QED BY <3>1, <3>2, Zenon DEF Keys
  <2>2. CASE \E c \in 1 .. base : r = first(c)
    BY <2>1, <2>2
  <2>3. CASE \E i \in 1 .. extras : r = other(i)
    BY <1>6, <2>3
  <2> QED BY <2>2, <2>3
<1> HIDE DEF rows
<1>13. Accepted(t, rows)
  <2>1. ASSUME NEW r \in rows, NEW ref \in References(t, r)
        PROVE  \E q \in (IF ref[1] = t THEN rows ELSE mem[ref[1]]) : Key(ref[1], q) = ref[2]
    <3>1. ref = <<"customers", r.customer>>
      BY ReferencesAre
    <3>2. PICK q \in mem["customers"] : Key("customers", q) = r.customer
      BY <1>12 DEF Keys
    <3> QED BY <3>1, <3>2
  <2> QED BY <1>1, <1>2, <1>11, <2>1, FreshAccepted, ChecksAre
<1>14. /\ at' = 8 /\ Shape' /\ Outcome'
       /\ mem'["warehouses"] = mem["warehouses"] /\ mem'["products"] = mem["products"]
       /\ mem'["product_categories"] = mem["product_categories"]
       /\ mem'["inventory"] = mem["inventory"] /\ mem'["customers"] = mem["customers"]
  BY <1>1, <1>2, <1>5, <1>13, StageDone, TableNamesAre
<1>15. Made'
  BY <1>1, <1>2, <1>14 DEF Made
<1> QED BY <1>14, <1>15 DEF IInv

\* The recursion of CalendarAnchoredWindows, spelled out.
WindowStarts(w) == Max({Minutes(w[1]), Minutes(config.start)})
WindowEnds(w) == Min({Minutes(w[2] + 1) - 1, Minutes(config.end + 1) - 1})
WindowKept(w) ==
  IF WindowEnds(w) > WindowStarts(w) THEN << <<WindowStarts(w), WindowEnds(w)>> >> ELSE <<>>
WindowsOf(c) == WindowKept(c[1]) \o WindowKept(c[2]) \o WindowKept(c[3])
Extend(w) ==
  [y \in 0 .. Len(config.years) |->
     IF y = 0 THEN <<>> ELSE w[y - 1] \o WindowsOf(StandardCampaigns(config.years[y]))]
AnchoredFix == CHOOSE w : w = Extend(w)

LEMMA AnchoredIs == CalendarAnchoredWindows = AnchoredFix[Len(config.years)]
BY DEF CalendarAnchoredWindows, AnchoredFix, Extend, WindowsOf, WindowKept, WindowStarts, WindowEnds

\* A window that ends after it starts.
Windows == {w \in Int \X Int : w[2] > w[1]}

LEMMA Element == ASSUME NEW T, NEW s \in Seq(T), NEW i \in 1 .. Len(s) PROVE s[i] \in T
OBVIOUS

LEMMA WindowsOfTyped ==
  ASSUME Shape, NEW y \in 1 .. Len(config.years)
  PROVE  WindowsOf(StandardCampaigns(config.years[y])) \in Seq(Windows)
<1> DEFINE year == config.years[y]
           c == StandardCampaigns(year)
<1>1. year.nov \in Int /\ year.weekday \in 0 .. 6
  <2>1. config.years \in Seq([nov : Int, weekday : 0 .. 6])
    BY ConfigIs
  <2>2. year \in [nov : Int, weekday : 0 .. 6]
    BY <2>1, Element
  <2> QED BY <2>2
<1>2. BlackFriday(year.weekday) \in Int
  BY <1>1, SMTT(30) DEF BlackFriday, Thanksgiving
<1>3. \A i \in {1, 2, 3} : c[i][1] \in Int /\ c[i][2] \in Int
  <2> DEFINE b == year.nov + BlackFriday(year.weekday)
             nov == year.nov
  <2>1. c = << <<b, b + 3>>, <<nov + 31, nov + 61>>, <<nov - 91, nov - 61>> >>
    BY DEF StandardCampaigns
  <2>2. b \in Int /\ nov \in Int
    BY <1>1, <1>2
  <2> HIDE DEF b, nov, c
  <2> QED BY <2>1, <2>2
<1> HIDE DEF c
<1>4. ASSUME NEW i \in {1, 2, 3} PROVE WindowKept(c[i]) \in Seq(Windows)
  <2> DEFINE s == WindowStarts(c[i])
             e == WindowEnds(c[i])
  <2>1. c[i][1] \in Int /\ c[i][2] \in Int /\ config.start \in Int /\ config.end \in Int
    BY <1>3, ConfigIs
  <2>2. s \in Int
    <3>1. Minutes(c[i][1]) \in Int /\ Minutes(config.start) \in Int
      BY <2>1 DEF Minutes, Day
    <3> QED BY <3>1, MaxTwo DEF WindowStarts
  <2>3. e \in Int
    <3>1. Minutes(c[i][2] + 1) - 1 \in Int /\ Minutes(config.end + 1) - 1 \in Int
      BY <2>1, SMTT(30) DEF Minutes, Day
    <3> QED BY <3>1, MinTwo DEF WindowEnds
  <2> HIDE DEF s, e
  <2>4. WindowKept(c[i]) = IF e > s THEN << <<s, e>> >> ELSE <<>>
    BY DEF WindowKept, s, e
  <2>5. e > s => <<s, e>> \in Windows
    BY <2>2, <2>3 DEF Windows
  <2> QED BY <2>4, <2>5
<1>5. WindowKept(c[1]) \in Seq(Windows) /\ WindowKept(c[2]) \in Seq(Windows)
      /\ WindowKept(c[3]) \in Seq(Windows)
  BY <1>4
<1>6. WindowsOf(c) \in Seq(Windows)
  BY <1>5 DEF WindowsOf
<1> QED BY <1>6 DEF c

LEMMA ExtendTyped ==
  ASSUME Shape, NEW w \in [0 .. Len(config.years) -> Seq(Windows)]
  PROVE  Extend(w) \in [0 .. Len(config.years) -> Seq(Windows)]
<1>0. Len(config.years) \in Nat
  BY ConfigIs
<1>1. ASSUME NEW y \in 0 .. Len(config.years), y # 0
      PROVE  w[y - 1] \o WindowsOf(StandardCampaigns(config.years[y])) \in Seq(Windows)
  <2>1. y \in 1 .. Len(config.years) /\ y - 1 \in 0 .. Len(config.years)
    BY <1>0, <1>1
  <2>2. w[y - 1] \in Seq(Windows) /\ WindowsOf(StandardCampaigns(config.years[y])) \in Seq(Windows)
    BY <2>1, WindowsOfTyped
  <2> QED BY <2>2
<1>2. <<>> \in Seq(Windows)
  OBVIOUS
<1> QED BY <1>1, <1>2 DEF Extend

LEMMA AnchoredWindows ==
  ASSUME Shape
  PROVE  CalendarAnchoredWindows \in Seq(Windows)
<1> DEFINE N == Len(config.years)
           T == [0 .. N -> Seq(Windows)]
           ExactTo(w, m) == \A y \in 0 .. N : y <= m => w[y] = Extend(w)[y]
           S == {m \in Nat : \E w \in T : ExactTo(w, m)}
<1>0. N \in Nat
  BY ConfigIs
<1>1. 0 \in S
  <2> DEFINE w == [y \in 0 .. N |-> <<>>]
  <2>1. w \in T
    OBVIOUS
  <2>2. ExactTo(w, 0)
    BY <1>0 DEF Extend
  <2> QED BY <2>1, <2>2
<1>2. ASSUME NEW m \in Nat, m \in S PROVE m + 1 \in S
  <2>1. PICK w \in T : ExactTo(w, m)
    BY <1>2
  <2> DEFINE h == Extend(w)
  <2>2. h \in T
    BY ExtendTyped
  <2>3. ASSUME NEW y \in 0 .. N, y <= m + 1 PROVE h[y] = Extend(h)[y]
    <3>1. CASE y = 0
      BY <3>1 DEF Extend
    <3>2. CASE y # 0
      <4>1. y - 1 \in 0 .. N /\ y - 1 <= m
        BY <3>2, <2>3, <1>0
      <4>2. w[y - 1] = h[y - 1]
        BY <4>1, <2>1
      <4>3. h[y] = w[y - 1] \o WindowsOf(StandardCampaigns(config.years[y]))
        BY <3>2 DEF Extend
      <4>4. Extend(h)[y] = h[y - 1] \o WindowsOf(StandardCampaigns(config.years[y]))
        <5> HIDE DEF h
        <5> QED BY <3>2 DEF Extend
      <4> QED BY <4>2, <4>3, <4>4
    <3> QED BY <3>1, <3>2
  <2> HIDE DEF h
  <2>4. ExactTo(h, m + 1)
    BY <2>3
  <2> QED BY <2>2, <2>4
<1>3. Nat \subseteq S
  <2> HIDE DEF S
  <2> QED BY <1>1, <1>2, SetInduction
<1>4. PICK w \in T : ExactTo(w, N)
  BY <1>0, <1>3
<1>5. w = Extend(w)
  <2>1. \A y \in 0 .. N : w[y] = Extend(w)[y]
    BY <1>4, <1>0
  <2>2. Extend(w) \in T
    BY ExtendTyped
  <2> QED BY <2>1, <2>2
<1>6. AnchoredFix = Extend(AnchoredFix)
  BY <1>5 DEF AnchoredFix
<1> DEFINE v == AnchoredFix
           R == {m \in Nat : m <= N => v[m] \in Seq(Windows)}
<1> HIDE DEF v
<1> DEFINE wo(y) == WindowsOf(StandardCampaigns(config.years[y]))
<1>7. \A y \in 0 .. N : v[y] = IF y = 0 THEN <<>> ELSE v[y - 1] \o wo(y)
  BY <1>6 DEF Extend, v
<1>8. 0 \in R
  <2>1. 0 \in 0 .. N
    BY <1>0
  <2>2. v[0] = <<>>
    BY <2>1, <1>7
  <2>3. v[0] \in Seq(Windows)
    BY <2>2
  <2> QED BY <2>3, Zenon
<1>9. ASSUME NEW m \in Nat, m \in R PROVE m + 1 \in R
  <2>1. SUFFICES ASSUME m + 1 <= N PROVE v[m + 1] \in Seq(Windows)
    OBVIOUS
  <2>2. v[m] \in Seq(Windows) /\ m + 1 \in 0 .. N /\ m + 1 # 0 /\ m + 1 - 1 = m
    BY <1>9, <2>1, <1>0
  <2>3. v[m + 1] = v[m] \o wo(m + 1)
    <3> HIDE DEF wo
    <3>1. PICK z \in 0 .. N : z = m + 1
      BY <2>2
    <3>2. v[z] = IF z = 0 THEN <<>> ELSE v[z - 1] \o wo(z)
      BY <1>7
    <3>3. z # 0 /\ z - 1 = m
      BY <2>2, <3>1
    <3> QED BY <3>1, <3>2, <3>3, Zenon
  <2>4. wo(m + 1) \in Seq(Windows)
    BY <2>2, <2>1, WindowsOfTyped
  <2> QED BY <2>2, <2>3, <2>4
<1>10. Nat \subseteq R
  <2> HIDE DEF R
  <2> QED BY <1>8, <1>9, SetInduction
<1>11. v[N] \in Seq(Windows)
  BY <1>10, <1>0
<1> QED BY <1>11, AnchoredIs DEF v

LEMMA PromotionsKeeps == ASSUME IInv, Promotions PROVE IInv'
<1> DEFINE t == "promotions"
           n == config.promotions
           anchored == CalendarAnchoredWindows
           discounts == ({"percentage"} \X PercentOff) \union ({"fixed_amount"} \X FixedOff)
<1>1. /\ UNCHANGED <<config, plan, runs>> /\ Shape /\ Made /\ Outcome
      /\ t = SEED_GENERATION_ORDER[8] /\ At(t) /\ n \in Nat \ {0}
  BY OrderIs, ConfigIs DEF Promotions, Keep, IInv
<1>2. at = 8 /\ state = "running"
  BY <1>1, StageNumber
<1>3. PICK d \in [1 .. n -> discounts], len \in [1 .. n -> PromotionLengths],
           start \in [1 .. n -> RandomWindowStarts] :
        Persist(t, {[code |-> i, type |-> d[i][1], value |-> d[i][2],
                     starts |-> IF i <= Len(anchored) THEN anchored[i][1] ELSE start[i],
                     ends |-> IF i <= Len(anchored) THEN anchored[i][2]
                              ELSE start[i] + len[i] * Day] : i \in 1 .. n})
  BY DEF Promotions
<1>4. anchored \in Seq(Windows)
  BY <1>1, AnchoredWindows
<1> HIDE DEF anchored
<1> DEFINE row(i) == [code |-> i, type |-> d[i][1], value |-> d[i][2],
                      starts |-> IF i <= Len(anchored) THEN anchored[i][1] ELSE start[i],
                      ends |-> IF i <= Len(anchored) THEN anchored[i][2]
                               ELSE start[i] + len[i] * Day]
           rows == {row(i) : i \in 1 .. n}
<1>5. Persist(t, rows)
  BY <1>3
<1>6. ASSUME NEW i \in 1 .. n
      PROVE  /\ row(i).code = i
             /\ row(i).value \in Nat
             /\ \/ row(i).type = "percentage" /\ row(i).value <= 4000
                \/ row(i).type = "fixed_amount"
  <2>1. row(i).code = i /\ row(i).type = d[i][1] /\ row(i).value = d[i][2]
    OBVIOUS
  <2>2. d[i] \in discounts
    BY <1>3
  <2>3. \/ d[i][1] = "percentage" /\ d[i][2] \in PercentOff
        \/ d[i][1] = "fixed_amount" /\ d[i][2] \in FixedOff
    BY <2>2
  <2>4. CASE d[i][1] = "percentage" /\ d[i][2] \in PercentOff
    <3>1. d[i][2] \in Nat /\ d[i][2] <= 4000
      BY <2>4, PercentRange
    <3> HIDE DEF row
    <3> QED BY <2>1, <2>4, <3>1
  <2>5. CASE d[i][1] = "fixed_amount" /\ d[i][2] \in FixedOff
    <3>1. d[i][2] \in Nat
      BY <2>5, FixedRange
    <3> HIDE DEF row
    <3> QED BY <2>1, <2>5, <3>1
  <2> QED BY <2>3, <2>4, <2>5
<1>7. ASSUME NEW i \in 1 .. n PROVE row(i).ends > row(i).starts
  <2>1. CASE i <= Len(anchored)
    <3>1. i \in 1 .. Len(anchored)
      BY <2>1, <1>1, <1>4
    <3>2. anchored[i] \in Windows
      BY <3>1, <1>4
    <3>3. row(i).starts = anchored[i][1] /\ row(i).ends = anchored[i][2]
      BY <2>1
    <3> HIDE DEF row
    <3> QED BY <3>2, <3>3 DEF Windows
  <2>2. CASE ~ (i <= Len(anchored))
    <3>1. row(i).starts = start[i] /\ row(i).ends = start[i] + len[i] * Day
      BY <2>2
    <3>2. start[i] \in Int
      <4>1. start[i] \in RandomWindowStarts
        BY <1>3
      <4>2. RandomWindowStarts \subseteq Int
        <5>1. Minutes(config.start) \in Int
          BY <1>1, ConfigIs DEF Minutes, Day
        <5> QED BY <5>1, SalesRange DEF RandomWindowStarts
      <4> QED BY <4>1, <4>2
    <3>3. len[i] \in Nat /\ 3 <= len[i]
      <4>1. len[i] \in PromotionLengths
        BY <1>3
      <4> QED BY <4>1, LengthRange
    <3>4. start[i] + len[i] * Day > start[i]
      <4> DEFINE l == len[i]
                 x == start[i]
      <4> HIDE DEF l, x
      <4>1. l \in Nat /\ 3 <= l /\ x \in Int
        BY <3>2, <3>3 DEF l, x
      <4>2. x + l * Day > x
        BY <4>1 DEF Day
      <4> QED BY <4>2 DEF l, x
    <3> HIDE DEF row
    <3> QED BY <3>1, <3>4
  <2> QED BY <2>1, <2>2
<1>8. row(1) \in rows
  <2>1. 1 \in 1 .. n
    BY <1>1
  <2> QED BY <2>1
<1>9. PromotionsMade(rows)
  <2>1. ASSUME NEW p \in rows
        PROVE  /\ p.code \in Nat
               /\ p.value \in Nat
               /\ \/ p.type = "percentage" /\ p.value <= 4000
                  \/ p.type = "fixed_amount"
    <3>1. PICK i \in 1 .. n : p = row(i)
      OBVIOUS
    <3>2. p.code \in Nat
      BY <3>1, <1>1
    <3>3. /\ row(i).value \in Nat
          /\ \/ row(i).type = "percentage" /\ row(i).value <= 4000
             \/ row(i).type = "fixed_amount"
      BY <1>6
    <3> HIDE DEF row, rows
    <3> QED BY <3>1, <3>2, <3>3
  <2> HIDE DEF row, rows
  <2> QED BY <2>1, <1>8 DEF PromotionsMade
<1>10. Accepted(t, rows)
  <2> HIDE DEF row
  <2>1. ASSUME NEW r \in rows, NEW s \in rows, Key(t, r) = Key(t, s) PROVE r = s
    <3>1. r.code = s.code
      BY <2>1, KeyIs
    <3>2. PICK i \in 1 .. n : r = row(i)
      OBVIOUS
    <3>3. PICK j \in 1 .. n : s = row(j)
      OBVIOUS
    <3>4. i = j
      BY <3>1, <3>2, <3>3, <1>6
    <3> QED BY <3>2, <3>3, <3>4
  <2>2. ASSUME NEW r \in rows PROVE Checks(t, r)
    <3>0. PICK i \in 1 .. n : r = row(i)
      OBVIOUS
    <3>1. r.value \in Nat
      BY <3>0, <1>6
    <3>2. r.value >= 0 /\ r.ends > r.starts
      BY <3>0, <3>1, <1>7
    <3> QED BY <3>2, ChecksAre
  <2> HIDE DEF rows
  <2> QED BY <1>1, <1>2, <2>1, <2>2, FreshAccepted, ReferencesAre
<1> HIDE DEF rows
<1>11. /\ at' = 9 /\ mem'[t] = rows /\ Shape' /\ Outcome'
       /\ mem'["warehouses"] = mem["warehouses"] /\ mem'["products"] = mem["products"]
       /\ mem'["product_categories"] = mem["product_categories"]
       /\ mem'["inventory"] = mem["inventory"] /\ mem'["customers"] = mem["customers"]
  BY <1>1, <1>2, <1>5, <1>10, StageDone, TableNamesAre
<1>12. Made'
  BY <1>1, <1>2, <1>9, <1>11 DEF Made
<1> QED BY <1>11, <1>12 DEF IInv

LEMMA PlannedMade ==
  ASSUME ProductsMade(mem["products"]), NEW f \in Plans
  PROVE  PlanMade(Planned(f), mem["products"])
<1>1. PICK ps \in (SUBSET Keys("products")) \ {{}} : f \in [ps -> Prices \X Quantities]
  BY DEF Plans
<1>2. IsFiniteSet(ps) /\ ps # {}
  BY <1>1, KeyCounts, FS_Subset DEF ProductsMade
<1> DEFINE row(p) == [product |-> p, price |-> f[p][1], quantity |-> f[p][2]]
           g == [p \in ps |-> row(p)]
           items == {g[p] : p \in ps}
<1>3. Planned(f) = items
  BY <1>1 DEF Planned
<1>4. IsFiniteSet(items) /\ items # {}
  <2>1. DOMAIN g = ps
    OBVIOUS
  <2> HIDE DEF g
  <2> QED BY <1>2, <2>1, ImageFinite
<1>5. ASSUME NEW p \in ps
      PROVE  /\ g[p].product = p /\ g[p].price \in Nat /\ g[p].quantity \in Nat \ {0}
             /\ \E q \in mem["products"] : q.sku = p
  <2>1. f[p] \in Prices \X Quantities
    BY <1>1
  <2>2. f[p][1] \in Nat /\ f[p][2] \in Nat \ {0}
    BY <2>1, SalesRange
  <2>3. p \in Keys("products")
    BY <1>1
  <2>4. \E q \in mem["products"] : q.sku = p
    BY <2>3, KeyIs DEF Keys
  <2> QED BY <2>2, <2>4
<1>6. ASSUME NEW i \in items, NEW j \in items, i.product = j.product PROVE i = j
  <2>1. PICK p \in ps : i = g[p]
    OBVIOUS
  <2>2. PICK q \in ps : j = g[q]
    OBVIOUS
  <2>3. p = q
    BY <2>1, <2>2, <1>5, <1>6
  <2> QED BY <2>1, <2>2, <2>3
<1>7. ASSUME NEW i \in items
      PROVE  /\ \E p \in mem["products"] : p.sku = i.product
             /\ i.price \in Nat /\ i.quantity \in Nat \ {0}
  <2>1. PICK p \in ps : i = g[p]
    OBVIOUS
  <2> HIDE DEF g
  <2> QED BY <2>1, <1>5
<1> HIDE DEF items
<1> QED BY <1>3, <1>4, <1>6, <1>7 DEF PlanMade

LEMMA SubtotalFamily ==
  ASSUME NEW items, NEW P, PlanMade(items, P)
  PROVE  Family([i \in items |-> i.price * i.quantity]) /\ Subtotal(items) \in Nat
<1> DEFINE f == [i \in items |-> i.price * i.quantity]
<1>1. ASSUME NEW i \in items PROVE i.price * i.quantity \in Nat
  BY Products2 DEF PlanMade
<1>2. Family(f)
  BY <1>1 DEF Family, PlanMade
<1> HIDE DEF f
<1>3. SumFunction(f) \in Nat
  BY <1>2, SumNat
<1> QED BY <1>2, <1>3 DEF Subtotal, f

LEMMA DiscountBound ==
  ASSUME NEW p, p.value \in Nat, \/ p.type = "percentage" /\ p.value <= 4000
                                 \/ p.type = "fixed_amount",
         NEW s \in Nat
  PROVE  ComputeDiscount(p, s) \in Nat /\ ComputeDiscount(p, s) <= s
<1> DEFINE v == p.value
<1>1. CASE p.type = "percentage"
  <2>1. v \in Nat /\ v <= 4000
    BY <1>1
  <2>2. ComputeDiscount(p, s) = (s * v + 5000) \div 10000
    BY <1>1 DEF ComputeDiscount, PercentageOf, RoundCurrency
  <2> HIDE DEF v
  <2>3. s * v <= s * 4000 /\ s * v \in Nat
    BY <2>1, Products2
  <2> DEFINE x == s * v
             q == (x + 5000) \div 10000
  <2>4. x \in Nat /\ x <= s * 4000
    BY <2>3
  <2> HIDE DEF x
  <2>5. q \in Nat /\ 10000 * q <= x + 5000
    BY <2>4
  <2> HIDE DEF q
  <2>6. q <= s
    BY <2>4, <2>5
  <2> QED BY <2>2, <2>5, <2>6 DEF q, x
<1>2. CASE p.type = "fixed_amount"
  <2>1. ComputeDiscount(p, s) = Min({v, s})
    BY <1>2 DEF ComputeDiscount
  <2>2. Min({v, s}) = IF v <= s THEN v ELSE s
    BY MinTwo
  <2> QED BY <2>1, <2>2
<1> QED BY <1>1, <1>2

LEMMA FeesNat ==
  ASSUME NEW s \in Nat, NEW net \in Nat
  PROVE  Tax(net) \in Nat /\ ShippingFee(s) \in Nat
<1>1. net * 725 + 5000 \in Nat
  OBVIOUS
<1>2. Tax(net) \in Nat
  BY <1>1 DEF Tax, RoundCurrency
<1> QED BY <1>2 DEF ShippingFee

LEMMA OrderRowMade ==
  ASSUME ProductsMade(mem["products"]), PromotionsMade(mem["promotions"]),
         NEW i, NEW d \in OrderDraws, NEW o, o = OrderRow(i, d)
  PROVE  /\ PlanMade(Planned(d.items), mem["products"])
         /\ o.number = i /\ o.subtotal = Subtotal(Planned(d.items)) /\ o.subtotal \in Nat
         /\ o.discount \in Nat /\ o.discount <= o.subtotal
         /\ o.tax \in Nat /\ o.shipping \in Nat
         /\ o.total = o.subtotal - o.discount + o.tax + o.shipping
         /\ \E day \in Int : o.placed = Minutes(day) + 360
         /\ o.status \in OrderStatuses
         /\ o.customer \in Keys("customers")
         /\ o.promotion \in Keys("promotions") \union {None}
<1> DEFINE s == Subtotal(Planned(d.items))
           c == CHOOSE p \in mem["promotions"] : p.code = d.promotion
           discount == IF d.promotion = None THEN 0 ELSE ComputeDiscount(c, s)
<1>1. o = [number |-> i, customer |-> d.customer, placed |-> Minutes(d.day) + 360,
           status |-> d.status, promotion |-> d.promotion, subtotal |-> s,
           discount |-> discount, tax |-> Tax(s - discount), shipping |-> ShippingFee(s),
           total |-> s - discount + Tax(s - discount) + ShippingFee(s)]
  BY DEF OrderRow
<1>2. /\ d.customer \in Keys("customers") /\ d.day \in OrderDays /\ d.status \in OrderStatuses
      /\ d.items \in Plans /\ d.promotion \in Keys("promotions") \union {None}
      /\ d.promotion # None => \E p \in mem["promotions"] : p.code = d.promotion
  BY DEF OrderDraws
<1>3. PlanMade(Planned(d.items), mem["products"]) /\ s \in Nat
  BY <1>2, PlannedMade, SubtotalFamily
<1>4. discount \in Nat /\ discount <= s
  <2>1. CASE d.promotion = None
    <3> HIDE DEF s, c
    <3> QED BY <2>1, <1>3
  <2>2. CASE d.promotion # None
    <3>1. c \in mem["promotions"]
      BY <2>2, <1>2
    <3>2. c.value \in Nat /\ ((c.type = "percentage" /\ c.value <= 4000) \/ c.type = "fixed_amount")
      BY <3>1 DEF PromotionsMade
    <3> HIDE DEF s, c
    <3>3. ComputeDiscount(c, s) \in Nat /\ ComputeDiscount(c, s) <= s
      BY <3>2, <1>3, DiscountBound
    <3> QED BY <2>2, <3>3
  <2> QED BY <2>1, <2>2
<1> HIDE DEF s, discount
<1>5. s - discount \in Nat
  BY <1>3, <1>4
<1>6. Tax(s - discount) \in Nat /\ ShippingFee(s) \in Nat
  BY <1>3, <1>5, FeesNat
<1>7. /\ o.number = i /\ o.subtotal = s /\ o.discount = discount /\ o.tax = Tax(s - discount)
      /\ o.shipping = ShippingFee(s) /\ o.placed = Minutes(d.day) + 360 /\ o.status = d.status
      /\ o.customer = d.customer /\ o.promotion = d.promotion
      /\ o.total = s - discount + Tax(s - discount) + ShippingFee(s)
  BY <1>1
<1>8. d.day \in Int
  BY <1>2, SalesRange
<1> QED BY <1>2, <1>3, <1>4, <1>6, <1>7, <1>8 DEF s

LEMMA OrdersKeeps == ASSUME IInv, Orders PROVE IInv'
<1> DEFINE t == "orders"
           n == config.orders
           P == mem["products"]
           C == mem["customers"]
<1>1. /\ UNCHANGED <<config, runs>> /\ Shape /\ Made /\ Outcome
      /\ t = SEED_GENERATION_ORDER[9] /\ At(t) /\ n \in Nat \ {0}
  BY OrderIs, ConfigIs DEF Orders, IInv
<1>2. at = 9 /\ state = "running"
  BY <1>1, StageNumber
<1>3. PICK d \in [1 .. n -> OrderDraws] :
        /\ plan' = [i \in 1 .. n |-> Planned(d[i].items)]
        /\ Persist(t, {OrderRow(i, d[i]) : i \in 1 .. n})
  BY DEF Orders
<1> DEFINE f == [i \in 1 .. n |-> OrderRow(i, d[i])]
           rows == {f[i] : i \in 1 .. n}
<1>4. Persist(t, rows)
  BY <1>3
<1>5. ProductsMade(P) /\ PromotionsMade(mem["promotions"])
  BY <1>1, <1>2 DEF Made
<1>6. ASSUME NEW o \in rows
      PROVE  \E i \in 1 .. n :
               /\ o = f[i] /\ plan'[i] = Planned(d[i].items)
               /\ PlanMade(Planned(d[i].items), P)
               /\ o.number = i /\ o.subtotal = Subtotal(Planned(d[i].items)) /\ o.subtotal \in Nat
               /\ o.discount \in Nat /\ o.discount <= o.subtotal
               /\ o.tax \in Nat /\ o.shipping \in Nat
               /\ o.total = o.subtotal - o.discount + o.tax + o.shipping
               /\ \E day \in Int : o.placed = Minutes(day) + 360
               /\ o.status \in OrderStatuses
               /\ o.customer \in Keys("customers")
               /\ o.promotion \in Keys("promotions") \union {None}
  <2>1. PICK i \in 1 .. n : o = OrderRow(i, d[i])
    OBVIOUS
  <2>2. d[i] \in OrderDraws /\ plan'[i] = Planned(d[i].items) /\ o = f[i]
    BY <1>3, <2>1
  <2>3. /\ PlanMade(Planned(d[i].items), P)
        /\ o.number = i /\ o.subtotal = Subtotal(Planned(d[i].items)) /\ o.subtotal \in Nat
        /\ o.discount \in Nat /\ o.discount <= o.subtotal
        /\ o.tax \in Nat /\ o.shipping \in Nat
        /\ o.total = o.subtotal - o.discount + o.tax + o.shipping
        /\ \E day \in Int : o.placed = Minutes(day) + 360
        /\ o.status \in OrderStatuses
        /\ o.customer \in Keys("customers")
        /\ o.promotion \in Keys("promotions") \union {None}
    <3> HIDE DEF f, n
    <3>1. PICK e \in OrderDraws : e = d[i]
      BY <2>2
    <3>2. o = OrderRow(i, e)
      BY <2>1, <3>1
    <3>3. ProductsMade(mem["products"]) /\ PromotionsMade(mem["promotions"])
      BY <1>5
    <3>4. /\ PlanMade(Planned(e.items), mem["products"])
          /\ o.number = i /\ o.subtotal = Subtotal(Planned(e.items)) /\ o.subtotal \in Nat
          /\ o.discount \in Nat /\ o.discount <= o.subtotal
          /\ o.tax \in Nat /\ o.shipping \in Nat
          /\ o.total = o.subtotal - o.discount + o.tax + o.shipping
          /\ \E day \in Int : o.placed = Minutes(day) + 360
          /\ o.status \in OrderStatuses
          /\ o.customer \in Keys("customers")
          /\ o.promotion \in Keys("promotions") \union {None}
      BY <3>2, <3>3, OrderRowMade, SMTT(30)
    <3> QED BY <3>1, <3>4, Zenon
  <2> HIDE DEF f, n
  <2> QED BY <2>2, <2>3, Zenon
<1>7. IsFiniteSet(rows) /\ rows # {}
  <2>1. IsFiniteSet(DOMAIN f) /\ DOMAIN f = 1 .. n
    BY <1>1, FS_Interval
  <2>2. 1 \in 1 .. n
    BY <1>1
  <2> HIDE DEF f
  <2> QED BY <2>1, <2>2, ImageFinite
<1> HIDE DEF rows, f
<1>8. ASSUME NEW o \in rows, NEW q \in rows, o.number = q.number PROVE o = q
  BY <1>6, <1>8
<1>9. Accepted(t, rows)
  <2>1. ASSUME NEW r \in rows, NEW s \in rows, Key(t, r) = Key(t, s) PROVE r = s
    <3>1. r.number = s.number
      BY <2>1, KeyIs
    <3> QED BY <3>1, <1>8
  <2>2. ASSUME NEW r \in rows, NEW ref \in References(t, r)
        PROVE  \E q \in (IF ref[1] = t THEN rows ELSE mem[ref[1]]) : Key(ref[1], q) = ref[2]
    <3>1. r.customer \in Keys("customers") /\ r.promotion \in Keys("promotions") \union {None}
      BY <1>6
    <3>2. CASE ref = <<"customers", r.customer>>
      BY <3>2, <3>1 DEF Keys
    <3>3. CASE ref = <<"promotions", r.promotion>> /\ r.promotion # None
      BY <3>3, <3>1 DEF Keys
    <3> QED BY <3>2, <3>3, ReferencesAre
  <2>3. ASSUME NEW r \in rows PROVE Checks(t, r)
    <3>1. /\ r.subtotal \in Nat /\ r.discount \in Nat /\ r.discount <= r.subtotal
          /\ r.tax \in Nat /\ r.shipping \in Nat
          /\ r.total = r.subtotal - r.discount + r.tax + r.shipping
      BY <1>6
    <3>2. /\ r.subtotal >= 0 /\ r.discount >= 0 /\ r.tax >= 0 /\ r.shipping >= 0 /\ r.total >= 0
      BY <3>1
    <3> QED BY <3>2, ChecksAre
  <2>4. Shape /\ at = 9 /\ t = SEED_GENERATION_ORDER[9]
    BY <1>1, <1>2
  <2> HIDE DEF t, n, P, C
  <2> QED BY <2>1, <2>2, <2>3, <2>4, FreshAccepted
<1>10. /\ at' = 10 /\ mem'[t] = rows /\ Shape' /\ Outcome'
       /\ mem'["warehouses"] = mem["warehouses"] /\ mem'["products"] = mem["products"]
       /\ mem'["product_categories"] = mem["product_categories"]
       /\ mem'["inventory"] = mem["inventory"] /\ mem'["customers"] = mem["customers"]
       /\ mem'["promotions"] = mem["promotions"]
  BY <1>1, <1>2, <1>4, <1>9, StageDone, TableNamesAre
<1>11. OrdersMade(rows, plan', P, C)
  <2>1. ASSUME NEW o \in rows
        PROVE  /\ PlanMade(plan'[o.number], P)
               /\ o.subtotal = Subtotal(plan'[o.number])
               /\ o.discount \in Nat /\ o.discount <= o.subtotal
               /\ o.total = o.subtotal - o.discount + o.tax + o.shipping
               /\ \E day \in Int : o.placed = Minutes(day) + 360
               /\ o.status \in OrderStatuses
    BY <1>6
  <2>2. ASSUME NEW o \in rows PROVE \E c \in C : c.number = o.customer
    <3>1. o.customer \in Keys("customers")
      BY <1>6
    <3> QED BY <3>1, KeyIs DEF Keys
  <2> QED BY <1>7, <1>8, <2>1, <2>2 DEF OrdersMade
<1>12. Made'
  BY <1>1, <1>2, <1>10, <1>11 DEF Made
<1> QED BY <1>10, <1>12 DEF IInv

\* What the sales stages leave alone, once the orders are placed.
CatalogueKept ==
  /\ mem'["warehouses"] = mem["warehouses"] /\ mem'["products"] = mem["products"]
  /\ mem'["product_categories"] = mem["product_categories"]
  /\ mem'["inventory"] = mem["inventory"] /\ mem'["customers"] = mem["customers"]
  /\ mem'["promotions"] = mem["promotions"] /\ mem'["orders"] = mem["orders"]

LEMMA OrderItemsKeeps == ASSUME IInv, OrderItems PROVE IInv'
<1> DEFINE t == "order_items"
           O == mem["orders"]
           P == mem["products"]
<1>1. /\ UNCHANGED <<config, plan, runs>> /\ Shape /\ Made /\ Outcome
      /\ t = SEED_GENERATION_ORDER[10] /\ At(t)
  BY OrderIs DEF OrderItems, Keep, IInv
<1>2. at = 10 /\ state = "running"
  BY <1>1, StageNumber
<1> DEFINE of(o) == {ItemRow(o, i) : i \in plan[o.number]}
           f == [o \in O |-> of(o)]
           rows == UNION {f[o] : o \in O}
<1>3. Persist(t, rows)
  <2>1. Persist(t, UNION {{[order |-> o.number, product |-> i.product, quantity |-> i.quantity,
                           price |-> i.price, line |-> i.price * i.quantity] :
                             i \in plan[o.number]} : o \in O})
    BY DEF OrderItems
  <2> DEFINE rec(o) == {[order |-> o.number, product |-> i.product, quantity |-> i.quantity,
                         price |-> i.price, line |-> i.price * i.quantity] :
                           i \in plan[o.number]}
  <2>2. \A o \in O : f[o] = rec(o)
    BY DEF ItemRow
  <2>3. Persist(t, UNION {rec(o) : o \in O})
    BY <2>1
  <2> HIDE DEF f, rec
  <2>4. {f[o] : o \in O} = {rec(o) : o \in O}
    BY <2>2
  <2> QED BY <2>3, <2>4
<1>4. OrdersMade(O, plan, P, mem["customers"])
  BY <1>1, <1>2 DEF Made
<1>5. IsFiniteSet(O) /\ O # {} /\ \A o \in O : PlanMade(plan[o.number], P)
  BY <1>4 DEF OrdersMade
<1>6. ASSUME NEW r \in rows PROVE \E o \in O : \E i \in plan[o.number] : r = ItemRow(o, i)
  <2>1. PICK o \in O : r \in f[o]
    OBVIOUS
  <2> QED BY <2>1
<1>7. ASSUME NEW o \in O, NEW i \in plan[o.number] PROVE ItemRow(o, i) \in rows
  <2>1. ItemRow(o, i) \in f[o]
    OBVIOUS
  <2> HIDE DEF f
  <2> QED BY <2>1
<1>8. ASSUME NEW o \in O, NEW i \in plan[o.number]
      PROVE  /\ ItemRow(o, i).order = o.number /\ ItemRow(o, i).product = i.product
             /\ ItemRow(o, i).quantity \in Nat \ {0} /\ ItemRow(o, i).line \in Nat
             /\ \E p \in P : p.sku = i.product
  <2>1. i.price \in Nat /\ i.quantity \in Nat \ {0} /\ \E p \in P : p.sku = i.product
    BY <1>5 DEF PlanMade
  <2>2. i.price * i.quantity \in Nat
    BY <2>1, Products2
  <2> QED BY <2>1, <2>2 DEF ItemRow
<1>9. IsFiniteSet(rows) /\ rows # {}
  <2>1. ASSUME NEW o \in O PROVE IsFiniteSet(f[o])
    <3> DEFINE g == [i \in plan[o.number] |-> ItemRow(o, i)]
    <3>1. f[o] = {g[i] : i \in DOMAIN g}
      OBVIOUS
    <3>2. IsFiniteSet(DOMAIN g)
      BY <1>5 DEF PlanMade
    <3> HIDE DEF f, g
    <3> QED BY <3>1, <3>2, ImageFinite
  <2>2. DOMAIN f = O
    OBVIOUS
  <2>3. IsFiniteSet({f[o] : o \in O})
    <3> HIDE DEF f
    <3> QED BY <2>2, <1>5, ImageFinite
  <2>4. \A T \in {f[o] : o \in O} : IsFiniteSet(T)
    BY <2>1
  <2>5. IsFiniteSet(rows)
    <3> HIDE DEF f
    <3> QED BY <2>3, <2>4, FS_UNION
  <2>6. PICK o \in O : TRUE
    BY <1>5
  <2>7. PICK i \in plan[o.number] : TRUE
    BY <1>5 DEF PlanMade
  <2> QED BY <2>5, <2>7, <1>7
<1> HIDE DEF rows
<1>10. ItemsMade(rows, O, plan)
  BY <1>6, <1>7, <1>9 DEF ItemsMade
<1>11. Accepted(t, rows)
  <2>1. ASSUME NEW r \in rows, NEW s \in rows, Key(t, r) = Key(t, s) PROVE r = s
    <3>1. <<r.order, r.product>> = <<s.order, s.product>>
      BY <2>1, KeyIs
    <3>2. PICK o \in O : \E i \in plan[o.number] : r = ItemRow(o, i)
      BY <1>6
    <3>3. PICK i \in plan[o.number] : r = ItemRow(o, i)
      BY <3>2
    <3>4. PICK q \in O : \E j \in plan[q.number] : s = ItemRow(q, j)
      BY <1>6
    <3>5. PICK j \in plan[q.number] : s = ItemRow(q, j)
      BY <3>4
    <3>6. o.number = q.number /\ i.product = j.product
      BY <3>1, <3>3, <3>5, <1>8
    <3>7. o = q
      BY <3>6, <1>4 DEF OrdersMade
    <3>8. i = j
      BY <3>6, <3>7, <1>5 DEF PlanMade
    <3> QED BY <3>3, <3>5, <3>7, <3>8
  <2>2. ASSUME NEW r \in rows, NEW ref \in References(t, r)
        PROVE  \E q \in (IF ref[1] = t THEN rows ELSE mem[ref[1]]) : Key(ref[1], q) = ref[2]
    <3>1. PICK o \in O : \E i \in plan[o.number] : r = ItemRow(o, i)
      BY <1>6
    <3>2. r.order = o.number /\ \E p \in P : p.sku = r.product
      BY <3>1, <1>8
    <3>3. CASE ref = <<"orders", r.order>>
      BY <3>3, <3>2, KeyIs
    <3>4. CASE ref = <<"products", r.product>>
      BY <3>4, <3>2, KeyIs
    <3> QED BY <3>3, <3>4, ReferencesAre
  <2>3. ASSUME NEW r \in rows PROVE Checks(t, r)
    <3>1. r.quantity \in Nat \ {0} /\ r.line \in Nat
      BY <1>6, <1>8
    <3>2. r.quantity > 0 /\ r.line >= 0
      BY <3>1
    <3> QED BY <3>2, ChecksAre
  <2> QED BY <1>1, <1>2, <2>1, <2>2, <2>3, FreshAccepted
<1>12. at' = 11 /\ mem'[t] = rows /\ Shape' /\ Outcome' /\ CatalogueKept
  BY <1>1, <1>2, <1>3, <1>11, StageDone, TableNamesAre DEF CatalogueKept
<1>13. Made'
  BY <1>1, <1>2, <1>10, <1>12 DEF Made, CatalogueKept
<1> QED BY <1>12, <1>13 DEF IInv

LEMMA PaymentsForOrderMade ==
  ASSUME NEW o, o.placed \in Int, NEW d \in PaymentDraws, NEW rows, rows = PaymentsForOrder(o, d)
  PROVE  /\ IsFiniteSet(rows) /\ rows # {}
         /\ \A y \in rows : /\ y.order = o.number /\ y.amount = o.total
                            /\ \E k \in Nat : y.reference = <<o.number, k>>
         /\ \A y, z \in rows : y.reference = z.reference => y = z
         /\ o.status \in SuccessfulStatuses => \E y \in rows : PaidFor(y, o)
<1> DEFINE n == IF d.wins = None THEN d.retries ELSE d.wins
           captured == d.wins # None \/ o.status \in SuccessfulStatuses
           row(k, status, paid) == [reference |-> <<o.number, k>>, order |-> o.number,
                                    amount |-> o.total, status |-> status, paid |-> paid]
           failed == {row(k, "failed", None) : k \in 0 .. n - 1}
           last == IF captured THEN row(n, "captured", o.placed + d.delay)
                   ELSE row(n, "failed", None)
<1>1. rows = IF o.status = "pending" THEN {row(0, "pending", None)} ELSE failed \union {last}
  BY DEF PaymentsForOrder
<1>2. n \in Nat
  <2>1. d.retries \in 0 .. 2 /\ d.wins \in {None} \union 0 .. 2
    BY DEF PaymentDraws
  <2> QED BY <2>1
<1>5. d.delay \in Int /\ 1 <= d.delay /\ d.delay <= 180
  <2>1. d.delay \in PaidDelays
    BY DEF PaymentDraws
  <2> QED BY <2>1, PaidRange
<1> HIDE DEF n
<1>3. CASE o.status = "pending"
  <2>1. rows = {row(0, "pending", None)}
    BY <1>1, <1>3
  <2>2. IsFiniteSet(rows)
    BY <2>1, FS_Singleton
  <2>3. o.status \notin SuccessfulStatuses
    BY <1>3 DEF SuccessfulStatuses
  <2>4. \A y \in rows : /\ y.order = o.number /\ y.amount = o.total
                        /\ y.reference = <<o.number, 0>>
    BY <2>1
  <2> QED BY <2>1, <2>2, <2>3, <2>4
<1>4. CASE o.status # "pending"
  <2>1. rows = failed \union {last}
    BY <1>1, <1>4
  <2>2. IsFiniteSet(rows)
    <3> DEFINE f == [k \in 0 .. n - 1 |-> row(k, "failed", None)]
    <3>1. failed = {f[k] : k \in DOMAIN f}
      OBVIOUS
    <3>2. IsFiniteSet(DOMAIN f)
      BY <1>2, FS_Interval
    <3>3. IsFiniteSet(failed)
      <4> HIDE DEF f, failed
      <4> QED BY <3>1, <3>2, ImageFinite
    <3> HIDE DEF failed, last
    <3> QED BY <2>1, <3>3, FS_AddElement
  <2>3. /\ last.reference = <<o.number, n>> /\ last.order = o.number /\ last.amount = o.total
        /\ captured => last.status = "captured" /\ last.paid = o.placed + d.delay
    OBVIOUS
  <2>4. ASSUME NEW y \in failed
        PROVE  \E k \in 0 .. n - 1 : /\ y = row(k, "failed", None) /\ y.order = o.number
                                     /\ y.amount = o.total /\ y.reference = <<o.number, k>>
    OBVIOUS
  <2>5. \A k \in 0 .. n - 1 : k \in Nat /\ k # n
    BY <1>2
  <2> HIDE DEF failed, last, row
  <2>6. ASSUME NEW y \in rows
        PROVE  /\ y.order = o.number /\ y.amount = o.total
               /\ \E k \in Nat : y.reference = <<o.number, k>>
    BY <2>1, <2>3, <2>4, <2>5, <1>2
  <2>7. ASSUME NEW y \in rows, NEW z \in rows, y.reference = z.reference PROVE y = z
    <3>1. CASE y \in failed /\ z \in failed
      <4>1. PICK k \in 0 .. n - 1 : y = row(k, "failed", None) /\ y.reference = <<o.number, k>>
        BY <2>4, <3>1
      <4>2. PICK l \in 0 .. n - 1 : z = row(l, "failed", None) /\ z.reference = <<o.number, l>>
        BY <2>4, <3>1
      <4>3. k = l
        BY <4>1, <4>2, <2>7
      <4> QED BY <4>1, <4>2, <4>3
    <3>2. ASSUME NEW x \in failed PROVE x.reference # last.reference
      BY <2>3, <2>4, <2>5
    <3> QED BY <3>1, <3>2, <2>1, <2>7
  <2>8. o.status \in SuccessfulStatuses => PaidFor(last, o)
    BY <2>3, <1>5 DEF PaidFor
  <2> QED BY <2>1, <2>2, <2>6, <2>7, <2>8
<1> QED BY <1>3, <1>4

LEMMA PaymentsKeeps == ASSUME IInv, Payments PROVE IInv'
<1> DEFINE t == "payments"
           O == mem["orders"]
<1>1. /\ UNCHANGED <<config, plan, runs>> /\ Shape /\ Made /\ Outcome
      /\ t = SEED_GENERATION_ORDER[11] /\ At(t)
  BY OrderIs DEF Payments, Keep, IInv
<1>2. at = 11 /\ state = "running"
  BY <1>1, StageNumber
<1>3. PICK d \in [O -> PaymentDraws] :
        Persist(t, UNION {PaymentsForOrder(o, d[o]) : o \in O})
  BY DEF Payments
<1> DEFINE f == [o \in O |-> PaymentsForOrder(o, d[o])]
           rows == UNION {f[o] : o \in O}
<1>4. Persist(t, rows)
  BY <1>3
<1>5. OrdersMade(O, plan, mem["products"], mem["customers"])
  BY <1>1, <1>2 DEF Made
<1>6. IsFiniteSet(O) /\ O # {} /\ \A o, q \in O : o.number = q.number => o = q
  BY <1>5 DEF OrdersMade
<1>7. ASSUME NEW o \in O
      PROVE  /\ IsFiniteSet(f[o]) /\ f[o] # {}
             /\ \A y \in f[o] : /\ y.order = o.number /\ y.amount = o.total
                                /\ \E k \in Nat : y.reference = <<o.number, k>>
             /\ \A y, z \in f[o] : y.reference = z.reference => y = z
             /\ o.status \in SuccessfulStatuses => \E y \in f[o] : PaidFor(y, o)
  <2>1. PICK e \in PaymentDraws : e = d[o]
    BY <1>3
  <2>2. f[o] = PaymentsForOrder(o, e)
    BY <2>1
  <2>3. PICK day \in Int : o.placed = Minutes(day) + 360
    BY <1>5 DEF OrdersMade
  <2>4. o.placed \in Int
    BY <2>3 DEF Minutes, Day
  <2> HIDE DEF f
  <2> QED BY <2>2, <2>4, PaymentsForOrderMade
<1>8. IsFiniteSet(rows)
  <2>1. DOMAIN f = O
    OBVIOUS
  <2>2. IsFiniteSet({f[o] : o \in O})
    <3> HIDE DEF f
    <3>1. IsFiniteSet(DOMAIN f)
      BY <2>1, <1>6
    <3>2. IsFiniteSet({f[o] : o \in DOMAIN f})
      BY <3>1, ImageFinite
    <3> QED BY <2>1, <3>2
  <2> HIDE DEF f
  <2>3. \A T \in {f[o] : o \in O} : IsFiniteSet(T)
    BY <1>7
  <2> QED BY <2>2, <2>3, FS_UNION
<1> HIDE DEF f
<1>9. ASSUME NEW y \in rows
      PROVE  \E o \in O : /\ y \in f[o] /\ y.order = o.number /\ y.amount = o.total
                          /\ \E k \in Nat : y.reference = <<o.number, k>>
  BY <1>7
<1>10. PaymentsMade(rows, O)
  <2>1. rows # {}
    BY <1>6, <1>7
  <2>2. ASSUME NEW o \in O, o.status \in SuccessfulStatuses PROVE \E y \in rows : PaidFor(y, o)
    BY <1>7, <2>2
  <2> HIDE DEF rows
  <2> QED BY <1>8, <1>9, <2>1, <2>2 DEF PaymentsMade
<1> HIDE DEF rows
<1>11. Accepted(t, rows)
  <2>1. ASSUME NEW r \in rows, NEW s \in rows, Key(t, r) = Key(t, s) PROVE r = s
    <3>1. r.reference = s.reference
      BY <2>1, KeyIs
    <3>2. PICK o \in O : r \in f[o] /\ \E k \in Nat : r.reference = <<o.number, k>>
      BY <1>9
    <3>3. PICK q \in O : s \in f[q] /\ \E k \in Nat : s.reference = <<q.number, k>>
      BY <1>9
    <3>4. o.number = q.number
      <4>1. PICK k \in Nat : r.reference = <<o.number, k>>
        BY <3>2
      <4>2. PICK l \in Nat : s.reference = <<q.number, l>>
        BY <3>3
      <4>3. <<o.number, k>> = <<q.number, l>>
        BY <3>1, <4>1, <4>2
      <4> QED BY <4>3
    <3>5. o = q
      BY <3>4, <1>6
    <3> QED BY <3>1, <3>2, <3>3, <3>5, <1>7
  <2>2. ASSUME NEW r \in rows, NEW ref \in References(t, r)
        PROVE  \E q \in (IF ref[1] = t THEN rows ELSE mem[ref[1]]) : Key(ref[1], q) = ref[2]
    <3>1. PICK o \in O : r.order = o.number
      BY <1>9
    <3>2. ref = <<"orders", r.order>>
      BY ReferencesAre
    <3> QED BY <3>1, <3>2, KeyIs
  <2> QED BY <1>1, <1>2, <2>1, <2>2, FreshAccepted, ChecksAre
<1>12. /\ at' = 12 /\ mem'[t] = rows /\ Shape' /\ Outcome' /\ CatalogueKept
       /\ mem'["order_items"] = mem["order_items"]
  BY <1>1, <1>2, <1>4, <1>11, StageDone, TableNamesAre DEF CatalogueKept
<1>13. Made'
  BY <1>1, <1>2, <1>10, <1>12 DEF Made, CatalogueKept
<1> QED BY <1>12, <1>13 DEF IInv

\* A time of the seed data is never the value that stands for no time.
LEMMA NeverNone == ASSUME NEW day \in Int, NEW k \in Int
                   PROVE  Minutes(day) + 360 + k * Day # None
BY DEF Minutes, Day, None

LEMMA ShipmentsKeeps == ASSUME IInv, Shipments PROVE IInv'
<1> DEFINE t == "shipments"
           O == mem["orders"]
           shippable == {o \in O : o.status \in ShippableStatuses}
           draws == [status : ShipmentStatuses, processing : ShipDelays,
                     transit : TransitDelays, warehouse : Keys("warehouses")]
<1>1. /\ UNCHANGED <<config, plan, runs>> /\ Shape /\ Made /\ Outcome
      /\ t = SEED_GENERATION_ORDER[12] /\ At(t)
  BY OrderIs DEF Shipments, Keep, IInv
<1>2. at = 12 /\ state = "running"
  BY <1>1, StageNumber
<1>3. CASE Raise
  BY <1>1, <1>2, <1>3, Raised
<1>4. CASE ~ Raise
  <2>1. PICK d \in [shippable -> draws] : Persist(t, {ShipmentRow(o, d[o]) : o \in shippable})
    BY <1>4 DEF Shipments
  <2> DEFINE rows == {ShipmentRow(o, d[o]) : o \in shippable}
  <2>2. OrdersMade(O, plan, mem["products"], mem["customers"])
    BY <1>1, <1>2 DEF Made
  <2>3. ASSUME NEW o \in shippable, NEW s, s = ShipmentRow(o, d[o])
        PROVE  /\ s.order = o.number /\ o.status \in ShippableStatuses
               /\ s.shipped # None => ShippedAt(s.shipped, o)
               /\ s.delivered # None =>
                     /\ s.shipped # None /\ s.delivered \in Int /\ s.delivered > s.shipped
                     /\ s.delivered >= s.shipped + Day
               /\ s.warehouse \in Keys("warehouses")
    <3> DEFINE status == ResolveStatus(o.status, d[o].status)
               pr == d[o].processing
               tr == d[o].transit
               shipped == IF status = "pending" THEN None ELSE o.placed + pr * Day
               delivered == IF status = "delivered" THEN shipped + tr * Day ELSE None
    <3>1. s = [order |-> o.number, warehouse |-> d[o].warehouse, status |-> status,
               shipped |-> shipped, delivered |-> delivered]
      BY <2>3 DEF ShipmentRow
    <3>2. d[o] \in draws
      BY <2>1
    <3>3. pr \in ShipDelays /\ tr \in TransitDelays /\ d[o].warehouse \in Keys("warehouses")
      BY <3>2
    <3>4. pr \in Nat /\ tr \in Nat /\ 1 <= tr
      BY <3>3, ShipRange, TransitRange
    <3>5. PICK day \in Int : o.placed = Minutes(day) + 360
      BY <2>2 DEF OrdersMade
    <3>6. o.placed \in Int
      BY <3>5 DEF Minutes, Day
    <3>7. /\ s.order = o.number /\ s.warehouse = d[o].warehouse
          /\ s.shipped = shipped /\ s.delivered = delivered
      BY <3>1
    <3> HIDE DEF status, pr, tr
    <3>8. o.placed + pr * Day # None
      BY <3>4, <3>5, NeverNone
    <3>9. ASSUME shipped # None PROVE ShippedAt(shipped, o)
      <4>1. shipped = o.placed + pr * Day
        BY <3>9
      <4>2. /\ o.placed + pr * Day \in Int
            /\ o.placed + pr * Day = o.placed \/ o.placed + pr * Day >= o.placed + Day
        BY <3>4, <3>6 DEF Day
      <4> QED BY <4>1, <4>2 DEF ShippedAt
    <3>10. ASSUME delivered # None
           PROVE  /\ shipped # None /\ delivered \in Int /\ delivered > shipped
                  /\ delivered >= shipped + Day
      <4>1. status = "delivered"
        BY <3>10
      <4>2. shipped = o.placed + pr * Day /\ delivered = shipped + tr * Day
        BY <4>1
      <4>3. shipped \in Int
        BY <4>2, <3>4, <3>6 DEF Day
      <4>4. /\ shipped + tr * Day \in Int /\ shipped + tr * Day > shipped
            /\ shipped + tr * Day >= shipped + Day
        <5> HIDE DEF shipped
        <5> QED BY <4>3, <3>4 DEF Day
      <4> QED BY <4>2, <4>4, <3>8
    <3> QED BY <3>3, <3>7, <3>9, <3>10
  <2>4. ASSUME NEW s \in rows PROVE \E o \in shippable : s = ShipmentRow(o, d[o])
    OBVIOUS
  <2>5. ASSUME NEW s \in rows, NEW q \in rows, s.order = q.order PROVE s = q
    <3>1. PICK o \in shippable : s = ShipmentRow(o, d[o])
      BY <2>4
    <3>2. PICK p \in shippable : q = ShipmentRow(p, d[p])
      BY <2>4
    <3>3. o.number = p.number
      BY <3>1, <3>2, <2>3, <2>5
    <3>4. o = p
      BY <3>3, <2>2 DEF OrdersMade
    <3> QED BY <3>1, <3>2, <3>4
  <2> HIDE DEF rows
  <2>6. ShipmentsMade(rows, O)
    <3>1. ASSUME NEW s \in rows
          PROVE \E o \in O :
            /\ s.order = o.number /\ o.status \in ShippableStatuses
            /\ s.shipped # None => ShippedAt(s.shipped, o)
            /\ s.delivered # None =>
                 /\ s.shipped # None /\ s.delivered \in Int /\ s.delivered > s.shipped
                 /\ s.delivered >= s.shipped + Day
      BY <2>3, <2>4
    <3> QED BY <2>5, <3>1 DEF ShipmentsMade
  <2>7. Accepted(t, rows)
    <3>1. ASSUME NEW r \in rows, NEW s \in rows, Key(t, r) = Key(t, s) PROVE r = s
      <4>1. r.order = s.order
        BY <3>1, KeyIs
      <4> QED BY <4>1, <2>5
    <3>2. ASSUME NEW r \in rows, NEW ref \in References(t, r)
          PROVE  \E q \in (IF ref[1] = t THEN rows ELSE mem[ref[1]]) : Key(ref[1], q) = ref[2]
      <4>1. r.warehouse \in Keys("warehouses") /\ \E o \in O : r.order = o.number
        BY <2>3, <2>4
      <4>2. CASE ref = <<"orders", r.order>>
        BY <4>1, <4>2, KeyIs
      <4>3. CASE ref = <<"warehouses", r.warehouse>>
        BY <4>1, <4>3 DEF Keys
      <4> QED BY <4>2, <4>3, ReferencesAre
    <3>3. \A r \in rows : Checks(t, r)
      BY ChecksAre
    <3> QED BY <1>1, <1>2, <3>1, <3>2, <3>3, FreshAccepted
  <2>8. /\ at' = 13 /\ mem'[t] = rows /\ Shape' /\ Outcome' /\ CatalogueKept
        /\ mem'["order_items"] = mem["order_items"] /\ mem'["payments"] = mem["payments"]
    BY <1>1, <1>2, <2>1, <2>7, StageDone, TableNamesAre DEF CatalogueKept, rows
  <2>9. Made'
    BY <1>1, <1>2, <2>6, <2>8 DEF Made, CatalogueKept
  <2> QED BY <2>8, <2>9 DEF IInv
<1> QED BY <1>3, <1>4

\* The delivery that counts is the one parcel's.
LEMMA DeliveredIs ==
  ASSUME NEW O, ShipmentsMade(mem["shipments"], O), NEW order, DeliveredAt(order) # None
  PROVE  \E s \in mem["shipments"] : /\ s.order = order /\ s.delivered # None
                                     /\ s.delivered \in Int /\ DeliveredAt(order) = s.delivered
<1> DEFINE D == {s \in mem["shipments"] : s.order = order /\ s.delivered # None}
           times == {s.delivered : s \in D}
<1>1. DeliveredAt(order) = IF D = {} THEN None ELSE Max(times)
  BY DEF DeliveredAt
<1>2. D # {}
  BY <1>1
<1>3. PICK s \in mem["shipments"] : s.order = order /\ s.delivered # None
  BY <1>2
<1>4. s.delivered \in Int
  BY <1>3 DEF ShipmentsMade
<1>5. \A q \in D : q = s
  BY <1>3 DEF ShipmentsMade
<1>6. times = {s.delivered}
  BY <1>3, <1>5
<1> HIDE DEF D, times
<1>7. DeliveredAt(order) = s.delivered
  BY <1>1, <1>2, <1>4, <1>6, MaxOne
<1> QED BY <1>3, <1>4, <1>7

\* An item belongs to one order, and no other item has its key.
LEMMA ItemsAre ==
  ASSUME NEW I, NEW O, NEW pl, NEW P, NEW C, OrdersMade(O, pl, P, C), ItemsMade(I, O, pl)
  PROVE  /\ \A r \in I : \E o \in O : \E i \in pl[o.number] :
              /\ r.order = o.number /\ r.product = i.product /\ r.price = i.price
              /\ r.quantity = i.quantity /\ r.line = i.price * i.quantity
              /\ r.price \in Nat /\ r.quantity \in Nat \ {0}
         /\ \A r, s \in I : ItemKey(r) = ItemKey(s) => r = s
<1>1. ASSUME NEW r \in I
      PROVE  \E o \in O : \E i \in pl[o.number] :
              /\ r = ItemRow(o, i)
              /\ r.order = o.number /\ r.product = i.product /\ r.price = i.price
              /\ r.quantity = i.quantity /\ r.line = i.price * i.quantity
              /\ r.price \in Nat /\ r.quantity \in Nat \ {0}
  <2>1. PICK o \in O : \E i \in pl[o.number] : r = ItemRow(o, i)
    BY DEF ItemsMade
  <2>2. PICK i \in pl[o.number] : r = ItemRow(o, i)
    BY <2>1
  <2>3. /\ r.order = o.number /\ r.product = i.product /\ r.price = i.price
        /\ r.quantity = i.quantity /\ r.line = i.price * i.quantity
    BY <2>2 DEF ItemRow
  <2>4. i.price \in Nat /\ i.quantity \in Nat \ {0}
    BY DEF OrdersMade, PlanMade
  <2> QED BY <2>2, <2>3, <2>4
<1>2. ASSUME NEW r \in I, NEW s \in I, ItemKey(r) = ItemKey(s) PROVE r = s
  <2>1. r.order = s.order /\ r.product = s.product
    BY <1>2 DEF ItemKey
  <2>2. PICK o \in O : \E i \in pl[o.number] :
          r = ItemRow(o, i) /\ r.order = o.number /\ r.product = i.product
    BY <1>1
  <2>3. PICK q \in O : \E j \in pl[q.number] :
          s = ItemRow(q, j) /\ s.order = q.number /\ s.product = j.product
    BY <1>1
  <2>4. o = q
    BY <2>1, <2>2, <2>3 DEF OrdersMade
  <2>5. PICK i \in pl[o.number] : r = ItemRow(o, i) /\ r.product = i.product
    BY <2>2
  <2>6. PICK j \in pl[o.number] : s = ItemRow(o, j) /\ s.product = j.product
    BY <2>3, <2>4
  <2>7. i = j
    BY <2>1, <2>5, <2>6 DEF OrdersMade, PlanMade
  <2> QED BY <2>5, <2>6, <2>7
<1> QED BY <1>1, <1>2

LEMMA OrderOfIs ==
  ASSUME NEW item, \E o \in mem["orders"] : item.order = o.number
  PROVE  OrderOf(item) \in mem["orders"] /\ OrderOf(item).number = item.order
BY DEF OrderOf

LEMMA ItemKeyIs == \A i : ItemKey(i) = Key("order_items", i)
BY KeyIs DEF ItemKey

LEMMA ProductReviewsKeeps == ASSUME IInv, ProductReviews PROVE IInv'
<1> DEFINE t == "product_reviews"
           I == mem["order_items"]
           O == mem["orders"]
           S == mem["shipments"]
<1>1. /\ UNCHANGED <<config, plan, runs>> /\ Shape /\ Made /\ Outcome
      /\ t = SEED_GENERATION_ORDER[13] /\ At(t)
  BY OrderIs DEF ProductReviews, Keep, IInv
<1>2. at = 13 /\ state = "running"
  BY <1>1, StageNumber
<1>3. PICK reviewed \in SUBSET {i \in I : Reviewable(i)} :
        \E delay \in [reviewed -> ReviewDelays] :
          Persist(t, {[item |-> ItemKey(i), date |-> DeliveredAt(i.order) + delay[i] * Day] :
                        i \in reviewed})
  BY DEF ProductReviews
<1>4. PICK delay \in [reviewed -> ReviewDelays] :
        Persist(t, {[item |-> ItemKey(i), date |-> DeliveredAt(i.order) + delay[i] * Day] :
                      i \in reviewed})
  BY <1>3
<1> DEFINE row(i) == [item |-> ItemKey(i), date |-> DeliveredAt(i.order) + delay[i] * Day]
           rows == {row(i) : i \in reviewed}
<1>5. /\ OrdersMade(O, plan, mem["products"], mem["customers"])
      /\ ItemsMade(I, O, plan) /\ ShipmentsMade(S, O)
  BY <1>1, <1>2 DEF Made
<1>6. ASSUME NEW i \in reviewed
      PROVE  /\ i \in I /\ row(i).item = ItemKey(i)
             /\ \E o \in O : \E s \in S :
                  /\ o.number = i.order /\ o.status = "delivered"
                  /\ Arrived(s, i) /\ row(i).date \in Int /\ row(i).date > s.delivered
  <2>1. i \in I /\ OrderOf(i).status = "delivered" /\ DeliveredAt(i.order) # None
    BY <1>3 DEF Reviewable
  <2>2. \E o \in O : i.order = o.number
    BY <2>1, <1>5, ItemsAre
  <2>3. OrderOf(i) \in O /\ OrderOf(i).number = i.order
    BY <2>2, OrderOfIs
  <2>4. PICK s \in S : /\ s.order = i.order /\ s.delivered # None /\ s.delivered \in Int
                       /\ DeliveredAt(i.order) = s.delivered
    BY <2>1, <1>5, DeliveredIs
  <2>5. delay[i] \in Nat /\ 1 <= delay[i]
    <3>1. delay[i] \in ReviewDelays
      BY <1>4
    <3> QED BY <3>1, ReviewRange
  <2>6. row(i).item = ItemKey(i) /\ row(i).date = s.delivered + delay[i] * Day
    BY <2>4
  <2> HIDE DEF row
  <2> DEFINE l == delay[i]
             x == s.delivered
  <2>7. l \in Nat /\ 1 <= l /\ x \in Int
    BY <2>4, <2>5
  <2> HIDE DEF l, x
  <2>8. x + l * Day \in Int /\ x + l * Day > x
    BY <2>7 DEF Day
  <2>9. row(i).date \in Int /\ row(i).date > s.delivered
    BY <2>6, <2>8 DEF l, x
  <2>10. Arrived(s, i)
    BY <2>4 DEF Arrived
  <2> QED BY <2>1, <2>3, <2>6, <2>9, <2>10
<1>7. \A r \in rows : \E i \in reviewed : r = row(i)
  OBVIOUS
<1>8. Persist(t, rows)
  BY <1>4
<1> HIDE DEF row, rows
<1>9. ASSUME NEW r \in rows, NEW q \in rows, r.item = q.item PROVE r = q
  <2>1. PICK i \in reviewed : r = row(i)
    BY <1>7
  <2>2. PICK j \in reviewed : q = row(j)
    BY <1>7
  <2>3. i \in I /\ j \in I /\ ItemKey(i) = ItemKey(j)
    BY <2>1, <2>2, <1>6, <1>9
  <2>4. i = j
    BY <2>3, <1>5, ItemsAre
  <2> QED BY <2>1, <2>2, <2>4
<1>10. ReviewsMade(rows, I, O, S)
  <2>1. ASSUME NEW r \in rows
        PROVE  \E i \in I : \E o \in O : \E s \in S :
                 /\ r.item = ItemKey(i) /\ o.number = i.order /\ o.status = "delivered"
                 /\ Arrived(s, i) /\ r.date \in Int /\ r.date > s.delivered
    <3>1. PICK i \in reviewed : r = row(i)
      BY <1>7
    <3>2. PICK o \in O : \E s \in S :
            /\ o.number = i.order /\ o.status = "delivered"
            /\ Arrived(s, i) /\ row(i).date \in Int /\ row(i).date > s.delivered
      BY <1>6
    <3> QED BY <3>1, <3>2, <1>6
  <2> QED BY <1>9, <2>1 DEF ReviewsMade
<1>11. Accepted(t, rows)
  <2>1. ASSUME NEW r \in rows, NEW s \in rows, Key(t, r) = Key(t, s) PROVE r = s
    <3>1. r.item = s.item
      BY <2>1, KeyIs
    <3> QED BY <3>1, <1>9
  <2>2. ASSUME NEW r \in rows, NEW ref \in References(t, r)
        PROVE  \E q \in (IF ref[1] = t THEN rows ELSE mem[ref[1]]) : Key(ref[1], q) = ref[2]
    <3>1. PICK i \in I : r.item = Key("order_items", i)
      BY <1>6, <1>7, ItemKeyIs
    <3>2. ref = <<"order_items", r.item>>
      BY ReferencesAre
    <3> QED BY <3>1, <3>2
  <2>3. \A r \in rows : Checks(t, r)
    BY ChecksAre
  <2> QED BY <1>1, <1>2, <2>1, <2>2, <2>3, FreshAccepted
<1>12. /\ at' = 14 /\ mem'[t] = rows /\ Shape' /\ Outcome' /\ CatalogueKept
       /\ mem'["order_items"] = I /\ mem'["payments"] = mem["payments"] /\ mem'["shipments"] = S
  BY <1>1, <1>2, <1>8, <1>11, StageDone, TableNamesAre DEF CatalogueKept
<1>13. Made'
  BY <1>1, <1>2, <1>10, <1>12 DEF Made, CatalogueKept
<1> QED BY <1>12, <1>13 DEF IInv

LEMMA ReturnRowMade ==
  ASSUME NEW O, NEW I, NEW pl, NEW P, NEW C, OrdersMade(O, pl, P, C), ItemsMade(I, O, pl),
         O = mem["orders"], ShipmentsMade(mem["shipments"], O),
         NEW i \in I, Returnable(i), NEW d \in ReturnDraws(i), NEW r, r = ReturnRow(i, d)
  PROVE  /\ r.item = ItemKey(i) /\ r.quantity > 0
         /\ \E o \in O : o.number = i.order /\ o.status \in {"delivered", "returned"}
         /\ r.refund # None =>
              /\ r.quantity \in 1 .. i.quantity /\ r.refund = i.price * r.quantity
              /\ CapturedIn(mem["payments"], i.order)
              /\ \E s \in mem["shipments"] :
                   /\ Arrived(s, i) /\ r.requested \in Int
                   /\ r.requested - s.delivered <= ReturnWindowDays * Day
<1>1. DeliveredAt(i.order) # None /\ OrderOf(i).status \in {"delivered", "returned"}
  BY DEF Returnable
<1>2. /\ i.quantity \in Nat \ {0}
      /\ \E o \in O : i.order = o.number
  BY ItemsAre
<1>3. OrderOf(i) \in O /\ OrderOf(i).number = i.order
  BY <1>2, OrderOfIs
<1>4. PICK s \in mem["shipments"] : /\ s.order = i.order /\ s.delivered # None
                                    /\ s.delivered \in Int /\ DeliveredAt(i.order) = s.delivered
  BY <1>1, DeliveredIs
<1>5. /\ d.delay \in ReturnDelays /\ d.quantity \in 1 .. i.quantity
      /\ d.status \in ReturnStatuses(d.delay <= ReturnWindowDays, Captured(i.order))
  BY DEF ReturnDraws
<1>6. /\ r.item = ItemKey(i) /\ r.quantity = d.quantity
      /\ r.requested = s.delivered + d.delay * Day
      /\ r.refund = IF d.status \in Refundable THEN i.price * d.quantity ELSE None
  BY <1>4 DEF ReturnRow
<1>7. r.quantity > 0
  BY <1>2, <1>5, <1>6
<1>8. Arrived(s, i)
  BY <1>4 DEF Arrived
<1>9. ASSUME r.refund # None
      PROVE  /\ r.quantity \in 1 .. i.quantity /\ r.refund = i.price * r.quantity
             /\ CapturedIn(mem["payments"], i.order)
             /\ r.requested \in Int
             /\ r.requested - s.delivered <= ReturnWindowDays * Day
  <2>1. d.status \in Refundable
    BY <1>6, <1>9
  <2>2. d.delay <= ReturnWindowDays /\ Captured(i.order)
    BY <1>5, <2>1 DEF ReturnStatuses, Refundable
  <2>3. CapturedIn(mem["payments"], i.order)
    BY <2>2 DEF Captured, CapturedIn
  <2>4. d.delay \in Nat
    BY <1>5, ReturnRange
  <2>5. r.requested \in Int /\ r.requested - s.delivered <= ReturnWindowDays * Day
    <3> DEFINE l == d.delay
               x == s.delivered
    <3>1. l \in Nat /\ l <= 30 /\ x \in Int
      BY <2>2, <2>4, <1>4 DEF ReturnWindowDays
    <3> HIDE DEF l, x
    <3>2. x + l * Day \in Int /\ (x + l * Day) - x <= 30 * Day
      BY <3>1 DEF Day
    <3> QED BY <3>2, <1>6 DEF l, x, ReturnWindowDays
  <2> QED BY <1>5, <1>6, <2>1, <2>3, <2>5
<1> QED BY <1>1, <1>3, <1>6, <1>7, <1>8, <1>9

LEMMA ReturnsKeeps == ASSUME IInv, Returns PROVE IInv'
<1> DEFINE t == "returns"
           I == mem["order_items"]
           O == mem["orders"]
           S == mem["shipments"]
           Y == mem["payments"]
<1>1. /\ UNCHANGED <<config, plan, runs>> /\ Shape /\ Made /\ Outcome
      /\ t = SEED_GENERATION_ORDER[14] /\ At(t)
  BY OrderIs DEF Returns, Keep, IInv
<1>2. at = 14 /\ state = "running"
  BY <1>1, StageNumber
<1>3. PICK returned \in SUBSET {i \in I : Returnable(i)} :
        \E d \in [returned -> UNION {ReturnDraws(i) : i \in returned}] :
          /\ \A i \in returned : d[i] \in ReturnDraws(i)
          /\ Persist(t, {ReturnRow(i, d[i]) : i \in returned})
  BY DEF Returns
<1>4. PICK d \in [returned -> UNION {ReturnDraws(i) : i \in returned}] :
        /\ \A i \in returned : d[i] \in ReturnDraws(i)
        /\ Persist(t, {ReturnRow(i, d[i]) : i \in returned})
  BY <1>3
<1> DEFINE row(i) == ReturnRow(i, d[i])
           rows == {row(i) : i \in returned}
<1>5. /\ OrdersMade(O, plan, mem["products"], mem["customers"])
      /\ ItemsMade(I, O, plan) /\ ShipmentsMade(S, O)
  BY <1>1, <1>2 DEF Made
<1>6. ASSUME NEW i \in returned
      PROVE  /\ i \in I /\ row(i).item = ItemKey(i) /\ row(i).quantity > 0
             /\ \E o \in O : o.number = i.order /\ o.status \in {"delivered", "returned"}
             /\ row(i).refund # None =>
                  /\ row(i).quantity \in 1 .. i.quantity
                  /\ row(i).refund = i.price * row(i).quantity
                  /\ CapturedIn(Y, i.order)
                  /\ \E s \in S : /\ Arrived(s, i) /\ row(i).requested \in Int
                                  /\ row(i).requested - s.delivered <= ReturnWindowDays * Day
  <2>1. i \in I /\ Returnable(i)
    BY <1>3
  <2>2. PICK e \in ReturnDraws(i) : e = d[i]
    BY <1>4
  <2>3. row(i) = ReturnRow(i, e)
    BY <2>2
  <2> HIDE DEF row
  <2> QED BY <2>1, <2>3, <1>5, ReturnRowMade
<1>7. \A r \in rows : \E i \in returned : r = row(i)
  OBVIOUS
<1>8. Persist(t, rows)
  BY <1>4
<1> HIDE DEF row, rows
<1>9. ASSUME NEW r \in rows, NEW q \in rows, r.item = q.item PROVE r = q
  <2>1. PICK i \in returned : r = row(i)
    BY <1>7
  <2>2. PICK j \in returned : q = row(j)
    BY <1>7
  <2>3. i \in I /\ j \in I /\ ItemKey(i) = ItemKey(j)
    BY <2>1, <2>2, <1>6, <1>9
  <2>4. i = j
    BY <2>3, <1>5, ItemsAre
  <2> QED BY <2>1, <2>2, <2>4
<1>10. ReturnsMade(rows, I, O, S, Y)
  <2>1. ASSUME NEW r \in rows
        PROVE  \E i \in I : \E o \in O :
                 /\ r.item = ItemKey(i) /\ o.number = i.order
                 /\ o.status \in {"delivered", "returned"}
                 /\ r.refund # None =>
                      /\ r.quantity \in 1 .. i.quantity /\ r.refund = i.price * r.quantity
                      /\ CapturedIn(Y, i.order)
                      /\ \E s \in S : /\ Arrived(s, i) /\ r.requested \in Int
                                      /\ r.requested - s.delivered <= ReturnWindowDays * Day
    <3>1. PICK i \in returned : r = row(i)
      BY <1>7
    <3>2. PICK o \in O : o.number = i.order /\ o.status \in {"delivered", "returned"}
      BY <1>6
    <3> QED BY <3>1, <3>2, <1>6, Zenon
  <2> QED BY <1>9, <2>1, Zenon DEF ReturnsMade
<1>11. Accepted(t, rows)
  <2>1. ASSUME NEW r \in rows, NEW s \in rows, Key(t, r) = Key(t, s) PROVE r = s
    <3>1. <<r.item, r.requested>> = <<s.item, s.requested>>
      BY <2>1, KeyIs
    <3>2. r.item = s.item
      BY <3>1
    <3> QED BY <3>2, <1>9
  <2>2. ASSUME NEW r \in rows, NEW ref \in References(t, r)
        PROVE  \E q \in (IF ref[1] = t THEN rows ELSE mem[ref[1]]) : Key(ref[1], q) = ref[2]
    <3>1. PICK i \in I : r.item = Key("order_items", i)
      BY <1>6, <1>7, ItemKeyIs
    <3>2. ref = <<"order_items", r.item>>
      BY ReferencesAre
    <3> QED BY <3>1, <3>2
  <2>3. ASSUME NEW r \in rows PROVE Checks(t, r)
    <3>1. r.quantity > 0
      BY <1>6, <1>7
    <3> QED BY <3>1, ChecksAre
  <2> QED BY <1>1, <1>2, <2>1, <2>2, <2>3, FreshAccepted
<1>12. /\ at' = 15 /\ mem'[t] = rows /\ Shape' /\ Outcome' /\ CatalogueKept
       /\ mem'["order_items"] = I /\ mem'["payments"] = Y /\ mem'["shipments"] = S
       /\ mem'["product_reviews"] = mem["product_reviews"]
  BY <1>1, <1>2, <1>8, <1>11, StageDone, TableNamesAre DEF CatalogueKept
<1>13. Made'
  BY <1>1, <1>2, <1>10, <1>12 DEF Made, CatalogueKept
<1> QED BY <1>12, <1>13 DEF IInv

-----------------------------------------------------------------------------
(* What the facts say of sums.                                             *)

LEMMA EmptySum == ASSUME NEW f, DOMAIN f = {}, f \in [DOMAIN f -> Nat] PROVE SumFunction(f) = 0
<1>1. Family(f)
  BY FS_EmptySet DEF Family
<1> QED BY <1>1, SumIs, PartialPick

\* The lines of an order add up to what its plan was priced at.
LEMMA LinesAddUp ==
  ASSUME NEW I, NEW O, NEW pl, NEW P, NEW C, OrdersMade(O, pl, P, C), ItemsMade(I, O, pl),
         NEW o \in O
  PROVE  SumFunction([r \in {r \in I : r.order = o.number} |-> r.line]) = o.subtotal
<1> DEFINE A == {r \in I : r.order = o.number}
           B == pl[o.number]
           f == [r \in A |-> r.line]
           h == [i \in B |-> i.price * i.quantity]
           g == [r \in A |-> CHOOSE i \in B : r = ItemRow(o, i)]
           k == [i \in B |-> ItemRow(o, i)]
<1>1. PlanMade(B, P) /\ o.subtotal = Subtotal(B)
  BY DEF OrdersMade
<1>2. Family(h) /\ SumFunction(h) = Subtotal(B)
  BY <1>1, SubtotalFamily DEF Subtotal
<1>3. ASSUME NEW r \in A PROVE \E i \in B : r = ItemRow(o, i)
  <2>1. PICK q \in O : \E i \in pl[q.number] : r = ItemRow(q, i)
    BY DEF ItemsMade
  <2>2. r.order = q.number
    BY <2>1 DEF ItemRow
  <2>3. q = o
    BY <2>2 DEF OrdersMade
  <2> QED BY <2>1, <2>3
<1>4. ASSUME NEW r \in A PROVE g[r] \in B /\ r = ItemRow(o, g[r])
  BY <1>3
<1>5. ASSUME NEW i \in B PROVE ItemRow(o, i) \in A /\ ItemRow(o, i).line = h[i] /\ h[i] \in Nat
  <2>1. ItemRow(o, i) \in I
    BY DEF ItemsMade
  <2>2. ItemRow(o, i).order = o.number /\ ItemRow(o, i).line = i.price * i.quantity
    BY DEF ItemRow
  <2>3. h[i] \in Nat
    BY <1>2 DEF Family
  <2> QED BY <2>1, <2>2, <2>3
<1>6. ASSUME NEW i \in B, NEW j \in B, ItemRow(o, i) = ItemRow(o, j) PROVE i = j
  <2>1. i.product = j.product
    BY <1>6 DEF ItemRow
  <2> QED BY <2>1, <1>1 DEF PlanMade
<1>7. DOMAIN f = A /\ DOMAIN h = B /\ \A r \in A : f[r] = r.line
  OBVIOUS
<1>8. g \in [A -> B] /\ k \in [B -> A] /\ \A i \in B : k[i] = ItemRow(o, i)
  BY <1>3, <1>5
<1>9. Family(f)
  <2>1. IsFiniteSet(A)
    BY FS_Subset DEF ItemsMade
  <2>2. ASSUME NEW r \in A PROVE r.line \in Nat
    <3>1. g[r] \in B /\ r = ItemRow(o, g[r])
      BY <1>4
    <3>2. PICK i \in B : i = g[r]
      BY <3>1
    <3>3. ItemRow(o, i).line = h[i] /\ h[i] \in Nat
      BY <1>5
    <3> HIDE DEF h, g
    <3> QED BY <3>1, <3>2, <3>3
  <2> QED BY <2>1, <2>2 DEF Family
<1>10. \A r \in A : f[r] = h[g[r]]
  <2> HIDE DEF h, g
  <2> QED BY <1>4, <1>5, <1>7
<1> HIDE DEF f, h, g, k, A, B
<1>11. SumFunction(f) <= SumFunction(h)
  <2>1. \A x, y \in DOMAIN f : g[x] = g[y] => x = y
    BY <1>4, <1>7, Zenon
  <2>2. \A x \in DOMAIN f : f[x] <= h[g[x]]
    BY <1>7, <1>9, <1>10 DEF Family
  <2>3. g \in [DOMAIN f -> DOMAIN h]
    BY <1>7, <1>8
  <2> QED BY <2>1, <2>2, <2>3, <1>2, <1>9, SumInjective
<1>12. SumFunction(h) <= SumFunction(f)
  <2>1. \A x, y \in DOMAIN h : k[x] = k[y] => x = y
    BY <1>6, <1>7, <1>8
  <2>2. \A x \in DOMAIN h : h[x] <= f[k[x]]
    <3>1. ASSUME NEW x \in B PROVE h[x] = f[k[x]] /\ h[x] \in Nat
      BY <1>5, <1>7, <1>8
    <3> QED BY <3>1, <1>7
  <2>3. k \in [DOMAIN h -> DOMAIN f]
    BY <1>7, <1>8
  <2> QED BY <2>1, <2>2, <2>3, <1>2, <1>9, SumInjective
<1>13. SumFunction(f) \in Nat /\ SumFunction(h) \in Nat
  BY <1>2, <1>9, SumNat
<1>14. SumFunction(f) = o.subtotal
  BY <1>1, <1>2, <1>11, <1>12, <1>13
<1> QED BY <1>14 DEF f, A

\* The refunds of an order stay within what its items were priced at.
LEMMA RefundsWithin ==
  ASSUME NEW R, NEW I, NEW O, NEW pl, NEW P, NEW C, NEW S, NEW Y,
         OrdersMade(O, pl, P, C), ItemsMade(I, O, pl), ReturnsMade(R, I, O, S, Y), NEW o \in O
  PROVE  SumFunction([r \in {r \in R : r.item[1] = o.number} |->
                        IF r.refund = None THEN 0 ELSE r.refund]) <= o.subtotal
<1> DEFINE A == {r \in R : r.item[1] = o.number}
           B == pl[o.number]
           f == [r \in A |-> IF r.refund = None THEN 0 ELSE r.refund]
           h == [i \in B |-> i.price * i.quantity]
           For(r, i) == r.item = ItemKey(ItemRow(o, i))
           g == [r \in A |-> CHOOSE i \in B : For(r, i)]
<1>1. PlanMade(B, P) /\ o.subtotal = Subtotal(B)
  BY DEF OrdersMade
<1>2. Family(h) /\ SumFunction(h) = Subtotal(B)
  BY <1>1, SubtotalFamily DEF Subtotal
<1>3. ASSUME NEW r \in A
      PROVE  \E i \in B : /\ For(r, i)
                          /\ r.refund # None => /\ r.quantity \in 1 .. i.quantity
                                                /\ r.refund = i.price * r.quantity
  <2>1. PICK x \in I : /\ r.item = ItemKey(x)
                       /\ r.refund # None => /\ r.quantity \in 1 .. x.quantity
                                             /\ r.refund = x.price * r.quantity
    BY DEF ReturnsMade
  <2>2. PICK q \in O : \E i \in pl[q.number] : x = ItemRow(q, i)
    BY DEF ItemsMade
  <2>3. r.item[1] = x.order
    BY <2>1 DEF ItemKey
  <2>4. x.order = q.number
    BY <2>2 DEF ItemRow
  <2>5. q = o
    BY <2>3, <2>4 DEF OrdersMade
  <2>6. PICK i \in B : x = ItemRow(o, i)
    BY <2>2, <2>5
  <2>7. x.price = i.price /\ x.quantity = i.quantity
    BY <2>6 DEF ItemRow
  <2> QED BY <2>1, <2>6, <2>7
<1>4. ASSUME NEW i \in B, NEW j \in B, ItemKey(ItemRow(o, i)) = ItemKey(ItemRow(o, j))
      PROVE  i = j
  <2>1. i.product = j.product
    BY <1>4 DEF ItemRow, ItemKey
  <2> QED BY <2>1, <1>1 DEF PlanMade
<1>5. ASSUME NEW r \in A
      PROVE  /\ g[r] \in B /\ For(r, g[r])
             /\ f[r] \in Nat /\ f[r] <= h[g[r]]
  <2>1. PICK i \in B : /\ For(r, i)
                       /\ r.refund # None => /\ r.quantity \in 1 .. i.quantity
                                             /\ r.refund = i.price * r.quantity
    BY <1>3
  <2>2. g[r] \in B /\ For(r, g[r])
    <3> HIDE DEF For
    <3> QED BY <2>1
  <2>3. g[r] = i
    <3> HIDE DEF g
    <3> QED BY <2>1, <2>2, <1>4
  <2>4. i.price \in Nat /\ i.quantity \in Nat
    BY <1>1 DEF PlanMade
  <2>5. h[i] = i.price * i.quantity
    OBVIOUS
  <2>6. CASE r.refund = None
    <3>1. f[r] = 0
      BY <2>6
    <3>2. i.price * i.quantity \in Nat
      BY <2>4, Products2
    <3> HIDE DEF f, h, g, For
    <3> QED BY <2>2, <2>3, <2>5, <3>1, <3>2
  <2>7. CASE r.refund # None
    <3>1. f[r] = i.price * r.quantity /\ r.quantity \in Nat /\ r.quantity <= i.quantity
      BY <2>1, <2>7, <2>4
    <3>2. i.price * r.quantity \in Nat /\ i.price * r.quantity <= i.price * i.quantity
      BY <2>4, <3>1, Products2
    <3> HIDE DEF f, h, g, For
    <3> QED BY <2>2, <2>3, <2>5, <3>1, <3>2
  <2> QED BY <2>6, <2>7
<1>6. DOMAIN f = A /\ DOMAIN h = B /\ DOMAIN g = A /\ g = [r \in A |-> g[r]]
      /\ f = [r \in A |-> f[r]]
  OBVIOUS
<1>7. \A x, y \in A : g[x] = g[y] => x = y
  <2>1. ASSUME NEW x \in A, NEW y \in A, g[x] = g[y] PROVE x = y
    <3>1. x.item = y.item
      <4> HIDE DEF g
      <4> QED BY <1>5, <2>1
    <3> QED BY <3>1 DEF ReturnsMade
  <2> QED BY <2>1
<1> HIDE DEF f, h, g, A, B, For
<1>8. g \in [A -> B]
  BY <1>5, <1>6
<1>9. Family(f)
  <2>1. g \in Injection(A, B)
    BY <1>7, <1>8 DEF Injection, IsInjective
  <2>2. IsFiniteSet(A)
    BY <2>1, <1>1, FS_Injection DEF PlanMade
  <2> QED BY <2>2, <1>5, <1>6 DEF Family
<1>10. SumFunction(f) <= SumFunction(h)
  <2>1. g \in [DOMAIN f -> DOMAIN h]
    BY <1>6, <1>8
  <2>2. \A x \in DOMAIN f : f[x] <= h[g[x]]
    BY <1>5, <1>6
  <2> QED BY <2>1, <2>2, <1>2, <1>6, <1>7, <1>9, SumInjective
<1>11. SumFunction(f) <= o.subtotal
  BY <1>1, <1>2, <1>10
<1> QED BY <1>11 DEF f, A

-----------------------------------------------------------------------------
(* The validator.                                                          *)

\* An order has one parcel, so the delivery the generators saw is the one joined to.
LEMMA DeliveredUnique ==
  ASSUME NEW O, ShipmentsMade(mem["shipments"], O), NEW s \in mem["shipments"],
         s.delivered # None
  PROVE  DeliveredAt(s.order) = s.delivered
<1> DEFINE D == {q \in mem["shipments"] : q.order = s.order /\ q.delivered # None}
<1>1. D = {s}
  BY DEF ShipmentsMade
<1>2. {q.delivered : q \in D} = {s.delivered}
  BY <1>1
<1>3. s.delivered \in Int
  BY DEF ShipmentsMade
<1>4. DeliveredAt(s.order) = IF D = {} THEN None ELSE Max({q.delivered : q \in D})
  BY DEF DeliveredAt
<1> HIDE DEF D
<1> QED BY <1>1, <1>2, <1>3, <1>4, MaxOne

\* Whatever the generators drew, a finished run passes every check but the one that
\* looks for empty tables.
LEMMA ChecksHold ==
  ASSUME Shape, Made, at = 15
  PROVE  /\ CheckNoOrphanOrders /\ CheckNoOrphanOrderItems /\ CheckOrderTotals
         /\ CheckPaymentAmounts /\ CheckInventoryNonNegative /\ CheckReviewEligibility
         /\ CheckReturnEligibility
<1> DEFINE O == mem["orders"]
           I == mem["order_items"]
           S == mem["shipments"]
           Y == mem["payments"]
<1>1. /\ InventoryMade(mem["inventory"], mem["products"], mem["warehouses"])
      /\ OrdersMade(O, plan, mem["products"], mem["customers"]) /\ ItemsMade(I, O, plan)
      /\ PaymentsMade(Y, O) /\ ShipmentsMade(S, O)
      /\ ReviewsMade(mem["product_reviews"], I, O, S)
      /\ ReturnsMade(mem["returns"], I, O, S, Y)
  BY DEF Made
<1>2. db = mem
  BY DEF Shape
<1>one. \A o, q \in O : o.number = q.number => o = q
  BY <1>1 DEF OrdersMade
<1>3. CheckNoOrphanOrders
  BY <1>1, <1>2 DEF CheckNoOrphanOrders, OrdersMade
<1>4. CheckNoOrphanOrderItems
  <2>1. ASSUME NEW r \in I
        PROVE  (\E o \in O : o.number = r.order)
               /\ \E p \in mem["products"] : p.sku = r.product
    <3>1. PICK o \in O : \E i \in plan[o.number] : r = ItemRow(o, i)
      BY <1>1 DEF ItemsMade
    <3>2. PICK i \in plan[o.number] : r = ItemRow(o, i)
      BY <3>1
    <3>3. r.order = o.number /\ r.product = i.product
      BY <3>2 DEF ItemRow
    <3>4. PlanMade(plan[o.number], mem["products"])
      BY <1>1 DEF OrdersMade
    <3>5. PICK p \in mem["products"] : p.sku = i.product
      BY <3>4 DEF PlanMade
    <3> QED BY <3>3, <3>5
  <2> QED BY <1>2, <2>1 DEF CheckNoOrphanOrderItems
<1>5. CheckOrderTotals
  <2>1. ASSUME NEW o \in O PROVE LinesOf(o.number) = o.subtotal
    <3>1. SumFunction([r \in {r \in I : r.order = o.number} |-> r.line]) = o.subtotal
      BY <1>1, LinesAddUp
    <3> QED BY <1>2, <3>1 DEF LinesOf
  <2>2. \A o \in O : o.total = o.subtotal - o.discount + o.tax + o.shipping
    BY <1>1 DEF OrdersMade
  <2> QED BY <1>2, <2>1, <2>2 DEF CheckOrderTotals
<1>6. CheckPaymentAmounts
  <2>1. ASSUME NEW y \in Y, NEW o \in O, y.order = o.number PROVE y.amount = o.total
    <3>1. PICK q \in O : y.order = q.number /\ y.amount = q.total
      BY <1>1 DEF PaymentsMade
    <3>2. q = o
      <4>1. o.number = q.number
        BY <2>1, <3>1
      <4> QED BY <4>1, <1>one, Zenon
    <3> QED BY <3>1, <3>2
  <2> QED BY <1>2, <2>1 DEF CheckPaymentAmounts
<1>7. CheckInventoryNonNegative
  BY <1>1, <1>2 DEF CheckInventoryNonNegative, InventoryMade
<1>8. CheckReviewEligibility
  <2>1. ASSUME NEW r \in mem["product_reviews"], NEW o \in O, r.item[1] = o.number
        PROVE  /\ o.status = "delivered"
               /\ \A s \in S : s.order = o.number /\ s.delivered # None => r.date > s.delivered
    <3>1. PICK i \in I : \E q \in O : \E s \in S :
            /\ r.item = ItemKey(i) /\ q.number = i.order /\ q.status = "delivered"
            /\ Arrived(s, i) /\ r.date \in Int /\ r.date > s.delivered
      BY <1>1 DEF ReviewsMade
    <3>2. PICK q \in O : \E s \in S :
            /\ r.item = ItemKey(i) /\ q.number = i.order /\ q.status = "delivered"
            /\ Arrived(s, i) /\ r.date \in Int /\ r.date > s.delivered
      BY <3>1
    <3>3. PICK s \in S : Arrived(s, i) /\ r.date \in Int /\ r.date > s.delivered
      BY <3>2
    <3>4. r.item[1] = i.order
      BY <3>2 DEF ItemKey
    <3>5. q = o
      <4>1. o.number = q.number
        BY <2>1, <3>2, <3>4
      <4> QED BY <4>1, <1>one, Zenon
    <3>6. ASSUME NEW p \in S, p.order = o.number PROVE p = s
      BY <3>3, <3>4, <3>6, <2>1, <1>1 DEF Arrived, ShipmentsMade
    <3> QED BY <3>2, <3>3, <3>5, <3>6
  <2> QED BY <1>2, <2>1 DEF CheckReviewEligibility
<1>9. CheckReturnEligibility
  <2>1. ASSUME NEW r \in mem["returns"], NEW o \in O, r.item[1] = o.number
        PROVE  o.status \in {"delivered", "returned"}
    <3>1. PICK i \in I : \E q \in O : /\ r.item = ItemKey(i) /\ q.number = i.order
                                      /\ q.status \in {"delivered", "returned"}
      BY <1>1 DEF ReturnsMade
    <3>2. PICK q \in O : /\ r.item = ItemKey(i) /\ q.number = i.order
                         /\ q.status \in {"delivered", "returned"}
      BY <3>1
    <3>3. r.item[1] = i.order
      BY <3>2 DEF ItemKey
    <3>4. q = o
      <4>1. o.number = q.number
        BY <2>1, <3>2, <3>3
      <4> QED BY <4>1, <1>one, Zenon
    <3> QED BY <3>2, <3>4
  <2> QED BY <1>2, <2>1 DEF CheckReturnEligibility
<1> QED BY <1>3, <1>4, <1>5, <1>6, <1>7, <1>8, <1>9

LEMMA Filled ==
  ASSUME Shape, Made, at = 15
  PROVE  \A t \in TableNames :
           db[t] = {} => t \in {"customer_addresses", "shipments", "product_reviews", "returns"}
<1>1. db = mem /\ mem["suppliers"] # {} /\ config.customers \in Nat \ {0}
  <2>1. config \in Configs /\ db = mem /\ [code |-> 1] \in mem["suppliers"]
    BY DEF Shape
  <2>2. config.customers \in Nat \ {0}
    BY <2>1, ConfigIs
  <2>3. mem["suppliers"] # {}
    BY <2>1
  <2> QED BY <2>1, <2>2, <2>3
<1>2. /\ mem["warehouses"] # {} /\ mem["product_categories"] # {} /\ mem["products"] # {}
      /\ mem["inventory"] # {} /\ mem["promotions"] # {} /\ mem["orders"] # {}
      /\ mem["order_items"] # {} /\ mem["payments"] # {}
  BY DEF Made, WarehousesMade, ProductsMade, InventoryMade, PromotionsMade, OrdersMade,
         ItemsMade, PaymentsMade
<1>3. mem["customers"] # {}
  <2>1. mem["customers"] = {[number |-> i] : i \in 1 .. config.customers}
    BY DEF Made, CustomersMade
  <2>2. 1 \in 1 .. config.customers
    BY <1>1
  <2> QED BY <2>1, <2>2
<1> QED BY <1>1, <1>2, <1>3, TableNamesAre

LEMMA ValidateKeeps == ASSUME IInv, Validate PROVE IInv'
<1>1. /\ UNCHANGED <<config, db, mem, plan, at, refused>> /\ Shape /\ Made /\ Outcome
      /\ at = 15 /\ state' = "exited" /\ exit' = IF AllPassed THEN 0 ELSE 1
      /\ state = "running"
  BY DEF Validate, IInv
<1>2. AllPassed <=> CheckRowCounts
  BY <1>1, ChecksHold DEF AllPassed
<1>3. Shape'
  BY <1>1 DEF Shape, NoRows
<1>4. Made'
  BY <1>1 DEF Made
<1>5. Outcome'
  <2>1. ~refused'
    BY <1>1 DEF Outcome
  <2>2. ASSUME exit' = 1
        PROVE \E t \in {"customer_addresses", "shipments", "product_reviews", "returns"} :
                 db'[t] = {}
    <3>1. ~ CheckRowCounts
      BY <1>1, <1>2, <2>2
    <3>2. PICK t \in TableNames : db[t] = {}
      BY <3>1 DEF CheckRowCounts
    <3> QED BY <1>1, <3>2, Filled
  <2>3. ASSUME exit' = 0 PROVE \A t \in TableNames : db'[t] # {}
    BY <1>1, <1>2, <2>3 DEF CheckRowCounts
  <2> QED BY <1>1, <2>1, <2>2, <2>3 DEF Outcome, FreshRunNeverRefused, ValidatorAgrees
<1> QED BY <1>3, <1>4, <1>5 DEF IInv

-----------------------------------------------------------------------------
(* The script's start and end, and the invariant.                          *)

LEMMA StartKeeps == ASSUME IInv, Start PROVE IInv'
<1>1. /\ config' \in Configs /\ state' = "running" /\ at' = 1 /\ mem' = NoRows
      /\ exit' = None /\ refused' = FALSE /\ db' = db /\ Shape
  BY DEF Start, IInv
<1>2. Shape'
  <2>1. \A k \in 1 .. 14 : mem'[SEED_GENERATION_ORDER[k]] = {}
    BY <1>1 DEF NoRows, TableNames
  <2>2. mem' = [t \in TableNames |-> mem'[t]]
    BY <1>1 DEF NoRows
  <2>3. config' \in Configs /\ at' \in 1 .. 15 /\ ~ (at' > 1)
    BY <1>1
  <2>4. db' = [t \in TableNames |-> db'[t]]
    BY <1>1 DEF Shape
  <2>5. db' # NoRows => [code |-> 1] \in db'["suppliers"]
    BY <1>1 DEF Shape, NoRows
  <2> QED BY <2>1, <2>2, <2>3, <2>4, <2>5, Zenon DEF Shape, NoRows
<1>3. Made'
  BY <1>1 DEF Made
<1>4. Outcome'
  <2>1. refused' \in BOOLEAN /\ ~refused' /\ state' = "running" /\ exit' = None
    BY <1>1
  <2>2. exit' # 0
    BY <2>1 DEF None
  <2> QED BY <2>1, <2>2, Zenon DEF Outcome, FreshRunNeverRefused, ValidatorAgrees
<1> QED BY <1>2, <1>3, <1>4 DEF IInv

LEMMA CrashKeeps == ASSUME IInv, Crash PROVE IInv'
<1>1. /\ UNCHANGED <<config, db, mem, plan, at, refused>> /\ Shape /\ Made /\ Outcome
      /\ state' = "exited" /\ exit' = 137 /\ state = "running"
  BY DEF Crash, IInv
<1>2. Shape'
  BY <1>1 DEF Shape, NoRows
<1>3. Made'
  BY <1>1 DEF Made
<1>4. Outcome'
  BY <1>1 DEF Outcome, FreshRunNeverRefused, ValidatorAgrees
<1> QED BY <1>2, <1>3, <1>4 DEF IInv

LEMMA InitHolds == Init => IInv
<1> SUFFICES ASSUME Init PROVE IInv
  OBVIOUS
<1>1. Shape
  <2>1. \A k \in 1 .. 14 : mem[SEED_GENERATION_ORDER[k]] = {}
    BY DEF Init, NoRows, TableNames
  <2>2. mem = [t \in TableNames |-> mem[t]] /\ db = [t \in TableNames |-> db[t]]
    BY DEF Init, NoRows
  <2>3. config \in Configs /\ at \in 1 .. 15 /\ ~ (at > 1)
    BY DEF Init
  <2>4. db = NoRows
    BY DEF Init
  <2> QED BY <2>1, <2>2, <2>3, <2>4, Zenon DEF Shape
<1>2. Made
  BY DEF Init, Made
<1>3. Outcome
  <2>1. refused \in BOOLEAN /\ ~refused /\ state = "off" /\ exit = None
    BY DEF Init
  <2>2. exit # 0 /\ state # "running" /\ state # "exited"
    BY <2>1 DEF None
  <2> QED BY <2>1, <2>2, Zenon DEF Outcome, FreshRunNeverRefused, ValidatorAgrees
<1> QED BY <1>1, <1>2, <1>3 DEF IInv

LEMMA NextHolds == IInv /\ [Next]_vars => IInv'
<1> SUFFICES ASSUME IInv, [Next]_vars PROVE IInv'
  OBVIOUS
<1>1. CASE UNCHANGED vars
  <2>1. UNCHANGED <<config, db, mem, plan, at, state, exit, refused>>
    BY <1>1 DEF vars
  <2>2. Shape'
    BY <2>1 DEF IInv, Shape, NoRows
  <2>3. Made'
    BY <2>1 DEF IInv, Made
  <2>4. Outcome'
    BY <2>1 DEF IInv, Outcome, FreshRunNeverRefused, ValidatorAgrees, NoRows
  <2> QED BY <2>2, <2>3, <2>4 DEF IInv
<1>2. CASE Start
  BY <1>2, StartKeeps
<1>3. CASE Crash
  BY <1>3, CrashKeeps
<1>4. CASE Validate
  BY <1>4, ValidateKeeps
<1>5. CASE Suppliers
  BY <1>5, SuppliersKeeps
<1>6. CASE Warehouses
  BY <1>6, WarehousesKeeps
<1>7. CASE ProductCategories
  BY <1>7, ProductCategoriesKeeps
<1>8. CASE Products
  BY <1>8, ProductsKeeps
<1>9. CASE InventoryRows
  BY <1>9, InventoryKeeps
<1>10. CASE Customers
  BY <1>10, CustomersKeeps
<1>11. CASE CustomerAddresses
  BY <1>11, CustomerAddressesKeeps
<1>12. CASE Promotions
  BY <1>12, PromotionsKeeps
<1>13. CASE Orders
  BY <1>13, OrdersKeeps
<1>14. CASE OrderItems
  BY <1>14, OrderItemsKeeps
<1>15. CASE Payments
  BY <1>15, PaymentsKeeps
<1>16. CASE Shipments
  BY <1>16, ShipmentsKeeps
<1>17. CASE ProductReviews
  BY <1>17, ProductReviewsKeeps
<1>18. CASE Returns
  BY <1>18, ReturnsKeeps
<1> QED BY <1>1, <1>2, <1>3, <1>4, <1>5, <1>6, <1>7, <1>8, <1>9, <1>10, <1>11, <1>12,
           <1>13, <1>14, <1>15, <1>16, <1>17, <1>18 DEF Next

\* Every reachable state has the shape, the rows and the outcome described above.
THEOREM Reachable == Spec => []IInv
<1>1. Init => IInv
  BY InitHolds
<1>2. IInv /\ [Next]_vars => IInv'
  BY NextHolds
<1> QED BY <1>1, <1>2, PTL DEF Spec

\* A stage not yet passed has no rows: seen from the two tables the properties name.
LEMMA NotYet ==
  ASSUME Shape
  PROVE  at \in 1 .. 15 /\ (at <= 9 => mem["orders"] = {}) /\ (at <= 14 => mem["returns"] = {})
<1>1. mem[SEED_GENERATION_ORDER[9]] = {} \/ ~ (9 >= at)
  BY DEF Shape
<1>2. mem[SEED_GENERATION_ORDER[14]] = {} \/ ~ (14 >= at)
  BY DEF Shape
<1>3. at \in 1 .. 15
  BY DEF Shape
<1> QED BY <1>1, <1>2, <1>3, OrderIs

LEMMA StoryHolds == IInv => FulfilmentConsistent
<1> SUFFICES ASSUME IInv, at > 12 PROVE FulfilmentConsistent
  BY DEF FulfilmentConsistent
<1> DEFINE O == mem["orders"]
           I == mem["order_items"]
           S == mem["shipments"]
           Y == mem["payments"]
<1>1. Shape /\ Made /\ at \in 1 .. 15
  BY DEF IInv, Shape
<1>2. PaymentsMade(Y, O) /\ ShipmentsMade(S, O)
  BY <1>1 DEF Made
<1>3. \A order : Captured(order) <=> CapturedIn(Y, order)
  BY DEF Captured, CapturedIn
<1>4. ASSUME NEW s \in S
      PROVE  \E o \in O, p \in Y :
                /\ o.number = s.order /\ p.order = s.order /\ p.status = "captured"
                /\ o.placed < p.paid
                /\ s.shipped # None => s.shipped = o.placed \/ s.shipped > p.paid
                /\ s.delivered # None => /\ s.shipped # None /\ s.delivered > s.shipped
                                         /\ s.delivered > p.paid
  <2>1. PICK o \in O :
          /\ s.order = o.number /\ o.status \in ShippableStatuses
          /\ s.shipped # None => ShippedAt(s.shipped, o)
          /\ s.delivered # None =>
                /\ s.shipped # None /\ s.delivered \in Int /\ s.delivered > s.shipped
                /\ s.delivered >= s.shipped + Day
    BY <1>2 DEF ShipmentsMade
  <2>2. o.status \in SuccessfulStatuses
    BY <2>1 DEF ShippableStatuses, SuccessfulStatuses
  <2>3. PICK p \in Y : PaidFor(p, o)
    BY <2>2, <1>2 DEF PaymentsMade
  <2>4. PICK day \in Int : o.placed = Minutes(day) + 360
    BY <1>1 DEF Made, OrdersMade
  <2>5. o.placed \in Int
    BY <2>4 DEF Minutes, Day
  <2>6. /\ s.shipped # None => s.shipped = o.placed \/ s.shipped > p.paid
        /\ s.delivered # None => s.delivered > p.paid
    BY <2>1, <2>3, <2>5 DEF PaidFor, ShippedAt, Day
  <2> QED BY <2>1, <2>3, <2>6 DEF PaidFor
<1>5. ASSUME NEW r \in mem["returns"], r.refund # None
      PROVE  /\ Captured(r.item[1])
             /\ r.requested - DeliveredAt(r.item[1]) <= ReturnWindowDays * Day
  <2>1. at = 15
    BY <1>1, NotYet
  <2>2. ReturnsMade(mem["returns"], I, O, S, Y)
    BY <1>1, <2>1 DEF Made
  <2>3. PICK i \in I : /\ r.item = ItemKey(i) /\ CapturedIn(Y, i.order)
                       /\ \E s \in S : /\ Arrived(s, i) /\ r.requested \in Int
                                       /\ r.requested - s.delivered <= ReturnWindowDays * Day
    BY <1>5, <2>2 DEF ReturnsMade
  <2>4. PICK s \in S : Arrived(s, i) /\ r.requested - s.delivered <= ReturnWindowDays * Day
    BY <2>3
  <2>5. r.item[1] = i.order
    BY <2>3 DEF ItemKey
  <2>6. s.order = i.order /\ s.delivered # None
    BY <2>4 DEF Arrived
  <2>7. DeliveredAt(s.order) = s.delivered
    BY <2>6, <1>2, DeliveredUnique
  <2> QED BY <1>3, <2>3, <2>4, <2>5, <2>6, <2>7
<1> QED BY <1>4, <1>5 DEF FulfilmentConsistent

\* A rate of a part among its whole is at most one, of an empty whole 0/1.
LEMMA RateWithin ==
  ASSUME NEW n \in Nat, NEW m \in Nat, n <= m
  PROVE  Rate(n, m)[1] <= Rate(n, m)[2]
BY DEF Rate

\* A part of a finite set has no more members than the set.
LEMMA PartWithin ==
  ASSUME NEW T, IsFiniteSet(T), NEW U \in SUBSET T
  PROVE  /\ Cardinality(U) \in Nat /\ Cardinality(T) \in Nat
         /\ Cardinality(U) <= Cardinality(T)
BY FS_Subset, FS_CardinalityType

\* Each review is of another item, and of one whose order was delivered.
LEMMA ReviewsWithin ==
  ASSUME Shape, Made, at = 15
  PROVE  LET delivered == {i \in mem["order_items"] : OrderOf(i).status = "delivered"}
         IN  /\ Cardinality(mem["product_reviews"]) \in Nat /\ Cardinality(delivered) \in Nat
             /\ Cardinality(mem["product_reviews"]) <= Cardinality(delivered)
<1> DEFINE O == mem["orders"]
           I == mem["order_items"]
           R == mem["product_reviews"]
           D == {i \in I : OrderOf(i).status = "delivered"}
           g == [r \in R |-> CHOOSE i \in D : r.item = ItemKey(i)]
<1>1. /\ OrdersMade(O, plan, mem["products"], mem["customers"]) /\ ItemsMade(I, O, plan)
      /\ ReviewsMade(R, I, O, mem["shipments"])
  BY DEF Made
<1>2. IsFiniteSet(D) /\ Cardinality(D) \in Nat
  BY <1>1, PartWithin, FS_Subset DEF ItemsMade
<1>3. ASSUME NEW r \in R PROVE \E i \in D : r.item = ItemKey(i)
  <2>1. PICK i \in I : \E o \in O : r.item = ItemKey(i) /\ o.number = i.order
                                    /\ o.status = "delivered"
    BY <1>1 DEF ReviewsMade
  <2>2. PICK o \in O : r.item = ItemKey(i) /\ o.number = i.order /\ o.status = "delivered"
    BY <2>1
  <2>3. OrderOf(i) \in O /\ OrderOf(i).number = i.order
    BY <2>2, OrderOfIs
  <2>4. OrderOf(i) = o
    BY <2>2, <2>3, <1>1 DEF OrdersMade
  <2> QED BY <2>2, <2>4
<1>4. g \in [R -> D] /\ \A r \in R : r.item = ItemKey(g[r])
  BY <1>3
<1> HIDE DEF g, D
<1>5. \A r, q \in R : g[r] = g[q] => r = q
  BY <1>1, <1>4 DEF ReviewsMade
<1>6. g \in Injection(R, D)
  BY <1>4, <1>5 DEF Injection, IsInjective
<1>7. IsFiniteSet(R) /\ Cardinality(R) <= Cardinality(D)
  BY <1>2, <1>6, FS_Injection
<1>8. Cardinality(R) \in Nat
  BY <1>7, FS_CardinalityType
<1> QED BY <1>2, <1>7, <1>8 DEF D

LEMMA RatesWithin ==
  ASSUME Shape, Made, at = 15
  PROVE  \A r \in {Report.review_rate, Report.inventory_coverage,
                   Report.promotion_usage, Report.payment_success} : r[1] <= r[2]
<1> DEFINE count == [t \in TableNames |-> Cardinality(mem[t])]
           delivered == {i \in mem["order_items"] : OrderOf(i).status = "delivered"}
           used == {o \in mem["orders"] : o.promotion # None}
           captured == {p \in mem["payments"] : p.status = "captured"}
<1>1. /\ Report.review_rate = Rate(count["product_reviews"], Cardinality(delivered))
      /\ Report.inventory_coverage =
           Rate(count["inventory"], count["products"] * count["warehouses"])
      /\ Report.promotion_usage = Rate(Cardinality(used), count["orders"])
      /\ Report.payment_success = Rate(Cardinality(captured), count["payments"])
  BY DEF Report
<1>2. \A t \in TableNames : count[t] = Cardinality(mem[t])
  OBVIOUS
<1> HIDE DEF count
<1>3. Report.review_rate[1] <= Report.review_rate[2]
  <2>1. /\ Cardinality(mem["product_reviews"]) \in Nat /\ Cardinality(delivered) \in Nat
        /\ Cardinality(mem["product_reviews"]) <= Cardinality(delivered)
    BY ReviewsWithin
  <2> HIDE DEF delivered
  <2> QED BY <1>1, <1>2, <2>1, RateWithin, TableNamesAre
<1>4. Report.inventory_coverage[1] <= Report.inventory_coverage[2]
  <2>1. /\ InventoryMade(mem["inventory"], mem["products"], mem["warehouses"])
        /\ ProductsMade(mem["products"]) /\ WarehousesMade(mem["warehouses"])
    BY DEF Made
  <2>2. Cardinality(mem["products"]) \in Nat /\ Cardinality(mem["warehouses"]) \in Nat
    BY <2>1, FS_CardinalityType DEF ProductsMade, WarehousesMade
  <2>3. Cardinality(mem["products"]) * Cardinality(mem["warehouses"]) \in Nat
    BY <2>2, Products2
  <2>4. Cardinality(mem["inventory"]) \in Nat
    BY <2>1, FS_CardinalityType DEF InventoryMade
  <2>5. Cardinality(mem["inventory"])
          <= Cardinality(mem["products"]) * Cardinality(mem["warehouses"])
    BY <2>1 DEF InventoryMade
  <2> QED BY <1>1, <1>2, <2>3, <2>4, <2>5, RateWithin, TableNamesAre
<1>5. Report.promotion_usage[1] <= Report.promotion_usage[2]
  <2>1. IsFiniteSet(mem["orders"])
    BY DEF Made, OrdersMade
  <2>2. /\ Cardinality(used) \in Nat /\ Cardinality(mem["orders"]) \in Nat
        /\ Cardinality(used) <= Cardinality(mem["orders"])
    BY <2>1, PartWithin
  <2> HIDE DEF used
  <2> QED BY <1>1, <1>2, <2>2, RateWithin, TableNamesAre
<1>6. Report.payment_success[1] <= Report.payment_success[2]
  <2>1. IsFiniteSet(mem["payments"])
    BY DEF Made, PaymentsMade
  <2>2. /\ Cardinality(captured) \in Nat /\ Cardinality(mem["payments"]) \in Nat
        /\ Cardinality(captured) <= Cardinality(mem["payments"])
    BY <2>1, PartWithin
  <2> HIDE DEF captured
  <2> QED BY <1>1, <1>2, <2>2, RateWithin, TableNamesAre
<1> QED BY <1>3, <1>4, <1>5, <1>6

LEMMA BooksHold == IInv => BooksBalance
<1> SUFFICES ASSUME IInv PROVE BooksBalance
  OBVIOUS
<1> DEFINE refunds(o) == SumFunction([r \in {r \in mem["returns"] : r.item[1] = o.number} |->
                                        IF r.refund = None THEN 0 ELSE r.refund])
<1>1. Shape /\ Made
  BY DEF IInv
<1>2. ASSUME NEW o \in mem["orders"]
      PROVE  o.discount <= o.subtotal /\ refunds(o) <= o.subtotal
  <2>1. at \in 1 .. 15 /\ at > 9
    BY <1>1, NotYet
  <2>2. OrdersMade(mem["orders"], plan, mem["products"], mem["customers"])
    BY <1>1, <2>1 DEF Made
  <2>3. o.discount \in Nat /\ o.discount <= o.subtotal
    BY <2>2 DEF OrdersMade
  <2>4. CASE at = 15
    <3>1. /\ ItemsMade(mem["order_items"], mem["orders"], plan)
          /\ ReturnsMade(mem["returns"], mem["order_items"], mem["orders"],
                         mem["shipments"], mem["payments"])
      BY <1>1, <2>4 DEF Made
    <3>2. refunds(o) <= o.subtotal
      BY <2>2, <3>1, RefundsWithin
    <3> QED BY <2>3, <3>2
  <2>5. CASE at # 15
    <3> DEFINE f == [r \in {r \in mem["returns"] : r.item[1] = o.number} |->
                       IF r.refund = None THEN 0 ELSE r.refund]
    <3>1. mem["returns"] = {}
      BY <1>1, <2>1, <2>5, NotYet
    <3>2. DOMAIN f = {} /\ f \in [DOMAIN f -> Nat]
      BY <3>1
    <3>3. refunds(o) = SumFunction(f)
      OBVIOUS
    <3>4. o.subtotal \in Nat
      <4>1. PlanMade(plan[o.number], mem["products"]) /\ o.subtotal = Subtotal(plan[o.number])
        BY <2>2 DEF OrdersMade
      <4> QED BY <4>1, SubtotalFamily, SumNat DEF Subtotal
    <3> HIDE DEF f, refunds
    <3>5. SumFunction(f) = 0
      BY <3>2, EmptySum
    <3> QED BY <2>3, <3>3, <3>4, <3>5
  <2> QED BY <2>4, <2>5
<1>3. ASSUME at = 15
      PROVE  /\ \A t \in TableNames : Report.count[t] = Cardinality(db[t])
             /\ \A r \in {Report.review_rate, Report.inventory_coverage,
                          Report.promotion_usage, Report.payment_success} : r[1] <= r[2]
  <2>1. db = mem
    BY <1>1, <1>3 DEF Shape
  <2>2. Report.count = [t \in TableNames |-> Cardinality(mem[t])]
    BY DEF Report
  <2> QED BY <1>1, <1>3, <2>1, <2>2, RatesWithin
<1> QED BY <1>2, <1>3 DEF BooksBalance

\* The first stage is refused unless the database is empty; later ones add to rows of
\* their own run.
LEMMA CommitsExtend == IInv /\ [Next]_vars => (db' # db => db = mem)
<1> SUFFICES ASSUME IInv, Next, db' # db PROVE db = mem
  BY DEF vars
<1>1. Shape /\ at \in 1 .. 15 /\ (at > 1 => db = mem)
  BY DEF IInv, Shape
<1>2. SUFFICES ASSUME at = 1 PROVE db = mem
  BY <1>1
<1>3. At("suppliers") /\ Suppliers
  <2>1. ~ Start /\ ~ Crash /\ ~ Validate
    BY DEF Start, Crash, Validate
  <2>2. ASSUME NEW t, At(t) PROVE t = "suppliers"
    BY <1>2, <2>2, OrderIs DEF At
  <2>3. /\ ~ At("warehouses") /\ ~ At("product_categories") /\ ~ At("products")
        /\ ~ At("inventory") /\ ~ At("customers") /\ ~ At("customer_addresses")
        /\ ~ At("promotions") /\ ~ At("orders") /\ ~ At("order_items") /\ ~ At("payments")
        /\ ~ At("shipments") /\ ~ At("product_reviews") /\ ~ At("returns")
    BY <2>2
  <2>4. /\ ~ Warehouses /\ ~ ProductCategories /\ ~ Products /\ ~ InventoryRows /\ ~ Customers
        /\ ~ CustomerAddresses /\ ~ Promotions /\ ~ Orders /\ ~ OrderItems /\ ~ Payments
        /\ ~ Shipments /\ ~ ProductReviews /\ ~ Returns
    BY <2>3, Zenon DEF Warehouses, ProductCategories, Products, InventoryRows, Customers,
       CustomerAddresses, Promotions, Orders, OrderItems, Payments, Shipments,
       ProductReviews, Returns
  <2>5. Suppliers
    BY <2>1, <2>4, Zenon DEF Next
  <2> QED BY <2>5 DEF Suppliers
<1> DEFINE rows == {[code |-> i] : i \in 1 .. config.suppliers}
<1>4. Accepted("suppliers", rows)
  BY <1>3 DEF Suppliers, Persist
<1>5. [code |-> 1] \in rows
  BY <1>1, ConfigIs
<1>6. [code |-> 1] \notin db["suppliers"]
  BY <1>4, <1>5 DEF Accepted
<1>7. db = NoRows
  BY <1>1, <1>6 DEF Shape
<1>8. mem = NoRows
  <2>1. \A t \in TableNames : mem[t] = {}
    BY <1>1, <1>2 DEF Shape, TableNames
  <2>2. mem = [t \in TableNames |-> mem[t]]
    BY <1>1 DEF Shape
  <2> QED BY <2>1, <2>2 DEF NoRows
<1> QED BY <1>7, <1>8

-----------------------------------------------------------------------------
(***************************************************************************)
(* On an empty database no persist() of SeedOrchestrator.run() raises      *)
(* IntegrityError, whatever the configuration and the draws: the only      *)
(* stage ever refused is the first one, on top of rows already there.      *)
(***************************************************************************)
THEOREM FreshRunAccepted == Spec => []FreshRunNeverRefused
<1>1. IInv => FreshRunNeverRefused
  BY DEF IInv, Outcome
<1> QED BY <1>1, Reachable, PTL

(***************************************************************************)
(* DatasetValidator fails a finished run only for an empty table, and only *)
(* for one of the four that random draws can leave empty; exit code 0 of   *)
(* seed_database.py means that every table has rows.                       *)
(***************************************************************************)
THEOREM ValidatorAndGenerators == Spec => []ValidatorAgrees
<1>1. IInv => ValidatorAgrees
  BY DEF IInv, Outcome
<1> QED BY <1>1, Reachable, PTL

(***************************************************************************)
(* Whatever ShipmentGenerator, PaymentGenerator and ReturnGenerator draw,  *)
(* parcels leave for captured orders only, never before the order, arrive  *)
(* after they left, and refunds are made on captured orders within the     *)
(* return window.                                                          *)
(***************************************************************************)
THEOREM Fulfilment == Spec => []FulfilmentConsistent
<1>1. IInv => FulfilmentConsistent
  BY StoryHolds
<1> QED BY <1>1, Reachable, PTL

(***************************************************************************)
(* Discounts stay within an order's goods, the refunds of an order within  *)
(* its subtotal, and GenerationReport counts the committed rows, with      *)
(* rates of at most one.                                                   *)
(***************************************************************************)
THEOREM Books == Spec => []BooksBalance
<1>1. IInv => BooksBalance
  BY BooksHold
<1> QED BY <1>1, Reachable, PTL

(***************************************************************************)
(* Running seed_database.py again, after a finished run or a killed one,   *)
(* commits nothing: a commit only ever extends rows of its own run.        *)
(***************************************************************************)
THEOREM Reseeding == Spec => ReseedAddsNothing
<1>1. IInv /\ [Next]_vars => [db' # db => db = mem]_vars
  BY CommitsExtend
<1> QED BY <1>1, Reachable, PTL DEF Spec, ReseedAddsNothing

=============================================================================
