------------------------------ MODULE MCSeeds ------------------------------
EXTENDS Seeds

MCSizes == [start |-> 24, end |-> 30, years |-> << [nov |-> 0, weekday |-> 5] >>,
            suppliers |-> 1, warehouses |-> 1, product_categories |-> 3, products |-> 2,
            inventory |-> 1, customers |-> 1, addresses |-> 3, promotions |-> 2,
            orders |-> 1, items |-> {1, 2}]

\* The Black Friday week, and a YAML file asking for more stock than pairs exist.
MCConfigs == {MCSizes, [MCSizes EXCEPT !.inventory = 3]}

MCTaxonomy == [Electronics |-> 1, Toys |-> 1]

(***************************************************************************)
(* Bound on the draws: the sales stages are explored for one catalogue.    *)
(* They use its rows only as keys, so which category a product fell in, or *)
(* which pair is stocked, cannot matter to them.                           *)
(***************************************************************************)
OneCatalogue ==
    at > 9 => /\ \A p \in mem["products"] : p.category = <<"none", <<"Toys", 0>> >>
              /\ \A r \in mem["inventory"] : r.product = 1 /\ r.quantity > 0
              /\ \A w \in mem["warehouses"] : w.region = "EAST"
              /\ \A p \in mem["promotions"] : p.type = (IF p.code = 1 THEN "percentage"
                                                        ELSE "fixed_amount")
              /\ \A a \in mem["customer_addresses"] : a.n < 3 \/ a.type = "billing"
=============================================================================
