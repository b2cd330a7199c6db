------------------------------ MODULE MCInference ------------------------------
(* Inference for TLC: three routes in two correlation domains, of which the    *)
(* second is cleared for less than the first, and contexts with inline,        *)
(* tool-addressable, secret, and oversized evidence and memories.              *)
EXTENDS Inference, TLC

Plan(fixed, rate) ==
    [fixed |-> fixed, rate |-> rate, tiers |-> <<[upTo |-> 1, rate |-> rate + 1]>>,
     minimum |-> 1, billTimeout |-> TRUE, billFailed |-> FALSE, reserve |-> 2]

MCRoute(id, domain, expected, clearance, trains, plan) ==
    [id |-> id, domain |-> domain, expected |-> expected, clearance |-> clearance,
     trains |-> trains, retentionKnown |-> clearance >= CONFIDENTIAL, suits |-> TRUE, plan |-> plan]

Primary == MCRoute("primary", "d1", 1, CONFIDENTIAL, "no", Plan(1, 0))
Shared == MCRoute("shared", "d1", 2, CONFIDENTIAL, "yes", Plan(1, 0))
Fallback == MCRoute("fallback", "d2", 3, INTERNAL, "no", Plan(0, 1))
MCRoutes == {Primary, Shared, Fallback}

Item(id, class, rank, tokens) ==
    [id |-> id, class |-> class, rank |-> rank, status |-> "RETRIEVED", material |-> TRUE,
     licensed |-> TRUE, tokens |-> tokens, sources |-> {}]

Input(route, items, addressable) ==
    [wellFormed |-> TRUE, items |-> items, addressable |-> addressable, tools |-> TRUE,
     required |-> {"raw"}, inputs |-> {}, forbidden |-> {}, critical |-> FALSE, budget |-> 2,
     memories |-> {}, route |-> route]

Memory(tags) == [tags |-> tags, invalidated |-> FALSE, rank |-> INTERNAL, licensed |-> TRUE]

MCInputs ==
    {Input(Fallback, <<Item("e1", "raw", INTERNAL, 1)>>, {}),
     [Input(Primary, <<Item("e1", "raw", INTERNAL, 1), Item("e2", "raw", CONFIDENTIAL, 2)>>, {"e2"})
        EXCEPT !.memories = {Memory({}), Memory({"saw_sealed_category"})}],
     Input(Primary, <<Item("e3", "raw", SECRET, 1)>>, {}),
     [Input(Primary, <<Item("e4", "raw", PUBLIC, 3)>>, {}) EXCEPT !.critical = TRUE]}

Symmetry == Permutations(Workers)
===============================================================================
