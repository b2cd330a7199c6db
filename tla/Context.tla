-------------------------------- MODULE Context --------------------------------
(***************************************************************************)
(* What may leave the system in a prompt, and what a call costs:           *)
(* liki/inference/context.py, the route eligibility of broker.py and the   *)
(* pricing of types.py.  Pure operators; Inference runs them.              *)
(*                                                                         *)
(* A compile input is a record                                             *)
(*   [wellFormed, items, addressable, tools, required, inputs, forbidden,  *)
(*    critical, budget, memories, route]                                   *)
(* where wellFormed stands for the checks on schemas, budget, licence,     *)
(* duplicate ids and tools (lines 52-81), tools says that a read-only tool *)
(* is exposed, and an evidence item is                                     *)
(*   [id, class, rank, status, material, licensed, tokens, sources].       *)
(* Classifications are their ranks.                                        *)
(***************************************************************************)
EXTENDS Integers, Sequences, FiniteSets, FiniteSetsExt

CONSTANTS
    Estimate,   \* estimated_usage of the request: a number of tokens or Unknown
    Unknown     \* usage the provider or the caller does not report

PUBLIC == 0
INTERNAL == 1
CONFIDENTIAL == 2
SECRET == 3
SEALED == 4

MaxOr(S, default) == IF S = {} THEN default ELSE Max(S)

-------------------------------------------------------------------------------
(* ContextCompiler.compile *)

Items(in) == {in.items[k] : k \in DOMAIN in.items}
Ids(S) == {x.id : x \in S}

\* An item that may be shown to the route at all, inline or through a tool.
Clear(item, in) ==
    /\ item.class \notin in.forbidden
    /\ item.status = "RETRIEVED"
    /\ item.rank # SECRET
    /\ item.rank <= in.route.clearance
    /\ item.licensed

\* Items are taken in order while the token budget lasts; one that does not fit
\* is left out, never cut.  T is the set of the positions taken.
Consumed(in, T) == MapThenSumSet(LAMBDA k : in.items[k].tokens, T)
TakenInOrder(in, T) ==
    \A k \in DOMAIN in.items :
        k \in T <=> /\ Clear(in.items[k], in)
                    /\ Consumed(in, {j \in T : j < k}) + in.items[k].tokens <= in.budget

Included(in) ==
    LET taken == CHOOSE T \in SUBSET DOMAIN in.items : TakenInOrder(in, T)
    IN  {in.items[k].id : k \in taken}

Addressable(in) ==
    {x.id : x \in {y \in Items(in) : y.id \in in.addressable /\ Clear(y, in) /\ in.tools}}

Accessible_InlineOnly(in) == Included(in)   \* variant: tool reads are forgotten
Accessible(in) == Included(in) \cup Addressable(in)

Required(in) == in.required \cup (IF in.critical THEN {"adverse_facts"} ELSE {})

\* missing_classes, missing_inputs, unresolved, unavailable,
\* inaccessible_material_classes and summary_only.
Incomplete(in) ==
    LET classOf(S) == {x.class : x \in S}
        reached == {x \in Items(in) : x.id \in Accessible(in)}
        absent == {x \in Items(in) : x.status = "NOT_RELEVANT"}
    IN  \/ ~(Required(in) \subseteq classOf(Items(in)))
        \/ ~(in.inputs \subseteq Ids(Items(in)))
        \/ \E x \in Items(in) : /\ x.class \in Required(in)
                                /\ x.status \notin {"RETRIEVED", "NOT_RELEVANT"}
        \/ ~(Required(in) \subseteq classOf(reached) \cup classOf(absent))
        \/ \E x \in Items(in) : /\ x.class \in Required(in) /\ x.material
                                /\ x.status = "RETRIEVED" /\ x.id \notin Accessible(in)
        \/ \E x \in Items(in) : /\ x.id \in Included(in) /\ x.material /\ x.sources # {}
                                /\ x.sources \cap Accessible(in) = {}

\* MemoryRetrievalFirewall.retrieve as compile calls it (no contamination is
\* allowed and no scope asked for), then the egress check on what it returns.
Remembered(in) ==
    {m \in in.memories : /\ ~m.invalidated /\ m.tags = {}
                         /\ m.rank # SECRET /\ m.rank <= in.route.clearance /\ m.licensed}

\* ContextRejected is raised before a prompt exists.
Compiles(in) ==
    /\ in.wellFormed
    /\ in.addressable \subseteq Ids(Items(in))
    /\ in.addressable # {} => in.tools
    /\ ~(in.critical /\ Incomplete(in))

\* rank is egress_decision.highest_prompt_accessible_classification: it counts
\* evidence, not memories.
compile(in) ==
    [route |-> in.route, trains |-> in.route.trains,
     rank |-> MaxOr({x.rank : x \in {y \in Items(in) : y.id \in Accessible(in)}}, PUBLIC),
     blocking |-> FALSE,
     prompt |-> {x \in Items(in) : x.id \in Included(in)},
     memory |-> Remembered(in),
     addressable |-> Addressable(in), expansions |-> {}]

\* record_tool_expansion: a declared read may be added once, for the route the
\* context was compiled for.
MayExpand(c, item, route) ==
    /\ c.route.id = route.id
    /\ item.id \in c.addressable \ c.expansions
    /\ item.status = "RETRIEVED" /\ item.rank # SECRET
    /\ item.rank <= route.clearance /\ item.licensed

apply_tool_expansion(c, item) ==
    [c EXCEPT !.prompt = @ \cup {item}, !.expansions = @ \cup {item.id}]

-------------------------------------------------------------------------------
(* Pricing: PricingPlan.cost_components and cost, and the broker's use of it. *)
(* A plan is [fixed, rate, tiers, minimum, billTimeout, billFailed, reserve]; *)
(* the five kinds of tokens are one number, the quantisation one unit.        *)

Rate(plan, tokens) ==
    LET fits == {k \in DOMAIN plan.tiers :
                     plan.tiers[k].upTo = Unknown \/ tokens <= plan.tiers[k].upTo}
    IN  IF fits = {} THEN plan.rate ELSE plan.tiers[Min(fits)].rate

Billable(plan, outcome) ==
    CASE outcome = "RETRYABLE_FAILURE" -> plan.billTimeout
      [] outcome = "NONRETRYABLE_FAILURE" -> plan.billFailed
      [] OTHER -> TRUE

cost(plan, tokens, outcome) ==
    Max({plan.minimum, IF Billable(plan, outcome)
                       THEN plan.fixed + tokens * Rate(plan, tokens) ELSE 0})

_conservative_cost(route, usage, outcome) ==
    cost(route.plan, IF usage = Unknown THEN route.plan.reserve ELSE usage, outcome)

\* What an attempt sets aside before it calls the provider.
Reservation(route) == _conservative_cost(route, Estimate, "SEMANTIC_ACCEPTED")

_response_cost(route, usage, outcome) ==
    IF usage # Unknown THEN cost(route.plan, usage, outcome)
    ELSE Max({Reservation(route), _conservative_cost(route, usage, outcome)})

FailureCost(route, outcome) ==
    Max({Reservation(route), _conservative_cost(route, Unknown, outcome)})

-------------------------------------------------------------------------------
(* Route selection *)

\* Prices are not negative; a rate holds up to a number of tokens, or for any.
ConfiguredPlan(plan) ==
    /\ {plan.fixed, plan.rate, plan.minimum, plan.reserve} \subseteq Nat
    /\ plan.tiers \in Seq([upTo : Nat \cup {Unknown}, rate : Nat])

\* ProviderRoute's validators: who may keep the prompt is known before anything
\* confidential is cleared.  trains may be "unknown".
ConfiguredRoute(route) ==
    /\ route.clearance \in PUBLIC..SEALED
    /\ route.clearance >= CONFIDENTIAL => route.retentionKnown
    /\ ConfiguredPlan(route.plan)

_context_safe_for_route(c, route) ==
    /\ route.clearance >= c.rank
    /\ IF c.rank >= CONFIDENTIAL THEN route.retentionKnown /\ route.trains = "no"
       ELSE c.trains # "no" \/ route.trains = "no"

\* suits stands for the conditions on configuration and request alone: provider
\* class, benchmark, licence, health, context window, effort, tools, quality and
\* reliability floors, and a registered adapter.
Eligible(route, c, isOpen, maxCall) ==
    /\ route.suits
    /\ _context_safe_for_route(c, route)
    /\ ~isOpen
    /\ maxCall # Unknown => Reservation(route) <= maxCall

\* select_routes: the first route of every correlation domain, then the others,
\* which run() skips because their domain was used; both in the sorting order.
\* expected is a route's place in that order, by expected_cost and route_id.
First(r, suitable) == \A x \in suitable : x.domain = r.domain => r.expected <= x.expected

select_routes(suitable) ==
    {s \in [1..Cardinality(suitable) -> suitable] :
         \A i, j \in DOMAIN s : i < j =>
             \/ First(s[i], suitable) /\ ~First(s[j], suitable)
             \/ /\ First(s[i], suitable) <=> First(s[j], suitable)
                /\ s[i].expected < s[j].expected}
===============================================================================
