----------------------------- MODULE PaperService -----------------------------
(***************************************************************************)
(* Paper execution (liki/paper_service.py) with the order lifecycle and    *)
(* the pre-trade check of liki/finance/execution.py.                       *)
(*                                                                         *)
(* Every operation takes the advisory lock before it reads, so it is one   *)
(* action.  Two things cross transactions: simulate_order reads the order  *)
(* in one and records its fill in another, and a fill's created_at is the  *)
(* start of its transaction, before the wait for the lock.                 *)
(*                                                                         *)
(* Prices are 1 and fees 0, so an amount is a quantity.  A call refused,   *)
(* or repeated under the same key, changes nothing and is no action; what  *)
(* a client_order_id or a run asks for is fixed by the constants.          *)
(***************************************************************************)
EXTENDS Integers, FiniteSets, FiniteSetsExt

CONSTANTS
    Runs,               \* paper_run_ids
    Orders,             \* client_order_ids
    OrderSpec,          \* the OrderIntent of each, with its run and pool
    VenueOf,            \* venue of each instrument
    Workers,            \* callers of simulate_order
    Times,              \* snapshot timestamps
    StopScopes,         \* scopes that stop is called with
    LatchScopes,        \* scopes that emergency_stop is called with
    MaxOrder, MaxPosition, MaxPortfolio,    \* the RiskEnvelope of the runs
    MaxStarts,          \* bound: transactions of record_fill
    NoOrder, NoFill

Pools == {OrderSpec[o].pool : o \in Orders}
Instruments == DOMAIN VenueOf
Venues == {VenueOf[i] : i \in Instruments}
Strategies == {OrderSpec[o].strategy : o \in Orders}

\* The scopes of a StopRequest.
GlobalScope == <<"GLOBAL", "">>
VenueScopes == {"VENUE"} \X Venues
StrategyScopes == {"STRATEGY"} \X Strategies

ASSUME PaperConstants ==
    /\ LatchScopes \subseteq {GlobalScope} \cup VenueScopes
    /\ StopScopes \subseteq {GlobalScope} \cup VenueScopes \cup StrategyScopes
    /\ \A o \in Orders : /\ OrderSpec[o].run \in Runs
                         /\ OrderSpec[o].instrument \in Instruments
                         /\ OrderSpec[o].quantity \in Nat \ {0}
                         /\ OrderSpec[o].side \in {1, -1}
                         /\ OrderSpec[o].reduce_only \in BOOLEAN
    /\ Times \subseteq Nat
    /\ {MaxOrder, MaxPosition, MaxPortfolio, MaxStarts} \subseteq Nat

VARIABLES
    run,        \* status per run, "NONE" before start_run
    order,      \* paper_orders row with its reservation, per client_order_id
    fills,      \* paper_fills rows
    position,   \* paper_positions per run and instrument
    cash,       \* paper_cash_ledger rows per run
    stops,      \* emergency_stop_events, per run; no code deactivates them
    latches,    \* active paper_safety_latches
    worker,     \* the simulated fill each caller holds
    clock       \* transactions of record_fill started so far

vars == <<run, order, fills, position, cash, stops, latches, worker, clock>>

-------------------------------------------------------------------------------
(* finance/execution.py                                                    *)

TERMINAL == {"FILLED", "CANCELLED", "REJECTED", "EXPIRED"}

\* The states an order of this service can be stored in.
TRANSITIONS ==
    [ACKNOWLEDGED        |-> {"PARTIALLY_FILLED", "FILLED", "CANCEL_PENDING", "CANCELLED",
                              "EXPIRED", "UNKNOWN_RECONCILING"},
     UNKNOWN_RECONCILING |-> {"ACKNOWLEDGED", "PARTIALLY_FILLED", "FILLED", "CANCELLED",
                              "REJECTED", "EXPIRED"},
     PARTIALLY_FILLED    |-> {"PARTIALLY_FILLED", "FILLED", "AMENDED", "CANCEL_PENDING",
                              "CANCELLED", "EXPIRED"},
     CANCEL_PENDING      |-> {"PARTIALLY_FILLED", "FILLED", "CANCELLED",
                              "UNKNOWN_RECONCILING"},
     FILLED              |-> {},
     CANCELLED           |-> {}]

\* OrderRecord.transition accepts target with a fill of n.
MayBecome_AnyState(o, target, n) ==     \* variant: TRANSITIONS is not consulted
    order[o].filled + n <= OrderSpec[o].quantity
MayBecome(o, target, n) ==
    LET total == order[o].filled + n IN
    /\ target \in TRANSITIONS[order[o].state]
    /\ total <= OrderSpec[o].quantity
    /\ target = "FILLED" => total = OrderSpec[o].quantity
    /\ target = "PARTIALLY_FILLED" => total \in 1..(OrderSpec[o].quantity - 1)

OrderRow == [state: DOMAIN TRANSITIONS, filled: Nat, working: Nat, converted: Nat,
             released: Nat, reservation: {"HELD", "CONVERTED", "RELEASED", "UNRECONCILED"}]

\* NoOrder is the absence of a row.
ASSUME NoOrderIsNoRow == NoOrder \notin OrderRow

Placed == {o \in Orders : order[o] # NoOrder}
Abs(n) == IF n < 0 THEN -n ELSE n

\* Risk that the reservations of a set of orders hold or have turned into
\* positions.
AtRisk(rows, S) == MapThenSumSet(LAMBDA o : rows[o].working + rows[o].converted, S)

\* Reservations submit adds up: the pool's, unless released.
ActiveRisk_HeldOnly(r, pool) ==         \* variant: filled risk is forgotten
    MapThenSumSet(LAMBDA o : order[o].working,
                  {o \in Placed : /\ OrderSpec[o].run = r
                                  /\ OrderSpec[o].pool = pool
                                  /\ order[o].reservation = "HELD"})
ActiveRisk(r, pool) ==
    AtRisk(order, {o \in Placed : /\ OrderSpec[o].run = r
                                  /\ OrderSpec[o].pool = pool
                                  /\ order[o].reservation # "RELEASED"})

\* pretrade_check and validate_order, for an intent whose times, snapshot and
\* instrument are in order.
pretrade_check(o) ==
    LET intent == OrderSpec[o]
        current == position[<<intent.run, intent.instrument>>]
        resulting == Abs(current + intent.side * intent.quantity)
    IN  /\ intent.reduce_only => resulting <= Abs(current)
        /\ intent.quantity <= MaxOrder
        /\ resulting <= MaxPosition
        /\ ActiveRisk(intent.run, intent.pool) + intent.quantity <= MaxPortfolio

-------------------------------------------------------------------------------
(* Runs.                                                                   *)

Init ==
    /\ run = [r \in Runs |-> "NONE"]
    /\ order = [o \in Orders |-> NoOrder]
    /\ fills = {}
    /\ position = [p \in Runs \X Instruments |-> 0]
    /\ cash = [r \in Runs |-> {}]
    /\ stops = {}
    /\ latches = {}
    /\ worker = [w \in Workers |-> [phase |-> "idle", fill |-> NoFill, started |-> 0]]
    /\ clock = 0

Covers(scope, o) ==
    \/ scope = GlobalScope
    \/ scope = <<"VENUE", VenueOf[OrderSpec[o].instrument]>>
    \/ scope = <<"STRATEGY", OrderSpec[o].strategy>>

_ensure_not_stopped(o) ==
    /\ \A s \in stops : s.run = OrderSpec[o].run => ~Covers(s.scope, o)
    /\ \A scope \in latches : ~Covers(scope, o)

start_run(r) ==
    /\ run[r] = "NONE"
    /\ run' = [run EXCEPT ![r] = "RECONCILE_ONLY"]
    /\ UNCHANGED <<order, fills, position, cash, stops, latches, worker, clock>>

Unresolved(r) == \E o \in Placed : /\ OrderSpec[o].run = r
                                   /\ order[o].state = "UNKNOWN_RECONCILING"

ReconciledStatus_NoLatch(r, valid) ==   \* variant: the latch is not consulted
    IF valid /\ ~Unresolved(r) THEN "ACTIVE" ELSE "RECONCILE_ONLY"
ReconciledStatus(r, valid) ==
    IF valid /\ ~Unresolved(r) /\ GlobalScope \notin latches
    THEN "ACTIVE" ELSE "RECONCILE_ONLY"

reconcile(r, market_data_valid) ==
    /\ run[r] # "NONE"
    /\ run' = [run EXCEPT ![r] = ReconciledStatus(r, market_data_valid)]
    /\ UNCHANGED <<order, fills, position, cash, stops, latches, worker, clock>>

restart(r) ==
    /\ run[r] # "NONE"
    /\ run' = [run EXCEPT ![r] = "RECONCILE_ONLY"]
    /\ UNCHANGED <<order, fills, position, cash, stops, latches, worker, clock>>

-------------------------------------------------------------------------------
(* Orders.                                                                 *)

submit(o) ==
    /\ order[o] = NoOrder
    /\ run[OrderSpec[o].run] = "ACTIVE"
    /\ _ensure_not_stopped(o)
    /\ pretrade_check(o)
    /\ order' = [order EXCEPT ![o] =
                    [state |-> "ACKNOWLEDGED", filled |-> 0, reservation |-> "HELD",
                     working |-> OrderSpec[o].quantity, converted |-> 0, released |-> 0]]
    /\ UNCHANGED <<run, fills, position, cash, stops, latches, worker, clock>>

\* First transaction of simulate_order: the simulator fills up to the whole
\* order, whatever was filled before, and the order is not looked at again.
simulate_order(w, o, n, t) ==
    /\ worker[w].phase = "idle"
    /\ o \in Placed
    /\ order[o].state \notin TERMINAL
    /\ worker' = [worker EXCEPT ![w] =
                     [phase |-> "simulated", started |-> 0,
                      fill |-> [order |-> o, quantity |-> n, time |-> t]]]
    /\ UNCHANGED <<run, order, fills, position, cash, stops, latches, clock>>

\* record_fill opens its transaction: now() is fixed, the lock is not yet held.
OpenFill(w) ==
    /\ worker[w].phase = "simulated"
    /\ clock < MaxStarts
    /\ clock' = clock + 1
    /\ worker' = [worker EXCEPT ![w].phase = "waiting", ![w].started = clock + 1]
    /\ UNCHANGED <<run, order, fills, position, cash, stops, latches>>

\* external_fill_key "SIM:<client_order_id>:<timestamp>".
SameKey(f, g) == f.order = g.order /\ f.time = g.time

\* Fills of f's run and instrument.
LedgerOf(r, i) == {g \in fills : OrderSpec[g.order].run = r /\ OrderSpec[g.order].instrument = i}
Signed(g) == OrderSpec[g.order].side * g.quantity
Replayed(S) == MapThenSumSet(Signed, S)

Admissible_Repeated(f) ==               \* variant: a known key is recorded again
    \A g \in LedgerOf(OrderSpec[f.order].run, OrderSpec[f.order].instrument) : g.time <= f.time
Admissible(f) ==
    /\ \A g \in fills : ~SameKey(f, g)
    /\ \A g \in LedgerOf(OrderSpec[f.order].run, OrderSpec[f.order].instrument) : g.time <= f.time

\* ORDER BY created_at DESC LIMIT 1.
PriorCash(r) ==
    IF cash[r] = {} THEN 0
    ELSE (CHOOSE e \in cash[r] : \A d \in cash[r] : d.created_at <= e.created_at).balance_after

Target(f) == IF order[f.order].filled + f.quantity = OrderSpec[f.order].quantity
             THEN "FILLED" ELSE "PARTIALLY_FILLED"

FilledOrder_Repeated(f) ==              \* variant: subtracts the total every time
    LET total == order[f.order].filled + f.quantity
    IN  [state |-> Target(f), filled |-> total, reservation |-> "CONVERTED",
         working |-> order[f.order].working - total, converted |-> total,
         released |-> order[f.order].released]
FilledOrder(f) ==
    LET total == order[f.order].filled + f.quantity
    IN  [state |-> Target(f), filled |-> total, reservation |-> "CONVERTED",
         working |-> OrderSpec[f.order].quantity - total, converted |-> total,
         released |-> order[f.order].released]

\* record_fill under the lock.  A fill that may not be recorded (known key,
\* time regression, invalid transition) leaves everything as it was.
record_fill(w) ==
    LET f == worker[w].fill
        o == f.order
        r == OrderSpec[o].run
        i == OrderSpec[o].instrument
    IN
    /\ worker[w].phase = "waiting"
    /\ worker' = [worker EXCEPT ![w].phase = "simulated", ![w].started = 0]
    /\ Admissible(f)
    /\ MayBecome(o, Target(f), f.quantity)
    /\ fills' = fills \cup {f}
    /\ position' = [position EXCEPT ![<<r, i>>] = Replayed(LedgerOf(r, i)) + Signed(f)]
    /\ cash' = [cash EXCEPT ![r] = @ \cup
                   {[order |-> o, time |-> f.time, created_at |-> worker[w].started,
                     delta |-> -Signed(f), balance_after |-> PriorCash(r) - Signed(f)]}]
    /\ order' = [order EXCEPT ![o] = FilledOrder(f)]
    /\ UNCHANGED <<run, stops, latches, clock>>

\* The call returns, is refused, or its process dies.
Leave(w) ==
    /\ worker[w].phase # "idle"
    /\ worker' = [worker EXCEPT ![w] = [phase |-> "idle", fill |-> NoFill, started |-> 0]]
    /\ UNCHANGED <<run, order, fills, position, cash, stops, latches, clock>>

mark_unknown(o) ==
    /\ o \in Placed
    /\ MayBecome(o, "UNKNOWN_RECONCILING", 0)
    /\ order' = [order EXCEPT ![o].state = "UNKNOWN_RECONCILING",
                              ![o].reservation = "UNRECONCILED"]
    /\ UNCHANGED <<run, fills, position, cash, stops, latches, worker, clock>>

\* The row of a cancelled order: what did not fill is released.
CancelledOrder_AllReleased(o) ==        \* variant: releases the filled part too
    [order[o] EXCEPT !.state = "CANCELLED", !.working = 0,
                     !.released = OrderSpec[o].quantity, !.reservation = "RELEASED"]
CancelledOrder(o) ==
    [order[o] EXCEPT !.state = "CANCELLED", !.working = 0,
                     !.released = OrderSpec[o].quantity - order[o].converted,
                     !.reservation = IF order[o].converted > 0 THEN "CONVERTED" ELSE "RELEASED"]

cancel(o) ==
    /\ o \in Placed
    /\ order[o].state \notin {"CANCELLED", "UNKNOWN_RECONCILING"}
    /\ MayBecome(o, "CANCEL_PENDING", 0)
    /\ order' = [order EXCEPT ![o] = CancelledOrder(o)]
    /\ UNCHANGED <<run, fills, position, cash, stops, latches, worker, clock>>

-------------------------------------------------------------------------------
(* Stops.                                                                  *)

stop(r, scope) ==
    /\ run[r] # "NONE"
    /\ stops' = stops \cup {[run |-> r, scope |-> scope]}
    /\ UNCHANGED <<run, order, fills, position, cash, latches, worker, clock>>

\* Working orders that add risk; an unknown order is left to reconciliation.
Cancellable(scope) ==
    {o \in Placed : /\ order[o].state \in {"ACKNOWLEDGED", "PARTIALLY_FILLED", "AMENDED",
                                           "CANCEL_PENDING"}
                    /\ ~OrderSpec[o].reduce_only
                    /\ Covers(scope, o)}

emergency_stop(scope) ==
    /\ scope \notin latches
    /\ latches' = latches \cup {scope}
    /\ order' = [o \in Orders |-> IF o \in Cancellable(scope) THEN CancelledOrder(o) ELSE order[o]]
    /\ run' = [r \in Runs |-> IF scope = GlobalScope /\ run[r] = "ACTIVE"
                              THEN "RECONCILE_ONLY" ELSE run[r]]
    /\ UNCHANGED <<fills, position, cash, stops, worker, clock>>

release_emergency_stop(scope) ==
    /\ scope \in latches
    /\ latches' = latches \ {scope}
    /\ UNCHANGED <<run, order, fills, position, cash, stops, worker, clock>>

-------------------------------------------------------------------------------

RunStep(r) ==
    \/ start_run(r)
    \/ \E market_data_valid \in BOOLEAN : reconcile(r, market_data_valid)
    \/ restart(r)
    \/ \E scope \in StopScopes : stop(r, scope)

OrderStep(o) == submit(o) \/ mark_unknown(o) \/ cancel(o)

FillStep(w) ==
    \/ \E o \in Orders, t \in Times : \E n \in 1..OrderSpec[o].quantity : simulate_order(w, o, n, t)
    \/ OpenFill(w)
    \/ record_fill(w)
    \/ Leave(w)

LatchStep(scope) == emergency_stop(scope) \/ release_emergency_stop(scope)

Next ==
    \/ \E r \in Runs : RunStep(r)
    \/ \E o \in Orders : OrderStep(o)
    \/ \E w \in Workers : FillStep(w)
    \/ \E scope \in LatchScopes : LatchStep(scope)

Spec == Init /\ [][Next]_vars

-------------------------------------------------------------------------------
(* Properties.                                                             *)

\* Shape of the tables and of the callers.
TypeOK ==
    /\ run \in [Runs -> {"NONE", "RECONCILE_ONLY", "ACTIVE"}]
    /\ order \in [Orders -> OrderRow \cup {NoOrder}]
    /\ position \in [Runs \X Instruments -> Int]
    /\ \A r \in Runs : \A e \in cash[r] : e.created_at \in 1..clock
    /\ stops \subseteq [run: Runs, scope: StopScopes]
    /\ latches \subseteq LatchScopes
    /\ \A w \in Workers : worker[w].phase \in {"idle", "simulated", "waiting"}
    /\ clock \in 0..MaxStarts

\* The risk held for an order always matches what the order still is: nothing
\* is lost between working, converted and released, a live order keeps risk
\* for all it may yet fill, an ended one keeps none, and a reservation is
\* UNRECONCILED exactly while its order is unknown.
ReservationMatchesOrder ==
    \A o \in Placed :
        LET row == order[o] IN
        /\ row.working + row.converted + row.released = OrderSpec[o].quantity
        /\ row.converted = row.filled
        /\ row.state \in TERMINAL <=> row.working = 0
        /\ row.released > 0 => row.state = "CANCELLED"
        /\ row.reservation = CASE row.state = "UNKNOWN_RECONCILING" -> "UNRECONCILED"
                               [] row.state = "ACKNOWLEDGED" -> "HELD"
                               [] row.state = "CANCELLED" /\ row.filled = 0 -> "RELEASED"
                               [] OTHER -> "CONVERTED"

\* Competing submits never hold more of a pool than the portfolio limit, also
\* when fills, cancels and stops move risk between reservations.
PoolLimit ==
    \A r \in Runs, pool \in Pools :
        AtRisk(order, {o \in Placed : OrderSpec[o].run = r /\ OrderSpec[o].pool = pool})
        <= MaxPortfolio

\* What a set of orders has filled, with its side.
Filled(rows, S) == MapThenSumSet(LAMBDA o : OrderSpec[o].side * rows[o].filled, S)

PositionMatchesOrders ==
    \A r \in Runs, i \in Instruments :
        position[<<r, i>>] =
            Filled(order, {o \in Placed : OrderSpec[o].run = r /\ OrderSpec[o].instrument = i})

FillsOf(o) == {g \in fills : g.order = o}
Quantity(S) == MapThenSumSet(LAMBDA g : g.quantity, S)

FillsAddUp == \A o \in Placed : order[o].filled = Quantity(FillsOf(o))

\* Fills, orders and positions tell one story, whoever simulated an order and
\* however often: what an order says was filled is the sum of the fills stored
\* for it, and a position is what its orders filled.  A fill that two callers
\* bring, or one caller twice, is counted once in all three (record_fill).
BooksAgree == FillsAddUp /\ PositionMatchesOrders

\* No run trades under a GLOBAL latch: neither one that was active when the
\* latch was set nor one started, restarted or reconciled since.
NoActiveRunUnderGlobalLatch ==
    GlobalScope \in latches => \A r \in Runs : run[r] # "ACTIVE"

\* An order that ended stays as it is: a fill simulated before a cancel, a
\* stop or another fill can no longer change it when it is recorded.
EndedOrdersStay ==
    [][\A o \in Placed : order[o].state \in TERMINAL => order'[o] = order[o]]_order

Balance(r) == MapThenSumSet(LAMBDA e : e.delta, cash[r])

\* "cash/equity changes reconcile to trades" (SRS 33.15): the running balance
\* record_fill continues from is the sum of the entries.
CashReconciles == \A r \in Runs : PriorCash(r) = Balance(r)

\* "If reservation state and venue/account state disagree, new risk-increasing
\* orders are blocked until reconciliation" (SRS 18.29): no order that may add
\* risk is accepted in a run while one of its reservations is unreconciled.
BlockedUntilReconciled ==
    [][\A o \in Orders :
          order[o] = NoOrder /\ order'[o] # NoOrder /\ ~OrderSpec[o].reduce_only
          => ~Unresolved(OrderSpec[o].run)]_order

===============================================================================
