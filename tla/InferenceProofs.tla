--------------------------- MODULE InferenceProofs ---------------------------
(***************************************************************************)
(* Proofs about Inference, for any workers, routes, price plans, evidence, *)
(* usages, invoices and ceilings.                                          *)
(*                                                                         *)
(* The invariant adds what the properties rest on: a process that waits    *)
(* for its budget or for an answer holds an open attempt nobody else holds *)
(* (Processes); an open attempt is in one process's hand or was left with,  *)
(* never both (Known); it is booked with its reservation (Booked);         *)
(* the context is settled before the first run, and every route of a run   *)
(* is safe for it (Contexts).                                              *)
(***************************************************************************)
EXTENDS Inference, FiniteSums, SequenceTheorems

PCs == {"idle", "claim", "reserve", "call", "outcome", "note", "hibernate", "failed"}
Holding == {"reserve", "call"}
Routed == Holding \cup {"claim", "outcome", "note"}

Attempt == [route: Routes, status: Statuses, cost: Nat, held: Nat, expired: BOOLEAN]
Request == [status: Statuses \cup {None, "ADMITTED", "ATTEMPTING"},
            reserved: Int, accrued: Int, completed: Nat]
Errors == Failures \cup {None, "budget_denied"}
StopReasons == {None, "no_eligible_route", "lease_superseded", "late_result_deduplicated",
            "budget_exhausted", "all_independent_routes_failed"}
Process == [pc: PCs, routes: Seq(Routes), next: Nat, retry: Nat, attempt: Nat,
            status: Statuses \cup {None}, error: Errors, reason: StopReasons]

Types ==
    /\ request \in Request
    /\ attempts \in Seq(Attempt)
    /\ broker \in [Workers -> Process]

\* A process that is past its claim holds an open attempt of its route, with
\* nothing booked before it reserves and its reservation after; no two processes hold the same; an accepted
\* answer in hand is the completed attempt's.
ProcessOK(w) ==
    /\ broker[w].attempt \in 0..Len(attempts)
    /\ broker[w].pc \in Routed => broker[w].next \in DOMAIN broker[w].routes
    /\ broker[w].pc \in Holding =>
           /\ broker[w].attempt # 0
           /\ Mine(w).status = "CREATED" /\ Mine(w).route = Route(w)
    /\ broker[w].pc = "reserve" => Mine(w).cost = 0
    /\ broker[w].pc = "call" => Mine(w).cost = Reservation(Route(w))
    /\ \A v \in Workers \ {w} : broker[w].attempt # 0 => broker[v].attempt # broker[w].attempt
    /\ broker[w].status \in Accepted =>
           /\ broker[w].pc \in {"outcome", "note", "hibernate", "failed"}
           /\ broker[w].attempt # 0 /\ broker[w].attempt = request.completed

Processes == \A w \in Workers : ProcessOK(w)

Booked ==
    \A a \in DOMAIN attempts :
        /\ attempts[a].held <= attempts[a].cost
        /\ attempts[a].status = "CREATED" => attempts[a].held = attempts[a].cost

\* What a context shows, or lets a tool read, is within its rank.
ContextOK(c) ==
    /\ c = [route |-> c.route, trains |-> c.trains, rank |-> c.rank, blocking |-> c.blocking,
            prompt |-> c.prompt, memory |-> c.memory, addressable |-> c.addressable,
            expansions |-> c.expansions]
    /\ c.rank \in PUBLIC..SEALED
    /\ \A x \in c.prompt : /\ x.rank \in PUBLIC..SEALED /\ x.rank <= c.rank
                           /\ x.rank # SECRET /\ x.licensed
    /\ \A in \in Inputs : \A x \in Items(in) : x.id \in c.addressable => x.rank <= c.rank

\* The context is settled when the first run starts.
Contexts ==
    /\ context # None => ContextOK(context)
    /\ \A w \in Workers : broker[w].pc # "idle" => request.status # None
    /\ \A w \in Workers : broker[w].pc \in Routed =>
           /\ context # None
           /\ \A k \in DOMAIN broker[w].routes :
                  _context_safe_for_route(context, broker[w].routes[k])

Answers ==
    /\ 0 \notin answers
    /\ request.completed \in 0..Len(attempts)

Money == CostsAddUp /\ Booked /\ CeilingHolds

\* OpenAttemptsKnown, attempt by attempt.
Held(x) == \E v \in Workers : broker[v].attempt = x /\ broker[v].pc \in Holding
Left(x) == \E y \in abandoned : y.attempt = x

Known ==
    /\ \A x : x \in Active <=> Held(x) \/ Left(x)
    /\ \A x : ~(Held(x) /\ Left(x))
    /\ \A y \in abandoned : y.cause = "cancelled" =>
           attempts[y.attempt].cost = Reservation(attempts[y.attempt].route)

Inv == /\ Types /\ Processes /\ Money /\ Contexts /\ Answers
       /\ Known /\ OneAnswer /\ EvidenceStaysCleared

-------------------------------------------------------------------------------
(* Amounts.                                                                *)

\* The smaller of two amounts, as held is kept.
LEMMA MinOfTwo ==
    ASSUME NEW x \in Int, NEW y \in Int
    PROVE  Min({x, y}) \in {x, y} /\ Min({x, y}) <= x /\ Min({x, y}) <= y
<1>1. \E m \in {x, y} : \A z \in {x, y} : m <= z
  <2>1. CASE x <= y
    BY <2>1
  <2>2. CASE ~(x <= y)
    BY <2>2
  <2> QED
    BY <2>1, <2>2
<1> QED
  BY <1>1 DEF Min

\* The larger of two amounts, as prices are compared with their minimum.
LEMMA MaxOfTwo ==
    ASSUME NEW x \in Int, NEW y \in Int
    PROVE  Max({x, y}) \in {x, y} /\ Max({x, y}) >= x /\ Max({x, y}) >= y
<1>1. \E m \in {x, y} : \A z \in {x, y} : m >= z
  <2>1. CASE x >= y
    BY <2>1
  <2>2. CASE ~(x >= y)
    BY <2>2
  <2> QED
    BY <2>1, <2>2
<1> QED
  BY <1>1 DEF Max

\* The first of some positions, as a tier or the next route is found.
LEMMA MinOfPositions ==
    ASSUME NEW S, S \subseteq Nat, S # {}
    PROVE  Min(S) \in S /\ \A y \in S : Min(S) <= y
<1> DEFINE R == OpToRel(<, Nat)
<1>1. IsWellFoundedOn(R, Nat)
  BY NatLessThanWellFounded
<1>2. \A x, y \in Nat : x < y => <<x, y>> \in R
  BY DEF OpToRel
<1> HIDE DEF R
<1>3. PICK m \in S : \A y \in S : ~(<<y, m>> \in R)
  BY <1>1, WFMin
<1>4. \A y \in S : m <= y
  <2> TAKE y \in S
  <2>1. y \in Nat /\ m \in Nat
    OBVIOUS
  <2>2. ~(y < m)
    BY <1>2, <1>3, <2>1
  <2> QED
    BY <2>1, <2>2
<1> QED
  BY <1>4 DEF Min

\* A price is an amount, whatever the usage and the outcome.
LEMMA CostNat ==
    ASSUME NEW plan, ConfiguredPlan(plan), NEW tokens \in Nat, NEW outcome
    PROVE  cost(plan, tokens, outcome) \in Nat
<1>1. Rate(plan, tokens) \in Nat
  <2> DEFINE fits == {k \in DOMAIN plan.tiers :
                         plan.tiers[k].upTo = Unknown \/ tokens <= plan.tiers[k].upTo}
  <2>1. plan.rate \in Nat
    BY DEF ConfiguredPlan
  <2>2. \A k \in DOMAIN plan.tiers : k \in Nat /\ plan.tiers[k].rate \in Nat
    <3> DEFINE Tier == [upTo : Nat \cup {Unknown}, rate : Nat]
    <3>1. plan.tiers \in Seq(Tier)
      BY DEF ConfiguredPlan
    <3>2. \A t \in Tier : t.rate \in Nat
      OBVIOUS
    <3> HIDE DEF Tier
    <3>3. DOMAIN plan.tiers = 1..Len(plan.tiers) /\ Len(plan.tiers) \in Nat
      BY <3>1
    <3>4. \A k \in DOMAIN plan.tiers : plan.tiers[k] \in Tier
      BY <3>1, <3>3, ElementOfSeq
    <3> QED
      BY <3>2, <3>3, <3>4
  <2>3. ASSUME fits # {} PROVE Min(fits) \in DOMAIN plan.tiers
    <3>1. fits \subseteq Nat /\ fits \subseteq DOMAIN plan.tiers
      BY <2>2
    <3> HIDE DEF fits
    <3> QED
      BY <2>3, <3>1, MinOfPositions
  <2> QED
    BY <2>1, <2>2, <2>3 DEF Rate
<1>2. plan.fixed + tokens * Rate(plan, tokens) \in Nat
  <2>1. plan.fixed \in Nat
    BY DEF ConfiguredPlan
  <2>2. \A x, y \in Nat : x * y \in Nat
    OBVIOUS
  <2> QED
    BY <1>1, <2>1, <2>2
<1> DEFINE charge == IF Billable(plan, outcome)
                     THEN plan.fixed + tokens * Rate(plan, tokens) ELSE 0
<1>3. charge \in Nat /\ plan.minimum \in Nat
  BY <1>2 DEF ConfiguredPlan
<1>4. cost(plan, tokens, outcome) = Max({plan.minimum, charge})
  BY DEF cost
<1> HIDE DEF charge
<1>5. Max({plan.minimum, charge}) \in {plan.minimum, charge}
  <2>1. charge \in Int /\ plan.minimum \in Int
    BY <1>3
  <2> QED
    BY <2>1, MaxOfTwo
<1> QED
  BY <1>3, <1>4, <1>5

\* What a call sets aside and what it is billed are amounts.
LEMMA ChargesNat ==
    ASSUME NEW r \in Routes, NEW usage \in Nat \cup {Unknown}, NEW outcome
    PROVE  /\ Reservation(r) \in Nat
           /\ _response_cost(r, usage, outcome) \in Nat
           /\ FailureCost(r, outcome) \in Nat
<1>1. ConfiguredPlan(r.plan) /\ r.plan.reserve \in Nat
  BY InferenceConstants DEF InferenceConstants, ConfiguredRoute, ConfiguredPlan
<1>2. ASSUME NEW u \in Nat \cup {Unknown}, NEW o PROVE _conservative_cost(r, u, o) \in Nat
  BY <1>1, CostNat DEF _conservative_cost
<1>3. Reservation(r) \in Nat
  BY <1>2, InferenceConstants DEF Reservation, InferenceConstants
<1>4. ASSUME NEW x \in Nat, NEW y \in Nat PROVE Max({x, y}) \in Nat
  <2>1. x \in Int /\ y \in Int
    OBVIOUS
  <2>2. Max({x, y}) \in {x, y}
    BY <2>1, MaxOfTwo
  <2> QED
    BY <2>2
<1>5. usage # Unknown => cost(r.plan, usage, outcome) \in Nat
  BY <1>1, CostNat
<1> QED
  BY <1>2, <1>3, <1>4, <1>5 DEF _response_cost, FailureCost

\* The cost of some attempts is a sum of amounts.
LEMMA CostIs ==
    ASSUME NEW rows, NEW T, IsFiniteSet(T)
    PROVE  CostOf(rows, T) = SumOver([a \in T |-> rows[a].cost], T)
<1> DEFINE f == [a \in T |-> rows[a].cost]
           Def(g) == g = [s \in SUBSET T |-> IF s = {} THEN 0
                             ELSE rows[Pick(s)].cost + g[s \ {Pick(s)}]]
           h == CHOOSE g : Def(g)
<1>1. ASSUME NEW g PROVE Sums(f, g, T) <=> Def(g)
  <2>1. \A s \in SUBSET T : s # {} => f[Pick(s)] = rows[Pick(s)].cost
    BY DEF Pick
  <2> QED
    BY <2>1 DEF Sums
<1>2. CostOf(rows, T) = h[T]
  BY DEF CostOf, MapThenSumSet, MapThenFoldSet, Pick
<1>3. Sums(f, h, T)
  <2>1. \E g : Def(g)
    BY <1>1, SumsExist
  <2> QED
    BY <1>1, <2>1
<1>4. PICK g : Sums(f, g, T) /\ SumOver(f, T) = g[T]
  BY SumIs
<1>5. h[T] = g[T]
  BY <1>3, <1>4, SumsAgree
<1> QED
  BY <1>2, <1>4, <1>5

\* So is what they were charged beyond the least they were booked with.
LEMMA OverrunIs ==
    ASSUME NEW rows, NEW T, IsFiniteSet(T)
    PROVE  Overrun(rows, T) = SumOver([a \in T |-> rows[a].cost - rows[a].held], T)
<1> DEFINE f == [a \in T |-> rows[a].cost - rows[a].held]
           Def(g) == g = [s \in SUBSET T |-> IF s = {} THEN 0
                             ELSE (rows[Pick(s)].cost - rows[Pick(s)].held) + g[s \ {Pick(s)}]]
           h == CHOOSE g : Def(g)
<1>1. ASSUME NEW g PROVE Sums(f, g, T) <=> Def(g)
  <2>1. \A s \in SUBSET T : s # {} => f[Pick(s)] = rows[Pick(s)].cost - rows[Pick(s)].held
    BY DEF Pick
  <2> QED
    BY <2>1 DEF Sums
<1>2. Overrun(rows, T) = h[T]
  BY DEF Overrun, MapThenSumSet, MapThenFoldSet, Pick
<1>3. Sums(f, h, T)
  <2>1. \E g : Def(g)
    BY <1>1, SumsExist
  <2> QED
    BY <1>1, <2>1
<1>4. PICK g : Sums(f, g, T) /\ SumOver(f, T) = g[T]
  BY SumIs
<1>5. h[T] = g[T]
  BY <1>3, <1>4, SumsAgree
<1> QED
  BY <1>2, <1>4, <1>5

Amount(rows, T) == \A a \in T : rows[a].cost \in Nat /\ rows[a].held \in Nat

\* Totals of attempts are amounts, and no attempt adds nothing.
LEMMA SumsOfAttempts ==
    ASSUME NEW rows, NEW T, IsFiniteSet(T), Amount(rows, T)
    PROVE  /\ CostOf(rows, T) \in Int
           /\ CostOf(rows, T) >= 0
           /\ Overrun(rows, T) \in Int
           /\ (\A a \in T : rows[a].held <= rows[a].cost) => Overrun(rows, T) >= 0
<1> DEFINE f == [a \in T |-> rows[a].cost]
           e == [a \in T |-> rows[a].cost - rows[a].held]
           z == [a \in T |-> 0]
<1>1. Summable(f, T) /\ Summable(e, T) /\ Summable(z, T)
  BY DEF Summable, Amount
<1>2. \A a \in T : z[a] <= f[a]
  BY DEF Amount
<1>3. (\A a \in T : rows[a].held <= rows[a].cost) => \A a \in T : z[a] <= e[a]
  BY DEF Amount
<1>4. SumOver(z, T) = 0
  <2>1. SumOver(z, {}) = SumOver(z, T)
    <3>1. \A x \in T \ {} : z[x] = 0
      OBVIOUS
    <3> HIDE DEF z
    <3> QED
      BY <1>1, <3>1, SumIgnoresZero
  <2> QED
    BY <2>1, SumEmpty
<1>5. CostOf(rows, T) = SumOver(f, T) /\ Overrun(rows, T) = SumOver(e, T)
  BY CostIs, OverrunIs
<1> HIDE DEF f, e, z
<1>6. SumOver(f, T) \in Int /\ SumOver(e, T) \in Int
  BY <1>1, SumInt
<1>7. SumOver(z, T) <= SumOver(f, T)
  BY <1>1, <1>2, SumMonotone
<1>8. (\A a \in T : rows[a].held <= rows[a].cost) => SumOver(z, T) <= SumOver(e, T)
  BY <1>1, <1>3, SumMonotone
<1> QED
  BY <1>4, <1>5, <1>6, <1>7, <1>8

\* An attempt whose bill changes moves the totals by the difference.
LEMMA SumsMove ==
    ASSUME NEW T, IsFiniteSet(T), NEW rows, NEW new, Amount(rows, T), Amount(new, T),
           NEW a \in T, \A x \in T : x # a => new[x] = rows[x]
    PROVE  /\ CostOf(new, T) = CostOf(rows, T) - rows[a].cost + new[a].cost
           /\ Overrun(new, T) = Overrun(rows, T) - (rows[a].cost - rows[a].held)
                                 + (new[a].cost - new[a].held)
<1> DEFINE f == [x \in T |-> rows[x].cost]
           g == [x \in T |-> new[x].cost]
           e == [x \in T |-> rows[x].cost - rows[x].held]
           h == [x \in T |-> new[x].cost - new[x].held]
<1>1. Summable(f, T) /\ Summable(g, T) /\ Summable(e, T) /\ Summable(h, T)
  BY DEF Summable, Amount
<1>2. \A x \in T : x # a => g[x] = f[x] /\ h[x] = e[x]
  OBVIOUS
<1>3. f[a] = rows[a].cost /\ g[a] = new[a].cost
      /\ e[a] = rows[a].cost - rows[a].held /\ h[a] = new[a].cost - new[a].held
  OBVIOUS
<1>4. /\ CostOf(rows, T) = SumOver(f, T) /\ CostOf(new, T) = SumOver(g, T)
      /\ Overrun(rows, T) = SumOver(e, T) /\ Overrun(new, T) = SumOver(h, T)
  BY CostIs, OverrunIs
<1> HIDE DEF f, e, g, h
<1>5. SumOver(g, T) = SumOver(f, T) - f[a] + g[a]
  BY <1>1, <1>2, SumChange
<1>6. SumOver(h, T) = SumOver(e, T) - e[a] + h[a]
  BY <1>1, <1>2, SumChange
<1> QED
  BY <1>3, <1>4, <1>5, <1>6

\* Attempts with the same bills have the same totals.
LEMMA SumsStay ==
    ASSUME NEW T, IsFiniteSet(T), NEW rows, NEW new,
           \A x \in T : new[x].cost = rows[x].cost /\ new[x].held = rows[x].held
    PROVE  CostOf(new, T) = CostOf(rows, T) /\ Overrun(new, T) = Overrun(rows, T)
<1> DEFINE f == [x \in T |-> rows[x].cost]
           g == [x \in T |-> new[x].cost]
           e == [x \in T |-> rows[x].cost - rows[x].held]
           h == [x \in T |-> new[x].cost - new[x].held]
<1>1. \A x \in T : g[x] = f[x] /\ h[x] = e[x]
  OBVIOUS
<1>2. /\ CostOf(rows, T) = SumOver(f, T) /\ CostOf(new, T) = SumOver(g, T)
      /\ Overrun(rows, T) = SumOver(e, T) /\ Overrun(new, T) = SumOver(h, T)
  BY CostIs, OverrunIs
<1> HIDE DEF f, e, g, h
<1>3. SumOver(g, T) = SumOver(f, T) /\ SumOver(h, T) = SumOver(e, T)
  BY <1>1, SumSame
<1> QED
  BY <1>2, <1>3

\* An attempt that joins some others adds its bill.
LEMMA SumsJoin ==
    ASSUME NEW T, IsFiniteSet(T), NEW rows, NEW a, a \notin T,
           NEW U, U = T \cup {a}, Amount(rows, U)
    PROVE  /\ CostOf(rows, U) = CostOf(rows, T) + rows[a].cost
           /\ Overrun(rows, U) = Overrun(rows, T) + (rows[a].cost - rows[a].held)
<1> DEFINE f == [x \in U |-> rows[x].cost]
           e == [x \in U |-> rows[x].cost - rows[x].held]
           g == [x \in T |-> rows[x].cost]
           h == [x \in T |-> rows[x].cost - rows[x].held]
<1>1. Summable(f, U) /\ Summable(e, U)
  BY DEF Summable, Amount
<1>2. f[a] = rows[a].cost /\ e[a] = rows[a].cost - rows[a].held
  OBVIOUS
<1>3. \A x \in T : g[x] = f[x] /\ h[x] = e[x]
  OBVIOUS
<1>4. IsFiniteSet(U)
  BY FS_AddElement
<1>5. /\ CostOf(rows, U) = SumOver(f, U) /\ Overrun(rows, U) = SumOver(e, U)
      /\ CostOf(rows, T) = SumOver(g, T) /\ Overrun(rows, T) = SumOver(h, T)
  BY <1>4, CostIs, OverrunIs
<1> HIDE DEF f, e, g, h
<1>6. SumOver(g, T) = SumOver(f, T) /\ SumOver(h, T) = SumOver(e, T)
  BY <1>3, SumSame
<1>7. SumOver(f, U) = SumOver(f, T) + f[a] /\ SumOver(e, U) = SumOver(e, T) + e[a]
  BY <1>1, SumAdd
<1> QED
  BY <1>2, <1>5, <1>6, <1>7

-------------------------------------------------------------------------------
(* Contexts.                                                               *)

\* Taking the items in order is possible for any list: compile's loop always
\* ends with a set of positions.
LEMMA SomeTaken ==
    ASSUME NEW in, in.items \in Seq(Items(in))
    PROVE  \E T \in SUBSET DOMAIN in.items : TakenInOrder(in, T)
<1> DEFINE n == Len(in.items)
           Fits(k, T) == /\ Clear(in.items[k], in)
                         /\ Consumed(in, {j \in T : j < k}) + in.items[k].tokens <= in.budget
           Upto(m, T) == T \in SUBSET (1..m) /\ \A k \in 1..m : k \in T <=> Fits(k, T)
           W == {m \in 0..n : ~\E T : Upto(m, T)}
<1>1. n \in Nat /\ DOMAIN in.items = 1..n
  OBVIOUS
<1>2. ASSUME W # {} PROVE FALSE
  <2> DEFINE m == Min(W)
  <2>1. m \in W /\ \A y \in W : m <= y
    <3>1. W \subseteq Nat
      BY <1>1
    <3> HIDE DEF W
    <3> QED
      BY <1>2, <3>1, MinOfPositions
  <2> HIDE DEF m
  <2>2. m # 0
    <3>1. \E T : Upto(0, T)
      <4>1. Upto(0, {})
        OBVIOUS
      <4> HIDE DEF Upto
      <4> QED
        BY <4>1
    <3>2. \A x \in W : ~\E T : Upto(x, T)
      OBVIOUS
    <3> HIDE DEF Upto, W
    <3> QED
      BY <2>1, <3>1, <3>2
  <2>3. m \in 1..n /\ m - 1 \in 0..n
    BY <1>1, <2>1, <2>2
  <2>4. m - 1 \notin W
    <3> HIDE DEF W
    <3> QED
      BY <2>1, <2>3
  <2>5. PICK T : Upto(m - 1, T)
    BY <2>3, <2>4
  <2> DEFINE U == IF Fits(m, T) THEN T \cup {m} ELSE T
  <2>6. T \subseteq 1..(m - 1) /\ U \subseteq 1..m
    BY <2>3, <2>5
  <2>7. \A k \in 1..m : {j \in U : j < k} = {j \in T : j < k}
    BY <2>3, <2>6
  <2>8. \A k \in 1..m : Fits(k, U) <=> Fits(k, T)
    <3> HIDE DEF U
    <3> QED
      BY <2>7
  <2>9. \A k \in 1..m : k \in U <=> Fits(k, T)
    <3> TAKE k \in 1..m
    <3> HIDE DEF Fits
    <3>1. CASE k = m
      <4>1. m \notin T
        BY <2>3, <2>6
      <4> QED
        BY <3>1, <4>1
    <3>2. CASE k # m
      <4>1. k \in 1..(m - 1)
        BY <2>3, <3>2
      <4>2. k \in T <=> Fits(k, T)
        BY <2>5, <4>1
      <4> QED
        BY <3>2, <4>2
    <3> QED
      BY <3>1, <3>2
  <2>10. Upto(m, U)
    <3> HIDE DEF U, Fits
    <3> QED
      BY <2>6, <2>8, <2>9
  <2> QED
    BY <2>1, <2>10
<1>3. n \in 0..n
  BY <1>1
<1>4. PICK T : Upto(n, T)
  BY <1>2, <1>3
<1>5. TakenInOrder(in, T)
  BY <1>1, <1>4 DEF TakenInOrder
<1> QED
  BY <1>1, <1>4, <1>5

\* What compile puts into a prompt, or lets a tool read, may be shown to the
\* route it compiles for.
LEMMA AccessibleIsClear ==
    ASSUME NEW in \in Inputs, Compiles(in), NEW x \in Items(in), x.id \in Accessible(in)
    PROVE  Clear(x, in)
<1>1. in.items \in Seq(Items(in)) /\ in.wellFormed
      /\ \A j, k \in DOMAIN in.items : in.items[j].id = in.items[k].id => j = k
  BY EvidenceIdentified DEF EvidenceIdentified, Compiles
<1> DEFINE taken == CHOOSE T \in SUBSET DOMAIN in.items : TakenInOrder(in, T)
<1>2. taken \in SUBSET DOMAIN in.items /\ TakenInOrder(in, taken)
  BY <1>1, SomeTaken
<1>3. Included(in) = {in.items[k].id : k \in taken}
  BY DEF Included
<1> HIDE DEF taken
<1>4. PICK k \in DOMAIN in.items : x = in.items[k]
  BY DEF Items
<1>5. CASE x.id \in Included(in)
  <2>1. PICK j \in taken : x.id = in.items[j].id
    BY <1>3, <1>5
  <2>2. j = k
    BY <1>1, <1>2, <1>4, <2>1
  <2> QED
    BY <1>2, <1>4, <2>1, <2>2 DEF TakenInOrder
<1>6. CASE x.id \in Addressable(in)
  <2>1. PICK y \in Items(in) : x.id = y.id /\ Clear(y, in)
    BY <1>6 DEF Addressable
  <2>2. PICK j \in DOMAIN in.items : y = in.items[j]
    BY DEF Items
  <2>3. j = k
    BY <1>1, <1>4, <2>1, <2>2
  <2> QED
    BY <1>4, <2>1, <2>2, <2>3
<1> QED
  BY <1>5, <1>6 DEF Accessible

\* The rank compile gives a context is the highest of what it shows.
LEMMA HighestRank ==
    ASSUME NEW S, S \subseteq PUBLIC..SEALED
    PROVE  MaxOr(S, PUBLIC) \in PUBLIC..SEALED /\ \A x \in S : x <= MaxOr(S, PUBLIC)
<1>1. CASE S = {}
  BY <1>1 DEF MaxOr, PUBLIC, SEALED
<1>2. CASE S # {}
  <2>1. \E m \in S : \A x \in S : m >= x
    <3>1. S \subseteq {0, 1, 2, 3, 4}
      BY DEF PUBLIC, SEALED
    <3>2. \A x \in S : x \in Int /\ (x = 0 \/ x = 1 \/ x = 2 \/ x = 3 \/ x = 4)
      BY <3>1
    <3>3. CASE 4 \in S
      BY <3>2, <3>3
    <3>4. CASE 4 \notin S /\ 3 \in S
      BY <3>2, <3>4
    <3>5. CASE 4 \notin S /\ 3 \notin S /\ 2 \in S
      BY <3>2, <3>5
    <3>6. CASE 4 \notin S /\ 3 \notin S /\ 2 \notin S /\ 1 \in S
      BY <3>2, <3>6
    <3>7. CASE 4 \notin S /\ 3 \notin S /\ 2 \notin S /\ 1 \notin S
      <4>1. PICK y \in S : TRUE
        BY <1>2
      <4>2. \A x \in S : x = 0
        BY <3>2, <3>7
      <4> QED
        BY <4>1, <4>2
    <3> QED
      BY <3>3, <3>4, <3>5, <3>6, <3>7
  <2>2. Max(S) \in S /\ \A x \in S : Max(S) >= x
    BY <2>1 DEF Max
  <2>3. \A x \in S : x \in Int
    BY DEF PUBLIC, SEALED
  <2> QED
    BY <1>2, <2>2, <2>3 DEF MaxOr
<1> QED
  BY <1>1, <1>2

\* compile makes a context that shows nothing above its rank.
LEMMA CompiledOK ==
    ASSUME NEW in \in Inputs, Compiles(in)
    PROVE  ContextOK(compile(in))
<1> DEFINE c == compile(in)
           S == {x.rank : x \in {y \in Items(in) : y.id \in Accessible(in)}}
<1>1. \A x \in Items(in) : x.rank \in PUBLIC..SEALED
  BY EvidenceIdentified DEF EvidenceIdentified
<1>2. S \subseteq PUBLIC..SEALED
  BY <1>1
<1>3. c.rank = MaxOr(S, PUBLIC) /\ c.addressable = Addressable(in)
      /\ c.prompt = {x \in Items(in) : x.id \in Included(in)}
  BY DEF compile
<1>4. c.rank \in PUBLIC..SEALED /\ \A x \in S : x <= c.rank
  BY <1>2, <1>3, HighestRank
<1>5. \A x \in Items(in) : x.id \in Accessible(in) => x.rank <= c.rank
  BY <1>4
<1>6. \A x \in c.prompt : /\ x.rank \in PUBLIC..SEALED /\ x.rank <= c.rank
                           /\ x.rank # SECRET /\ x.licensed
  BY <1>1, <1>3, <1>5, AccessibleIsClear DEF Accessible, Clear
<1>7. ASSUME NEW other \in Inputs, NEW x \in Items(other), x.id \in c.addressable
      PROVE  x.rank <= c.rank
  <2>1. PICK y \in Items(in) : y.id = x.id
    BY <1>3, <1>7 DEF Addressable
  <2>2. y.id \in Accessible(in)
    BY <1>3, <1>7, <2>1 DEF Accessible
  <2>3. y.rank = x.rank
    BY <2>1, EvidenceIdentified DEF EvidenceIdentified
  <2> QED
    BY <1>5, <2>2, <2>3
<1>8. c = [route |-> c.route, trains |-> c.trains, rank |-> c.rank, blocking |-> c.blocking,
           prompt |-> c.prompt, memory |-> c.memory, addressable |-> c.addressable,
           expansions |-> c.expansions]
  BY DEF compile
<1>9. ContextOK(c)
  <2> HIDE DEF c
  <2> QED
    BY <1>4, <1>6, <1>7, <1>8 DEF ContextOK
<1> QED
  BY <1>9

\* A tool read adds nothing above the rank: only what was declared is read.
LEMMA ExpandedOK ==
    ASSUME NEW c, ContextOK(c), NEW in \in Inputs, NEW item \in Items(in),
           MayExpand(c, item, c.route)
    PROVE  ContextOK(apply_tool_expansion(c, item))
<1> DEFINE d == apply_tool_expansion(c, item)
<1>a. d = [c EXCEPT !.prompt = c.prompt \cup {item}, !.expansions = c.expansions \cup {item.id}]
  BY DEF apply_tool_expansion
<1>b. c = [route |-> c.route, trains |-> c.trains, rank |-> c.rank, blocking |-> c.blocking,
           prompt |-> c.prompt, memory |-> c.memory, addressable |-> c.addressable,
           expansions |-> c.expansions]
  BY DEF ContextOK
<1>1. d = [route |-> c.route, trains |-> c.trains, rank |-> c.rank, blocking |-> c.blocking,
           prompt |-> c.prompt \cup {item}, memory |-> c.memory,
           addressable |-> c.addressable, expansions |-> c.expansions \cup {item.id}]
  <2> HIDE DEF d
  <2> QED
    BY <1>a, <1>b
<1>2. item.rank \in PUBLIC..SEALED
  BY EvidenceIdentified DEF EvidenceIdentified
<1>3. item.rank <= c.rank /\ item.rank # SECRET /\ item.licensed
  BY DEF ContextOK, MayExpand
<1>4. ContextOK(d)
  <2> HIDE DEF d
  <2>1. d.rank = c.rank /\ d.prompt = c.prompt \cup {item} /\ d.addressable = c.addressable
    BY <1>1
  <2>2. d = [route |-> d.route, trains |-> d.trains, rank |-> d.rank, blocking |-> d.blocking,
             prompt |-> d.prompt, memory |-> d.memory, addressable |-> d.addressable,
             expansions |-> d.expansions]
    BY <1>1
  <2> QED
    BY <1>2, <1>3, <2>1, <2>2 DEF ContextOK
<1> QED
  BY <1>4

-------------------------------------------------------------------------------
(* What the steps do.                                                      *)

\* The attempts are numbered from one.
LEMMA Rows ==
    ASSUME Types
    PROVE  /\ Len(attempts) \in Nat /\ DOMAIN attempts = 1..Len(attempts)
           /\ IsFiniteSet(DOMAIN attempts)
           /\ \A a \in DOMAIN attempts : attempts[a] \in Attempt
<1>1. attempts \in Seq(Attempt)
  BY DEF Types
<1>2. Len(attempts) \in Nat /\ DOMAIN attempts = 1..Len(attempts)
  BY <1>1
<1>3. IsFiniteSet(1..Len(attempts))
  BY <1>2, FS_Interval
<1>4. \A a \in DOMAIN attempts : attempts[a] \in Attempt
  BY <1>1, <1>2, ElementOfSeq
<1> QED
  BY <1>2, <1>3, <1>4

\* One attempt is rewritten, the others stay.
LEMMA RowChanges ==
    ASSUME Types, NEW a \in DOMAIN attempts, NEW row \in Attempt,
           attempts' = [attempts EXCEPT ![a] = row]
    PROVE  /\ attempts' \in Seq(Attempt) /\ Len(attempts') = Len(attempts)
           /\ DOMAIN attempts' = DOMAIN attempts
           /\ attempts'[a] = row
           /\ \A x \in DOMAIN attempts : x # a => attempts'[x] = attempts[x]
<1>1. attempts \in Seq(Attempt) /\ a \in 1..Len(attempts)
  BY Rows DEF Types
<1> HIDE DEF Attempt
<1> QED
  BY <1>1

\* One process moves, the others stay.
LEMMA ProcessMoves ==
    ASSUME Types, NEW w \in Workers, NEW b \in Process,
           broker' = [broker EXCEPT ![w] = b]
    PROVE  /\ broker' \in [Workers -> Process]
           /\ broker'[w] = b
           /\ \A v \in Workers \ {w} : broker'[v] = broker[v]
<1>1. broker \in [Workers -> Process]
  BY DEF Types
<1> HIDE DEF Process
<1> QED
  BY <1>1

FinishedAs(a, s, charge, kept) ==
    /\ kept = IF Stale(a, s) THEN "HIBERNATED" ELSE s
    /\ attempts' \in Seq(Attempt) /\ Len(attempts') = Len(attempts)
    /\ DOMAIN attempts' = DOMAIN attempts
    /\ \A x \in DOMAIN attempts : x # a => attempts'[x] = attempts[x]
    /\ attempts'[a].status = kept /\ attempts'[a].cost = charge
    /\ attempts'[a].held = Min({attempts[a].held, charge})
    /\ request' \in Request
    /\ request'.reserved = request.reserved - attempts[a].cost
    /\ request'.accrued = request.accrued + charge
    /\ request'.completed = IF kept \in Accepted THEN a ELSE request.completed
    /\ request'.status = IF kept \in Accepted THEN kept ELSE request.status

\* finish_attempt ends an attempt, moves its reservation to the accrued cost and
\* completes the request only when the answer is accepted and not stale.
LEMMA Finished ==
    ASSUME Types, NEW a \in DOMAIN attempts, NEW s \in Verdicts \cup {"HIBERNATED"},
           NEW charge \in Nat, finish_attempt(a, s, charge)
    PROVE  \E kept \in Statuses \ {"CREATED"} : FinishedAs(a, s, charge, kept)
<1> DEFINE kept == IF Stale(a, s) THEN "HIBERNATED" ELSE s
           row == [attempts[a] EXCEPT !.status = kept, !.cost = charge,
                                      !.held = Min({attempts[a].held, charge})]
           req == [request EXCEPT
               !.reserved = request.reserved - attempts[a].cost,
               !.accrued = request.accrued + charge,
               !.completed = IF kept \in Accepted THEN a ELSE request.completed,
               !.status = IF kept \in Accepted THEN kept ELSE request.status]
<1>1. kept \in Statuses \ {"CREATED"}
  BY DEF Verdicts, Statuses, Failures, Accepted
<1>2. attempts[a] \in Attempt /\ a \in Nat /\ request \in Request
  BY Rows DEF Types
<1>3. attempts' = [attempts EXCEPT ![a] = row]
  BY DEF finish_attempt
<1>4. request' = req
  BY DEF finish_attempt
<1>5. attempts[a].held \in Nat /\ attempts[a].cost \in Nat /\ attempts[a].route \in Routes
      /\ attempts[a].expired \in BOOLEAN
  BY <1>2 DEF Attempt
<1>6. Min({attempts[a].held, charge}) \in Nat
  <2>1. attempts[a].held \in Int /\ charge \in Int
    BY <1>5
  <2>2. Min({attempts[a].held, charge}) \in {attempts[a].held, charge}
    BY <2>1, MinOfTwo
  <2> QED
    BY <1>5, <2>2
<1>7. /\ row.status = kept /\ row.cost = charge
      /\ row.held = Min({attempts[a].held, charge})
      /\ row \in Attempt
  <2> DEFINE m == Min({attempts[a].held, charge})
  <2> HIDE DEF m, kept
  <2> QED
    BY <1>1, <1>2, <1>5, <1>6 DEF Attempt, m
<1>8. /\ req.reserved = request.reserved - attempts[a].cost
      /\ req.accrued = request.accrued + charge
      /\ req.completed = IF kept \in Accepted THEN a ELSE request.completed
      /\ req.status = IF kept \in Accepted THEN kept ELSE request.status
      /\ req \in Request
  <2> DEFINE r == request.reserved - attempts[a].cost
             c == request.accrued + charge
             d == IF kept \in Accepted THEN a ELSE request.completed
             t == IF kept \in Accepted THEN kept ELSE request.status
  <2> HIDE DEF kept
  <2>1. /\ request.reserved \in Int /\ request.accrued \in Int /\ request.completed \in Nat
        /\ request.status \in Statuses \cup {None, "ADMITTED", "ATTEMPTING"}
    BY <1>2 DEF Request
  <2>2. r \in Int /\ c \in Int
    BY <1>5, <2>1
  <2>3. d \in Nat /\ t \in Statuses \cup {None, "ADMITTED", "ATTEMPTING"}
    BY <1>1, <1>2, <2>1
  <2> HIDE DEF r, c, d, t
  <2>4. req = [request EXCEPT !.reserved = r, !.accrued = c, !.completed = d, !.status = t]
    BY DEF r, c, d, t
  <2> HIDE DEF req
  <2>5. req = [status |-> t, reserved |-> r, accrued |-> c, completed |-> d]
    BY <1>2, <2>4 DEF Request
  <2>6. req.reserved = r /\ req.accrued = c /\ req.completed = d /\ req.status = t
    BY <2>5
  <2>7. req \in Request
    BY <2>2, <2>3, <2>5 DEF Request
  <2> QED
    BY <2>6, <2>7 DEF r, c, d, t
<1> HIDE DEF row, req, kept
<1>9. /\ attempts' \in Seq(Attempt) /\ Len(attempts') = Len(attempts)
      /\ DOMAIN attempts' = DOMAIN attempts
      /\ attempts'[a] = row
      /\ \A x \in DOMAIN attempts : x # a => attempts'[x] = attempts[x]
  BY <1>3, <1>7, RowChanges
<1>10. kept = IF Stale(a, s) THEN "HIBERNATED" ELSE s
  BY DEF kept
<1> QED
  BY <1>1, <1>4, <1>7, <1>8, <1>9, <1>10 DEF FinishedAs

-------------------------------------------------------------------------------
(* Money.                                                                  *)

\* Bills are amounts.
LEMMA Bills ==
    ASSUME NEW rows \in Seq(Attempt)
    PROVE  \A T \in SUBSET DOMAIN rows : IsFiniteSet(T) /\ Amount(rows, T)
<1> TAKE T \in SUBSET DOMAIN rows
<1>1. Len(rows) \in Nat /\ DOMAIN rows = 1..Len(rows)
  OBVIOUS
<1>2. IsFiniteSet(T)
  <2>1. IsFiniteSet(1..Len(rows))
    BY <1>1, FS_Interval
  <2>2. T \subseteq 1..Len(rows)
    BY <1>1
  <2> QED
    BY <2>1, <2>2, FS_Subset
<1>3. \A a \in T : rows[a] \in Attempt
  BY <1>1, ElementOfSeq
<1>4. \A a \in T : rows[a].cost \in Nat /\ rows[a].held \in Nat
  BY <1>3 DEF Attempt
<1> QED
  BY <1>2, <1>4 DEF Amount

\* A step that leaves the bills alone, and opens and ends no attempt, leaves the
\* totals right.
LEMMA MoneyStays ==
    ASSUME Types, Money, DOMAIN attempts' = DOMAIN attempts,
           \A x \in DOMAIN attempts :
               /\ attempts'[x].cost = attempts[x].cost /\ attempts'[x].held = attempts[x].held
               /\ attempts'[x].status = "CREATED" <=> attempts[x].status = "CREATED",
           request'.reserved = request.reserved, request'.accrued = request.accrued
    PROVE  Money'
<1>1. Active' = Active
  BY DEF Active
<1>2. Active \in SUBSET DOMAIN attempts
  BY DEF Active
<1>3. \A T \in SUBSET DOMAIN attempts :
          CostOf(attempts', T) = CostOf(attempts, T) /\ Overrun(attempts', T) = Overrun(attempts, T)
  BY Bills, SumsStay DEF Types
<1>4. CostsAddUp'
  BY <1>1, <1>2, <1>3 DEF Money, CostsAddUp
<1>5. CeilingHolds'
  BY <1>3 DEF Money, CeilingHolds
<1>6. Booked'
  BY DEF Money, Booked
<1> QED
  BY <1>4, <1>5, <1>6 DEF Money

\* An attempt that ends gives back its reservation and adds its charge.
LEMMA MoneyFinish ==
    ASSUME Types, Money, NEW a \in DOMAIN attempts, attempts[a].status = "CREATED",
           NEW s \in Verdicts \cup {"HIBERNATED"}, NEW charge \in Nat,
           finish_attempt(a, s, charge), Types'
    PROVE  Money'
<1> DEFINE A == Active
           R == Active \ {a}
           E == DOMAIN attempts \ Active
           F == E \cup {a}
           D == DOMAIN attempts
           old == attempts
           new == attempts'
<1>1. PICK kept \in Statuses \ {"CREATED"} : FinishedAs(a, s, charge, kept)
  BY Finished
<1> USE DEF FinishedAs
<1>2. a \in Active /\ Active \subseteq D
  BY DEF Active
<1>3. Active' = R /\ DOMAIN attempts' \ Active' = F
  BY <1>1, <1>2 DEF Active
<1>4. \A T \in SUBSET D : IsFiniteSet(T) /\ Amount(old, T) /\ Amount(new, T)
  <2>1. \A T \in SUBSET DOMAIN attempts' : Amount(attempts', T)
    BY Bills DEF Types
  <2>2. \A T \in SUBSET DOMAIN attempts : IsFiniteSet(T) /\ Amount(attempts, T)
    BY Bills DEF Types
  <2> QED
    BY <1>1, <2>1, <2>2
<1>5. R \in SUBSET D /\ E \in SUBSET D /\ A \in SUBSET D /\ D \in SUBSET D
      /\ A = R \cup {a} /\ a \notin R /\ a \notin E /\ F \in SUBSET D
      /\ F = E \cup {a}
  BY <1>2
<1>6. \A x \in R : new[x] = old[x]
  BY <1>1, <1>2
<1>7. \A x \in E : new[x] = old[x]
  BY <1>1, <1>2
<1>8. request \in Request /\ request.reserved = CostOf(old, A) /\ request.accrued = CostOf(old, E)
  BY DEF Types, Money, CostsAddUp
<1>9. old[a].held = old[a].cost /\ old[a].cost \in Nat
  <2>1. old[a] \in Attempt
    BY Rows
  <2> QED
    BY <2>1 DEF Attempt, Money, Booked
<1>10. Min({old[a].held, charge}) \in {old[a].held, charge}
       /\ Min({old[a].held, charge}) <= old[a].held /\ Min({old[a].held, charge}) <= charge
  <2>1. old[a].held \in Int /\ charge \in Int
    BY <1>9
  <2> QED
    BY <2>1, MinOfTwo
<1>11. \A x \in D : x # a => new[x] = old[x]
  BY <1>1
<1>12. request.accrued + request.reserved <= MaxTotal + Overrun(old, D)
  BY DEF Money, CeilingHolds
<1>13. new[a].cost = charge /\ new[a].held = Min({old[a].held, charge})
  BY <1>1
<1> HIDE DEF A, R, E, F, D, old, new
<1>14. CostOf(old, A) = CostOf(old, R) + old[a].cost
  <2>1. IsFiniteSet(R) /\ Amount(old, A)
    BY <1>4, <1>5
  <2> QED
    BY <1>5, <2>1, SumsJoin
<1>15. CostOf(new, R) = CostOf(old, R)
  BY <1>4, <1>5, <1>6, SumsStay
<1>16. CostOf(new, F) = CostOf(new, E) + new[a].cost
  <2>1. IsFiniteSet(E) /\ Amount(new, F)
    BY <1>4, <1>5
  <2> QED
    BY <1>5, <2>1, SumsJoin
<1>17. CostOf(new, E) = CostOf(old, E)
  BY <1>4, <1>5, <1>7, SumsStay
<1>18. Overrun(new, D) = Overrun(old, D) - (old[a].cost - old[a].held) + (new[a].cost - new[a].held)
  <2>1. a \in D
    BY DEF D
  <2>2. IsFiniteSet(D) /\ Amount(old, D) /\ Amount(new, D)
    BY <1>4, <1>5
  <2> QED
    BY <1>11, <2>1, <2>2, SumsMove
<1>19. CostOf(old, R) \in Int /\ CostOf(old, E) \in Int /\ Overrun(old, D) \in Int
  BY <1>4, <1>5, SumsOfAttempts
<1>20. CostsAddUp'
  <2>1. request'.reserved = CostOf(new, R)
    BY <1>1, <1>8, <1>9, <1>14, <1>15, <1>19 DEF old
  <2>2. request'.accrued = CostOf(new, F)
    BY <1>1, <1>8, <1>13, <1>16, <1>17
  <2> QED
    BY <1>3, <2>1, <2>2 DEF CostsAddUp, new
<1>21. CeilingHolds'
  <2> DEFINE m == Min({old[a].held, charge})
             o == Overrun(old, D)
             c == old[a].cost
             q == request.accrued
             z == request.reserved
  <2>1. o \in Int /\ c \in Nat /\ m \in Nat /\ m <= c /\ q \in Int /\ z \in Int
        /\ MaxTotal \in Nat
    BY <1>8, <1>9, <1>10, <1>19, InferenceConstants DEF Request, InferenceConstants
  <2>2. Overrun(new, D) = o - (c - c) + (charge - m)
    BY <1>9, <1>13, <1>18
  <2>3. request'.accrued = q + charge /\ request'.reserved = z - c
    BY <1>1 DEF old
  <2>4. q + z <= MaxTotal + o
    BY <1>12
  <2> HIDE DEF m, o, c, q, z
  <2>5. request'.accrued + request'.reserved <= MaxTotal + Overrun(new, D)
    BY <2>1, <2>2, <2>3, <2>4
  <2> QED
    BY <1>1, <2>5 DEF CeilingHolds, new, D
<1>22. Booked'
  <2> SUFFICES ASSUME NEW x \in DOMAIN attempts'
               PROVE  /\ attempts'[x].held <= attempts'[x].cost
                      /\ attempts'[x].status = "CREATED" => attempts'[x].held = attempts'[x].cost
    BY DEF Booked
  <2>1. CASE x = a
    BY <1>1, <1>10, <2>1 DEF old
  <2>2. CASE x # a
    BY <1>1, <2>2 DEF Money, Booked
  <2> QED
    BY <2>1, <2>2
<1> QED
  BY <1>20, <1>21, <1>22 DEF Money

\* A reservation that the ceiling admits keeps the totals right and within it.
LEMMA MoneyReserve ==
    ASSUME Types, Types', Money, NEW a \in DOMAIN attempts, attempts[a].status = "CREATED",
           attempts[a].cost = 0, NEW r \in Nat,
           DOMAIN attempts' = DOMAIN attempts,
           \A x \in DOMAIN attempts : x # a => attempts'[x] = attempts[x],
           attempts'[a].status = "CREATED", attempts'[a].cost = r, attempts'[a].held = r,
           request'.accrued = request.accrued,
           request'.reserved = request.reserved - attempts[a].cost + r,
           request'.accrued + request'.reserved <= MaxTotal
    PROVE  Money'
<1> DEFINE A == Active
           E == DOMAIN attempts \ Active
           D == DOMAIN attempts
           old == attempts
           new == attempts'
<1>1. a \in A /\ A \in SUBSET D /\ E \in SUBSET D /\ D \in SUBSET D
  BY DEF Active
<1>2. Active' = A /\ DOMAIN attempts' \ Active' = E
  BY DEF Active
<1>3. \A T \in SUBSET D : IsFiniteSet(T) /\ Amount(old, T) /\ Amount(new, T)
  BY Bills DEF Types
<1>4. \A x \in A : x # a => new[x] = old[x]
  BY <1>1
<1>5. \A x \in E : new[x] = old[x]
  BY <1>1
<1>6. Booked'
  <2> SUFFICES ASSUME NEW x \in DOMAIN attempts'
               PROVE  /\ attempts'[x].held <= attempts'[x].cost
                      /\ attempts'[x].status = "CREATED" => attempts'[x].held = attempts'[x].cost
    BY DEF Booked
  <2>1. CASE x = a
    BY <2>1
  <2>2. CASE x # a
    BY <2>2 DEF Money, Booked
  <2> QED
    BY <2>1, <2>2
<1>7. \A x \in D : new[x].held <= new[x].cost
  BY <1>6 DEF Booked
<1>8. request.reserved = CostOf(old, A) /\ request.accrued = CostOf(old, E)
  BY DEF Money, CostsAddUp
<1>9. old[a].cost = 0 /\ new[a].cost = r
  OBVIOUS
<1>10. request'.reserved = request.reserved - old[a].cost + r
  OBVIOUS
<1> HIDE DEF A, E, D, old, new
<1>11. CostOf(new, A) = CostOf(old, A) - old[a].cost + new[a].cost
  <2>1. IsFiniteSet(A) /\ Amount(old, A) /\ Amount(new, A)
    BY <1>1, <1>3
  <2> QED
    BY <1>1, <1>4, <2>1, SumsMove
<1>12. CostOf(new, E) = CostOf(old, E)
  BY <1>1, <1>3, <1>5, SumsStay
<1>13. Overrun(new, D) \in Int /\ Overrun(new, D) >= 0
  <2>1. IsFiniteSet(D) /\ Amount(new, D)
    BY <1>1, <1>3
  <2> QED
    BY <1>7, <2>1, SumsOfAttempts
<1>14. CostsAddUp'
  <2>1. request'.reserved = CostOf(new, A) /\ request'.accrued = CostOf(new, E)
    BY <1>8, <1>9, <1>10, <1>11, <1>12
  <2> QED
    BY <1>2, <2>1 DEF CostsAddUp, new
<1>15. CeilingHolds'
  <2>1. request' \in Request /\ MaxTotal \in Nat
    BY InferenceConstants DEF Types, InferenceConstants
  <2>2. request'.accrued \in Int /\ request'.reserved \in Int
    BY <2>1 DEF Request
  <2>3. request'.accrued + request'.reserved <= MaxTotal + Overrun(new, D)
    BY <1>13, <2>1, <2>2
  <2> QED
    BY <2>3 DEF CeilingHolds, new, D
<1> QED
  BY <1>6, <1>14, <1>15 DEF Money

\* An invoice replaces the cost of an attempt that has ended.
LEMMA MoneyReconcile ==
    ASSUME Types, Types', Money, NEW a \in DOMAIN attempts, attempts[a].status # "CREATED",
           NEW invoice \in Nat, DOMAIN attempts' = DOMAIN attempts,
           \A x \in DOMAIN attempts : x # a => attempts'[x] = attempts[x],
           attempts'[a].status = attempts[a].status, attempts'[a].cost = invoice,
           attempts'[a].held = Min({attempts[a].held, invoice}),
           request'.reserved = request.reserved,
           request'.accrued = request.accrued - attempts[a].cost + invoice
    PROVE  Money'
<1> DEFINE A == Active
           E == DOMAIN attempts \ Active
           D == DOMAIN attempts
           old == attempts
           new == attempts'
           m == Min({old[a].held, invoice})
<1>1. a \in E /\ a \in D /\ A \in SUBSET D /\ E \in SUBSET D /\ D \in SUBSET D
  BY DEF Active
<1>2. Active' = A /\ DOMAIN attempts' \ Active' = E
  BY DEF Active
<1>3. \A T \in SUBSET D : IsFiniteSet(T) /\ Amount(old, T) /\ Amount(new, T)
  BY Bills DEF Types
<1>4. \A x \in D : x # a => new[x] = old[x]
  OBVIOUS
<1>5. \A x \in A : new[x] = old[x]
  BY DEF Active
<1>6. old[a].held \in Nat /\ old[a].cost \in Nat
  <2>1. old[a] \in Attempt
    BY Rows
  <2> QED
    BY <2>1 DEF Attempt
<1>7. m \in Int /\ m <= old[a].held /\ m <= invoice
  <2>1. old[a].held \in Int /\ invoice \in Int
    BY <1>6
  <2>2. m \in {old[a].held, invoice} /\ m <= old[a].held /\ m <= invoice
    BY <2>1, MinOfTwo
  <2> QED
    BY <1>6, <2>2
<1>8. Booked'
  <2> SUFFICES ASSUME NEW x \in DOMAIN attempts'
               PROVE  /\ attempts'[x].held <= attempts'[x].cost
                      /\ attempts'[x].status = "CREATED" => attempts'[x].held = attempts'[x].cost
    BY DEF Booked
  <2>1. CASE x = a
    BY <1>7, <2>1
  <2>2. CASE x # a
    BY <2>2 DEF Money, Booked
  <2> QED
    BY <2>1, <2>2
<1>9. request.reserved = CostOf(old, A) /\ request.accrued = CostOf(old, E)
      /\ request.accrued + request.reserved <= MaxTotal + Overrun(old, D)
  BY DEF Money, CostsAddUp, CeilingHolds
<1>10. new[a].cost = invoice /\ new[a].held = m
       /\ request'.accrued = request.accrued - old[a].cost + invoice
  OBVIOUS
<1> HIDE DEF A, E, D, old, new, m
<1>11. CostOf(new, E) = CostOf(old, E) - old[a].cost + new[a].cost
  <2>1. IsFiniteSet(E) /\ Amount(old, E) /\ Amount(new, E) /\ \A x \in E : x # a => new[x] = old[x]
    BY <1>1, <1>3, <1>4
  <2> QED
    BY <1>1, <2>1, SumsMove
<1>12. CostOf(new, A) = CostOf(old, A)
  BY <1>1, <1>3, <1>5, SumsStay
<1>13. Overrun(new, D) = Overrun(old, D) - (old[a].cost - old[a].held) + (new[a].cost - new[a].held)
  <2>1. IsFiniteSet(D) /\ Amount(old, D) /\ Amount(new, D)
    BY <1>1, <1>3
  <2> QED
    BY <1>1, <1>4, <2>1, SumsMove
<1>14. Overrun(old, D) \in Int
  <2>1. IsFiniteSet(D) /\ Amount(old, D)
    BY <1>1, <1>3
  <2> QED
    BY <2>1, SumsOfAttempts
<1>15. CostsAddUp'
  <2>1. request'.reserved = CostOf(new, A) /\ request'.accrued = CostOf(new, E)
    BY <1>9, <1>10, <1>11, <1>12
  <2> QED
    BY <1>2, <2>1 DEF CostsAddUp, new
<1>16. CeilingHolds'
  <2>1. request \in Request /\ MaxTotal \in Nat
    BY InferenceConstants DEF Types, InferenceConstants
  <2>2. request.accrued \in Int /\ request.reserved \in Int
    BY <2>1 DEF Request
  <2>3. request'.accrued + request'.reserved <= MaxTotal + Overrun(new, D)
    BY <1>6, <1>7, <1>9, <1>10, <1>13, <1>14, <2>1, <2>2
  <2> QED
    BY <2>3 DEF CeilingHolds, new, D
<1> QED
  BY <1>8, <1>15, <1>16 DEF Money

\* A new attempt is booked with nothing.
LEMMA MoneyClaim ==
    ASSUME Types, Types', Money, NEW r \in Routes, attempts' = Append(attempts, NewAttempt(r)),
           request'.reserved = request.reserved, request'.accrued = request.accrued
    PROVE  Money'
<1> DEFINE n == Len(attempts) + 1
           A == Active
           B == Active \cup {n}
           E == DOMAIN attempts \ Active
           D == DOMAIN attempts
           U == DOMAIN attempts \cup {n}
           old == attempts
           new == attempts'
<1>1. attempts \in Seq(Attempt) /\ Len(attempts) \in Nat /\ D = 1..Len(attempts)
  BY Rows DEF Types
<1>2. NewAttempt(r) \in Attempt
  BY DEF NewAttempt, Attempt, Statuses
<1>3. DOMAIN attempts' = 1..n /\ new[n] = NewAttempt(r) /\ \A x \in D : new[x] = old[x]
  <2> HIDE DEF Attempt
  <2> QED
    BY <1>1, <1>2
<1>4. new[n].status = "CREATED" /\ new[n].cost = 0 /\ new[n].held = 0
  BY <1>3 DEF NewAttempt
<1>5. n \notin D /\ DOMAIN attempts' = U
  BY <1>1, <1>3
<1>6. A \in SUBSET D /\ E \in SUBSET D /\ D \in SUBSET D /\ n \notin A /\ B = A \cup {n}
      /\ U = D \cup {n} /\ B \in SUBSET U /\ U \in SUBSET U
  BY <1>5 DEF Active
<1>7. Active' = B /\ DOMAIN attempts' \ Active' = E
  BY <1>3, <1>4, <1>5 DEF Active
<1>8. \A T \in SUBSET D : IsFiniteSet(T) /\ Amount(old, T)
  BY Bills DEF Types
<1>9. \A T \in SUBSET U : IsFiniteSet(T) /\ Amount(new, T)
  <2>1. \A T \in SUBSET DOMAIN attempts' : IsFiniteSet(T) /\ Amount(attempts', T)
    BY Bills DEF Types
  <2> QED
    BY <1>5, <2>1
<1>10. Booked'
  <2> SUFFICES ASSUME NEW x \in DOMAIN attempts'
               PROVE  /\ attempts'[x].held <= attempts'[x].cost
                      /\ attempts'[x].status = "CREATED" => attempts'[x].held = attempts'[x].cost
    BY DEF Booked
  <2>1. CASE x = n
    BY <1>4, <2>1
  <2>2. CASE x # n
    <3>1. x \in D /\ attempts'[x] = attempts[x]
      BY <1>3, <1>5, <2>2
    <3> QED
      BY <3>1 DEF Money, Booked
  <2> QED
    BY <2>1, <2>2
<1>11. request.reserved = CostOf(old, A) /\ request.accrued = CostOf(old, E)
       /\ request.accrued + request.reserved <= MaxTotal + Overrun(old, D)
  BY DEF Money, CostsAddUp, CeilingHolds
<1>12. \A x \in D : new[x] = old[x]
  BY <1>3
<1> HIDE DEF A, B, E, D, U, old, new, n
<1>13. CostOf(new, B) = CostOf(new, A) + new[n].cost
  <2>1. IsFiniteSet(A) /\ Amount(new, B)
    BY <1>6, <1>8, <1>9
  <2> QED
    BY <1>6, <2>1, SumsJoin
<1>14. Overrun(new, U) = Overrun(new, D) + (new[n].cost - new[n].held)
  <2>1. IsFiniteSet(D) /\ Amount(new, U)
    BY <1>6, <1>8, <1>9
  <2> QED
    BY <1>5, <1>6, <2>1, SumsJoin
<1>15. CostOf(new, A) = CostOf(old, A) /\ CostOf(new, E) = CostOf(old, E)
       /\ Overrun(new, D) = Overrun(old, D)
  BY <1>6, <1>8, <1>12, SumsStay
<1>16. CostOf(old, A) \in Int /\ Overrun(old, D) \in Int
  BY <1>6, <1>8, SumsOfAttempts
<1>17. CostsAddUp'
  <2>1. request'.reserved = CostOf(new, B) /\ request'.accrued = CostOf(new, E)
    BY <1>4, <1>11, <1>13, <1>15, <1>16
  <2> QED
    BY <1>7, <2>1 DEF CostsAddUp, new
<1>18. CeilingHolds'
  <2>1. request'.accrued + request'.reserved <= MaxTotal + Overrun(new, U)
    BY <1>4, <1>11, <1>14, <1>15, <1>16
  <2> QED
    BY <1>5, <2>1 DEF CeilingHolds, new
<1> QED
  BY <1>10, <1>17, <1>18 DEF Money

-------------------------------------------------------------------------------
(* Processes.                                                              *)

\* A step of one process, or of the backend, leaves what is known of the others,
\* as long as it does not touch the attempts they hold.
LEMMA OthersStay ==
    ASSUME Types, Types', Processes, NEW v \in Workers, broker'[v] = broker[v],
           Len(attempts) <= Len(attempts'),
           broker[v].pc \in Holding =>
               LET a == broker[v].attempt
               IN  /\ attempts'[a].status = attempts[a].status
                   /\ attempts'[a].route = attempts[a].route
                   /\ attempts'[a].cost = attempts[a].cost,
           \A u \in Workers \ {v} : \/ broker'[u].attempt \in {0, broker[u].attempt}
                                     \/ broker'[u].attempt > Len(attempts),
           request'.completed = request.completed \/ request.completed = 0
    PROVE  ProcessOK(v)'
<1>1. ProcessOK(v)
  BY DEF Processes
<1>2. Len(attempts) \in Nat /\ Len(attempts') \in Nat
  BY DEF Types
<1>3. broker[v] \in Process
  BY DEF Types
<1>4. \A u \in Workers \ {v} : broker[v].attempt # 0 => broker'[u].attempt # broker[v].attempt
  <2> SUFFICES ASSUME NEW u \in Workers \ {v}, broker[v].attempt # 0
               PROVE  broker'[u].attempt # broker[v].attempt
    OBVIOUS
  <2>1. broker[u].attempt # broker[v].attempt /\ broker[v].attempt \in 0..Len(attempts)
    BY <1>1 DEF ProcessOK
  <2> QED
    BY <1>2, <2>1
<1>5. broker[v].attempt \in 0..Len(attempts')
  BY <1>1, <1>2 DEF ProcessOK
<1>6. broker[v].pc \in Holding =>
          /\ broker[v].attempt # 0
          /\ attempts'[broker[v].attempt].status = "CREATED"
          /\ attempts'[broker[v].attempt].route = Route(v)
  BY <1>1 DEF ProcessOK, Mine
<1>7. /\ broker[v].pc = "reserve" => attempts'[broker[v].attempt].cost = 0
      /\ broker[v].pc = "call" => attempts'[broker[v].attempt].cost = Reservation(Route(v))
  BY <1>1 DEF ProcessOK, Mine, Holding
<1>8. broker[v].status \in Accepted =>
          /\ broker[v].pc \in {"outcome", "note", "hibernate", "failed"}
          /\ broker[v].attempt # 0 /\ broker[v].attempt = request'.completed
  BY <1>1 DEF ProcessOK
<1>9. broker[v].pc \in Routed => broker[v].next \in DOMAIN broker[v].routes
  BY <1>1 DEF ProcessOK
<1> QED
  BY <1>4, <1>5, <1>6, <1>7, <1>8, <1>9 DEF ProcessOK, Mine, Route

\* A process moves on without an open attempt in hand; the one it held it leaves.
QuietMove(w) ==
    /\ attempts' = attempts
    /\ request'.reserved = request.reserved /\ request'.accrued = request.accrued
    /\ request'.completed = request.completed /\ request'.status # None
    /\ \A v \in Workers \ {w} : broker'[v] = broker[v]
    /\ broker'[w].attempt \in {0, broker[w].attempt}
    /\ broker'[w].pc \notin Holding
    /\ \/ broker[w].pc \notin Holding /\ abandoned' = abandoned
       \/ \E cause :
              /\ broker[w].pc \in Holding /\ (cause = "cancelled" => broker[w].pc = "call")
              /\ abandoned' = abandoned \cup {[attempt |-> broker[w].attempt, cause |-> cause]}
    /\ broker'[w].pc \in Routed =>
           /\ broker'[w].next \in DOMAIN broker'[w].routes
           /\ context # None
           /\ \A k \in DOMAIN broker'[w].routes :
                  _context_safe_for_route(context, broker'[w].routes[k])
    /\ broker'[w].status \in Accepted =>
           /\ broker[w].status \in Accepted /\ broker'[w].attempt = broker[w].attempt
           /\ broker'[w].pc \in {"outcome", "note", "hibernate", "failed"}
    /\ \/ answers' = answers
       \/ broker[w].status \in Accepted /\ answers' = answers \cup {broker[w].attempt}
    /\ UNCHANGED <<context, sent>>

\* Such a move keeps the invariant.
LEMMA QuietKeeps ==
    ASSUME Inv, Types', NEW w \in Workers, QuietMove(w)
    PROVE  Inv'
<1> USE DEF QuietMove
<1>0. /\ Types /\ Processes /\ Money /\ Contexts /\ Answers
      /\ Known /\ OneAnswer /\ EvidenceStaysCleared
  BY DEF Inv
<1>1. Processes'
  <2>1. ASSUME NEW v \in Workers, v # w PROVE ProcessOK(v)'
    <3>1. Len(attempts) <= Len(attempts')
      BY <1>0 DEF Types
    <3>2. \A u \in Workers \ {v} : broker'[u].attempt \in {0, broker[u].attempt}
      OBVIOUS
    <3> QED
      BY <1>0, <2>1, <3>1, <3>2, OthersStay
  <2>2. ProcessOK(w)'
    <3>1. ProcessOK(w)
      BY <1>0 DEF Processes
    <3>2. Len(attempts) \in Nat
      BY <1>0 DEF Types
    <3>3. broker'[w].attempt \in 0..Len(attempts')
      BY <3>1, <3>2 DEF ProcessOK
    <3>4. \A v \in Workers \ {w} : broker'[w].attempt # 0 => broker'[v].attempt # broker'[w].attempt
      BY <3>1 DEF ProcessOK
    <3>5. broker'[w].status \in Accepted =>
              broker'[w].attempt # 0 /\ broker'[w].attempt = request'.completed
      BY <3>1 DEF ProcessOK
    <3> QED
      BY <3>3, <3>4, <3>5 DEF ProcessOK, Holding
  <2> QED
    BY <2>1, <2>2 DEF Processes
<1>2. Money'
  BY <1>0, MoneyStays
<1>3. Contexts'
  BY <1>0 DEF Contexts
<1>4. ProcessOK(w)
  BY <1>0 DEF Processes
<1>5. Answers' /\ OneAnswer'
  BY <1>0, <1>4 DEF Answers, OneAnswer, ProcessOK
<1>6. Known'
  <2> DEFINE a == broker[w].attempt
  <2>1. Active' = Active
    BY DEF Active
  <2>2. CASE broker[w].pc \notin Holding
    <3>1. abandoned' = abandoned
      BY <2>2
    <3>2. \A x : Left(x)' <=> Left(x)
      BY <3>1 DEF Left
    <3>3. \A x : Held(x)' <=> Held(x)
      BY <2>2 DEF Held
    <3> QED
      BY <1>0, <2>1, <3>1, <3>2, <3>3 DEF Known
  <2>3. CASE broker[w].pc \in Holding
    <3>1. PICK y : /\ abandoned' = abandoned \cup {y} /\ y.attempt = a
                   /\ y.cause = "cancelled" => broker[w].pc = "call"
      <4>1. PICK cause : /\ cause = "cancelled" => broker[w].pc = "call"
                         /\ abandoned' = abandoned \cup {[attempt |-> a, cause |-> cause]}
        BY <2>3
      <4>2. PICK y : y = [attempt |-> a, cause |-> cause]
        OBVIOUS
      <4>3. y.attempt = a /\ y.cause = cause
        BY <4>2
      <4> QED
        BY <4>1, <4>2, <4>3
    <3>2. \A x : Left(x)' <=> Left(x) \/ x = a
      BY <3>1 DEF Left
    <3>3. \A v \in Workers \ {w} : broker[v].attempt # a
      BY <1>4, <2>3 DEF ProcessOK
    <3>4. \A x : Held(x)' <=> Held(x) /\ x # a
      BY <3>3 DEF Held
    <3>5. Held(a)
      BY <2>3 DEF Held
    <3>6. y.cause = "cancelled" =>
              attempts'[y.attempt].cost = Reservation(attempts'[y.attempt].route)
      BY <1>4, <2>3, <3>1 DEF ProcessOK, Mine
    <3>7. /\ \A x : x \in Active' <=> Held(x)' \/ Left(x)'
          /\ \A x : ~(Held(x)' /\ Left(x)')
      BY <1>0, <2>1, <3>2, <3>4, <3>5 DEF Known
    <3> QED
      BY <1>0, <3>1, <3>6, <3>7 DEF Known
  <2> QED
    BY <2>2, <2>3
<1>7. EvidenceStaysCleared'
  BY <1>0 DEF EvidenceStaysCleared
<1> QED
  BY <1>1, <1>2, <1>3, <1>5, <1>6, <1>7 DEF Inv

\* The backend changes a row without opening or ending an attempt.
BackendMove ==
    /\ DOMAIN attempts' = DOMAIN attempts /\ Len(attempts') = Len(attempts)
    /\ \A a \in DOMAIN attempts :
           /\ attempts'[a].status = "CREATED" <=> attempts[a].status = "CREATED"
           /\ attempts[a].status = "CREATED" => /\ attempts'[a].route = attempts[a].route
                                                /\ attempts'[a].cost = attempts[a].cost
           /\ attempts'[a].status \in Accepted => attempts[a].status \in Accepted
    /\ request'.completed = request.completed
    /\ request'.status = None => request.status = None
    /\ answers' \in {answers, answers \cup {request.completed}}
    /\ request.completed = 0 => answers' = answers
    /\ UNCHANGED <<broker, context, sent, abandoned>>

\* So does such a change.
LEMMA BackendKeeps ==
    ASSUME Inv, Types', Money', BackendMove
    PROVE  Inv'
<1> USE DEF BackendMove
<1>0. /\ Types /\ Processes /\ Money /\ Contexts /\ Answers
      /\ Known /\ OneAnswer /\ EvidenceStaysCleared
  BY DEF Inv
<1>1. Processes'
  <2> SUFFICES ASSUME NEW v \in Workers PROVE ProcessOK(v)'
    BY DEF Processes
  <2>1. ProcessOK(v) /\ Len(attempts) \in Nat
    BY <1>0 DEF Processes, Types
  <2>2. Len(attempts) <= Len(attempts')
    BY <2>1
  <2>3. broker[v].pc \in Holding => broker[v].attempt \in DOMAIN attempts
                                     /\ attempts[broker[v].attempt].status = "CREATED"
    BY <1>0, <2>1, Rows DEF ProcessOK, Mine
  <2> QED
    BY <1>0, <2>2, <2>3, OthersStay
<1>2. Contexts'
  BY <1>0 DEF Contexts
<1>3. Answers' /\ OneAnswer'
  BY <1>0 DEF Answers, OneAnswer
<1>4. Known'
  <2>1. Active' = Active
    BY DEF Active
  <2>2. (\A x : Held(x)' <=> Held(x)) /\ \A x : Left(x)' <=> Left(x)
    BY DEF Held, Left
  <2>3. ASSUME NEW y \in abandoned, y.cause = "cancelled"
        PROVE  attempts'[y.attempt].cost = Reservation(attempts'[y.attempt].route)
    <3>1. y.attempt \in Active
      BY <1>0 DEF Known, Left
    <3> QED
      BY <1>0, <2>3, <3>1 DEF Known, Active
  <2> QED
    BY <1>0, <2>1, <2>2, <2>3 DEF Known
<1>5. EvidenceStaysCleared'
  BY <1>0 DEF EvidenceStaysCleared
<1> QED
  BY <1>1, <1>2, <1>3, <1>4, <1>5 DEF Inv

\* The process that holds an attempt ends it.
FinishMove(w, s, charge) ==
    /\ broker[w].pc \in Holding
    /\ finish_attempt(broker[w].attempt, s, charge)
    /\ \A v \in Workers \ {w} : broker'[v] = broker[v]
    /\ broker'[w].attempt = broker[w].attempt
    /\ broker'[w].routes = broker[w].routes /\ broker'[w].next = broker[w].next
    /\ broker'[w].pc \in {"outcome", "note", "hibernate"}
    /\ broker'[w].status \in Accepted => s \in Accepted /\ ~Stale(broker[w].attempt, s)
    /\ UNCHANGED <<context, sent, answers, abandoned>>

\* Ending an attempt keeps the invariant: a late answer completes nothing, the
\* reservation is released, and the totals stay right.
LEMMA FinishKeeps ==
    ASSUME Inv, broker' \in [Workers -> Process], NEW w \in Workers,
           NEW s \in Verdicts \cup {"HIBERNATED"}, NEW charge \in Nat, FinishMove(w, s, charge)
    PROVE  Inv'
<1> DEFINE a == broker[w].attempt
<1>0. /\ Types /\ Processes /\ Money /\ Contexts /\ Answers
      /\ Known /\ OneAnswer /\ EvidenceStaysCleared
  BY DEF Inv
<1>1. ProcessOK(w) /\ broker[w].pc \in Holding
  BY <1>0 DEF Processes, FinishMove
<1>2. a \in DOMAIN attempts /\ attempts[a].status = "CREATED" /\ a # 0
  BY <1>0, <1>1, Rows DEF ProcessOK, Mine
<1>3. finish_attempt(a, s, charge)
  BY DEF FinishMove
<1>4. PICK kept \in Statuses \ {"CREATED"} : FinishedAs(a, s, charge, kept)
  BY <1>0, <1>2, <1>3, Finished
<1>5. Types'
  BY <1>4 DEF Types, FinishedAs
<1>6. Money'
  BY <1>0, <1>2, <1>3, <1>5, MoneyFinish
<1>7. /\ DOMAIN attempts' = DOMAIN attempts /\ Len(attempts') = Len(attempts)
      /\ \A x \in DOMAIN attempts : x # a => attempts'[x] = attempts[x]
      /\ attempts'[a].status = kept /\ kept \in Statuses /\ kept # "CREATED"
      /\ request'.completed = IF kept \in Accepted THEN a ELSE request.completed
      /\ request'.status = IF kept \in Accepted THEN kept ELSE request.status
  BY <1>4 DEF FinishedAs
<1>8. kept = IF Stale(a, s) THEN "HIBERNATED" ELSE s
  BY <1>4 DEF FinishedAs
<1>9. kept \in Accepted => request.completed = 0 /\ s \in Accepted
  BY <1>8 DEF Stale, Accepted
<1>10. /\ \A v \in Workers \ {w} : broker'[v] = broker[v]
       /\ broker'[w].attempt = a
       /\ broker'[w].routes = broker[w].routes /\ broker'[w].next = broker[w].next
       /\ broker'[w].pc \in {"outcome", "note", "hibernate"}
       /\ broker'[w].status \in Accepted => kept \in Accepted
       /\ UNCHANGED <<context, sent, answers, abandoned>>
  BY <1>8 DEF FinishMove
<1>11. ProcessOK(w)'
  <2>1. broker'[w].attempt \in 0..Len(attempts') /\ broker'[w].pc \notin Holding
    BY <1>1, <1>7, <1>10 DEF ProcessOK, Holding
  <2>2. \A v \in Workers \ {w} : broker'[w].attempt # 0 => broker'[v].attempt # broker'[w].attempt
    BY <1>1, <1>10 DEF ProcessOK
  <2>3. broker'[w].next \in DOMAIN broker'[w].routes
    BY <1>1, <1>10 DEF ProcessOK, Routed
  <2>4. broker'[w].status \in Accepted => broker'[w].attempt = request'.completed
    BY <1>7, <1>10
  <2> QED
    BY <1>2, <1>10, <2>1, <2>2, <2>3, <2>4 DEF ProcessOK, Holding
<1>12. ASSUME NEW v \in Workers, v # w PROVE ProcessOK(v)'
  <2>1. ProcessOK(v) /\ Len(attempts) \in Nat
    BY <1>0 DEF Processes, Types
  <2>2. broker[v].pc \in Holding => broker[v].attempt \in DOMAIN attempts /\ broker[v].attempt # a
    BY <1>0, <1>12, <2>1, Rows DEF ProcessOK
  <2>3. Len(attempts) <= Len(attempts')
    BY <1>7, <2>1
  <2>4. \A u \in Workers \ {v} : broker'[u].attempt \in {0, broker[u].attempt}
    BY <1>10
  <2>5. request'.completed = request.completed \/ request.completed = 0
    BY <1>7, <1>9
  <2>6. broker[v].pc \in Holding => attempts'[broker[v].attempt] = attempts[broker[v].attempt]
    BY <1>7, <2>2
  <2>7. broker'[v] = broker[v]
    BY <1>10, <1>12
  <2> HIDE DEF a
  <2> QED
    BY <1>0, <1>5, <2>3, <2>4, <2>5, <2>6, <2>7, OthersStay
<1>13. Processes'
  BY <1>11, <1>12 DEF Processes
<1>14. request'.status # None
  <2>1. request.status # None
    BY <1>0, <1>1 DEF Contexts, Holding
  <2> QED
    BY <1>7, <2>1, InferenceConstants DEF InferenceConstants
<1>15. Contexts'
  <2>1. broker[w].pc \in Routed
    BY <1>1 DEF Routed
  <2> QED
    BY <1>0, <1>10, <1>14, <2>1 DEF Contexts
<1>16. Answers'
  BY <1>0, <1>2, <1>7, <1>10, Rows DEF Answers
<1>17. OneAnswer'
  <2>1. CASE kept \in Accepted
    <3>1. answers = {}
      BY <1>0, <1>9, <2>1 DEF Answers, OneAnswer
    <3>2. \A x \in DOMAIN attempts : attempts[x].status \notin Accepted
      BY <1>0, <1>9, <2>1, Rows DEF OneAnswer
    <3> QED
      BY <1>7, <1>10, <2>1, <3>1, <3>2 DEF OneAnswer
  <2>2. CASE kept \notin Accepted
    BY <1>0, <1>7, <1>10, <2>2 DEF OneAnswer
  <2> QED
    BY <2>1, <2>2
<1>18. Known'
  <2>1. \A x : x \in Active' <=> x \in Active /\ x # a
    BY <1>7 DEF Active
  <2>2. \A v \in Workers \ {w} : broker[v].attempt # a
    BY <1>1, <1>2 DEF ProcessOK
  <2>3. broker[w].pc \in Holding /\ broker'[w].pc \notin Holding
    BY <1>1, <1>10 DEF Holding
  <2>4. \A x : Held(x)' <=> Held(x) /\ x # a
    BY <1>10, <2>2, <2>3 DEF Held
  <2>5. Held(a)
    BY <2>3 DEF Held
  <2>6. \A x : Left(x)' <=> Left(x)
    BY <1>10 DEF Left
  <2>7. ASSUME NEW y \in abandoned', y.cause = "cancelled"
        PROVE  attempts'[y.attempt].cost = Reservation(attempts'[y.attempt].route)
    <3>1. y \in abandoned /\ Left(y.attempt)
      BY <1>10 DEF Left
    <3>2. y.attempt \in Active /\ y.attempt # a
      BY <1>0, <2>5, <3>1 DEF Known
    <3>3. attempts'[y.attempt] = attempts[y.attempt]
      BY <1>7, <3>2 DEF Active
    <3> QED
      BY <1>0, <2>7, <3>1, <3>3 DEF Known
  <2>8. /\ \A x : x \in Active' <=> Held(x)' \/ Left(x)'
        /\ \A x : ~(Held(x)' /\ Left(x)')
    BY <1>0, <2>1, <2>4, <2>5, <2>6 DEF Known
  <2> QED
    BY <2>7, <2>8 DEF Known
<1>19. EvidenceStaysCleared'
  BY <1>0, <1>10 DEF EvidenceStaysCleared
<1> QED
  BY <1>5, <1>6, <1>13, <1>15, <1>16, <1>17, <1>18, <1>19 DEF Inv

-------------------------------------------------------------------------------
(* The steps of run.                                                       *)

\* A process between two runs.
LEMMA IdleIsProcess ==
    /\ Idle \in Process /\ Idle.pc = "idle" /\ Idle.attempt = 0 /\ Idle.status = None
<1>1. <<>> \in Seq(Routes)
  OBVIOUS
<1> QED
  BY <1>1 DEF Idle, Process, PCs, Errors, StopReasons

\* The unused status is not an accepted one.
LEMMA NoneIsNoStatus == None \notin Statuses /\ None \notin Accepted
BY InferenceConstants DEF InferenceConstants, Statuses

\* select_routes orders eligible routes.
LEMMA Selected ==
    ASSUME NEW S \in SUBSET Routes, NEW routes \in select_routes(S)
    PROVE  /\ routes \in Seq(Routes) /\ \A k \in DOMAIN routes : routes[k] \in S
           /\ routes # <<>> => 1 \in DOMAIN routes
<1>1. Cardinality(S) \in Nat
  BY InferenceConstants, FS_Subset, FS_CardinalityType DEF InferenceConstants
<1>2. routes \in [1..Cardinality(S) -> S]
  BY DEF select_routes
<1>3. routes \in Seq(S)
  BY <1>1, <1>2, SeqDef
<1>4. routes # <<>> => Len(routes) # 0
  BY <1>3, EmptySeq
<1> QED
  BY <1>1, <1>2, <1>3, <1>4

\* A run starts on routes that are safe for its context.
LEMMA RunKeeps ==
    ASSUME Inv, NEW w \in Workers, run(w)
    PROVE  Inv'
<1> DEFINE S == {r \in Routes : Eligible(r, context, circuit[r].open, MaxCall)}
<1>1. PICK routes \in select_routes(S) :
          broker' = [broker EXCEPT ![w] =
               IF routes = <<>> THEN [Idle EXCEPT !.pc = "hibernate", !.reason = "no_eligible_route"]
               ELSE [Idle EXCEPT !.pc = "claim", !.routes = routes, !.next = 1]]
  BY DEF run
<1>2. S \in SUBSET Routes /\ \A r \in S : _context_safe_for_route(context, r)
  BY DEF Eligible
<1> HIDE DEF S
<1>3. routes \in Seq(Routes) /\ (\A k \in DOMAIN routes : routes[k] \in S)
      /\ (routes # <<>> => 1 \in DOMAIN routes)
  BY <1>1, <1>2, Selected
<1>4. PICK b : b = IF routes = <<>> THEN [Idle EXCEPT !.pc = "hibernate", !.reason = "no_eligible_route"]
                   ELSE [Idle EXCEPT !.pc = "claim", !.routes = routes, !.next = 1]
  OBVIOUS
<1>5. b \in Process /\ b.attempt = 0 /\ b.status = None
      /\ b.pc \in {"hibernate", "claim"}
      /\ (b.pc = "claim" => routes # <<>> /\ b.routes = routes /\ b.next = 1)
  <2>1. Idle = [pc |-> "idle", routes |-> <<>>, next |-> 0, retry |-> 0, attempt |-> 0,
                status |-> None, error |-> None, reason |-> None]
    BY DEF Idle
  <2>2. CASE routes = <<>>
    <3>1. b = [Idle EXCEPT !.pc = "hibernate", !.reason = "no_eligible_route"]
      BY <1>4, <2>2
    <3>2. b = [pc |-> "hibernate", routes |-> <<>>, next |-> 0, retry |-> 0, attempt |-> 0,
               status |-> None, error |-> None, reason |-> "no_eligible_route"]
      BY <2>1, <3>1
    <3>3. <<>> \in Seq(Routes)
      OBVIOUS
    <3> QED
      BY <3>2, <3>3 DEF Process, PCs, Errors, StopReasons
  <2>3. CASE routes # <<>>
    <3>1. b = [Idle EXCEPT !.pc = "claim", !.routes = routes, !.next = 1]
      BY <1>4, <2>3
    <3>2. b = [pc |-> "claim", routes |-> routes, next |-> 1, retry |-> 0, attempt |-> 0,
               status |-> None, error |-> None, reason |-> None]
      BY <2>1, <3>1
    <3> QED
      BY <1>3, <2>3, <3>2 DEF Process, PCs, Errors, StopReasons
  <2> QED
    BY <2>2, <2>3
<1>6. Types
  BY DEF Inv
<1>7. broker' \in [Workers -> Process] /\ broker'[w] = b
      /\ \A v \in Workers \ {w} : broker'[v] = broker[v]
  BY <1>1, <1>4, <1>5, <1>6, ProcessMoves
<1>8. request' \in Request /\ request'.reserved = request.reserved
      /\ request'.accrued = request.accrued /\ request'.completed = request.completed
      /\ request'.status # None
  <2>1. CASE request.status = None
    <3>1. request' = [request EXCEPT !.status = "ADMITTED"]
      BY <2>1 DEF run
    <3> QED
      BY <1>6, <3>1, InferenceConstants DEF Types, Request, InferenceConstants
  <2>2. CASE request.status # None
    BY <1>6, <2>2 DEF run, Types
  <2> QED
    BY <2>1, <2>2
<1>9. attempts' = attempts /\ context # None /\ UNCHANGED <<context, sent, answers, abandoned>>
      /\ broker[w].pc = "idle"
  BY DEF run, At
<1>10. Types'
  BY <1>6, <1>7, <1>8, <1>9 DEF Types
<1>11. b.status \notin Accepted
  BY <1>5, NoneIsNoStatus
<1>12. b.pc \in Routed => /\ b.next \in DOMAIN b.routes
                          /\ \A k \in DOMAIN b.routes : _context_safe_for_route(context, b.routes[k])
  BY <1>2, <1>3, <1>5 DEF Routed, Holding
<1>13. QuietMove(w)
  BY <1>5, <1>7, <1>8, <1>9, <1>11, <1>12 DEF QuietMove, Holding
<1> QED
  BY <1>10, <1>13, QuietKeeps

\* claim_attempt gives the process an attempt nobody else has.
LEMMA ClaimKeeps ==
    ASSUME Inv, NEW w \in Workers, claim_attempt(w)
    PROVE  Inv'
<1> DEFINE n == Len(attempts) + 1
<1>0. /\ Types /\ Processes /\ Money /\ Contexts /\ Answers
      /\ Known /\ OneAnswer /\ EvidenceStaysCleared
  BY DEF Inv
<1>1. ProcessOK(w) /\ broker[w].pc = "claim" /\ broker[w] \in Process
  BY <1>0 DEF Processes, claim_attempt, At, Types
<1>2. Route(w) \in Routes
  <2>1. broker[w].routes \in Seq(Routes) /\ broker[w].next \in DOMAIN broker[w].routes
    BY <1>1 DEF ProcessOK, Routed, Process
  <2> QED
    BY <2>1, ElementOfSeq DEF Route
<1>3. NewAttempt(Route(w)) \in Attempt
  BY <1>2 DEF NewAttempt, Attempt, Statuses
<1>4. /\ attempts' \in Seq(Attempt) /\ Len(attempts') = n /\ Len(attempts) \in Nat
      /\ DOMAIN attempts' = DOMAIN attempts \cup {n} /\ n \notin DOMAIN attempts
      /\ attempts'[n] = NewAttempt(Route(w))
      /\ \A x \in DOMAIN attempts : attempts'[x] = attempts[x]
  <2>1. attempts' = Append(attempts, NewAttempt(Route(w))) /\ attempts \in Seq(Attempt)
    BY <1>0 DEF claim_attempt, Types
  <2> HIDE DEF Attempt
  <2> QED
    BY <1>3, <2>1
<1>5. PICK b : b = [broker[w] EXCEPT !.pc = "reserve", !.attempt = n]
  OBVIOUS
<1>6. broker' = [broker EXCEPT ![w] = b]
  BY <1>4, <1>5 DEF claim_attempt
<1>7. b \in Process /\ b.pc = "reserve" /\ b.attempt = n /\ b.routes = broker[w].routes
      /\ b.next = broker[w].next /\ b.status = broker[w].status
  <2>1. n \in Nat
    BY <1>4
  <2> HIDE DEF n
  <2> QED
    BY <1>1, <1>5, <2>1 DEF Process, PCs
<1>8. broker' \in [Workers -> Process] /\ broker'[w] = b
      /\ \A v \in Workers \ {w} : broker'[v] = broker[v]
  BY <1>0, <1>6, <1>7, ProcessMoves
<1>9. request' \in Request /\ request'.reserved = request.reserved
      /\ request'.accrued = request.accrued /\ request'.completed = request.completed
      /\ request'.status # None
  BY <1>0, InferenceConstants DEF Types, Request, claim_attempt, InferenceConstants
<1>10. Types'
  BY <1>4, <1>8, <1>9 DEF Types
<1>11. Money'
  <2>1. attempts' = Append(attempts, NewAttempt(Route(w)))
    BY DEF claim_attempt
  <2> QED
    BY <1>0, <1>2, <1>9, <1>10, <2>1, MoneyClaim
<1>12. UNCHANGED <<context, sent, answers, abandoned>>
  BY DEF claim_attempt
<1>13. attempts'[n].status = "CREATED" /\ attempts'[n].route = Route(w) /\ attempts'[n].cost = 0
  BY <1>4 DEF NewAttempt
<1>14. \A v \in Workers : ProcessOK(v) /\ broker[v].attempt \in 0..Len(attempts)
  BY <1>0 DEF Processes, ProcessOK
<1>15. ProcessOK(w)'
  <2>1. broker'[w].attempt \in 0..Len(attempts') /\ n # 0
    BY <1>4, <1>7, <1>8
  <2>2. \A v \in Workers \ {w} : broker'[v].attempt # broker'[w].attempt
    BY <1>4, <1>7, <1>8, <1>14
  <2>3. broker'[w].next \in DOMAIN broker'[w].routes
    BY <1>1, <1>7, <1>8 DEF ProcessOK, Routed
  <2>4. broker'[w].status \notin Accepted
    BY <1>1, <1>7, <1>8 DEF ProcessOK
  <2>5. Mine(w)' = attempts'[n] /\ Route(w)' = Route(w)
    BY <1>7, <1>8 DEF Mine, Route
  <2> HIDE DEF n
  <2> QED
    BY <1>7, <1>8, <1>13, <2>1, <2>2, <2>3, <2>4, <2>5 DEF ProcessOK
<1>16. ASSUME NEW v \in Workers, v # w PROVE ProcessOK(v)'
  <2>1. Len(attempts) <= Len(attempts')
    BY <1>4
  <2>2. broker[v].pc \in Holding => attempts'[broker[v].attempt] = attempts[broker[v].attempt]
    BY <1>0, <1>4, <1>14, Rows DEF ProcessOK
  <2>3. \A u \in Workers \ {v} : broker'[u].attempt \in {0, broker[u].attempt}
                                 \/ broker'[u].attempt > Len(attempts)
    BY <1>4, <1>7, <1>8
  <2>4. broker'[v] = broker[v]
    BY <1>8, <1>16
  <2> QED
    BY <1>0, <1>9, <1>10, <2>1, <2>2, <2>3, <2>4, OthersStay
<1>17. Processes'
  BY <1>15, <1>16 DEF Processes
<1>18. Contexts'
  <2>1. broker[w].pc \in Routed
    BY <1>1 DEF Routed
  <2> QED
    BY <1>0, <1>7, <1>8, <1>9, <1>12, <2>1 DEF Contexts
<1>19. Answers'
  BY <1>0, <1>4, <1>9, <1>12 DEF Answers
<1>20. OneAnswer'
  <2>1. "CREATED" \notin Accepted
    BY DEF Accepted
  <2> QED
    BY <1>0, <1>4, <1>9, <1>12, <1>13, <2>1 DEF OneAnswer
<1>21. Known'
  <2>1. \A x : x \in Active' <=> x \in Active \/ x = n
    BY <1>4, <1>13 DEF Active
  <2>2. n \notin Active
    BY <1>4 DEF Active
  <2>3. broker[w].pc \notin Holding
    BY <1>1 DEF Holding
  <2>4. broker'[w].pc \in Holding /\ broker'[w].attempt = n
    BY <1>7, <1>8 DEF Holding
  <2>5. \A x : Held(x)' <=> Held(x) \/ x = n
    BY <1>8, <2>3, <2>4 DEF Held
  <2>6. \A x : Left(x)' <=> Left(x)
    BY <1>12 DEF Left
  <2>7. ASSUME NEW y \in abandoned', y.cause = "cancelled"
        PROVE  attempts'[y.attempt].cost = Reservation(attempts'[y.attempt].route)
    <3>1. y \in abandoned /\ Left(y.attempt)
      BY <1>12 DEF Left
    <3>2. y.attempt \in Active
      BY <1>0, <3>1 DEF Known
    <3>3. attempts'[y.attempt] = attempts[y.attempt]
      BY <1>4, <3>2 DEF Active
    <3> QED
      BY <1>0, <2>7, <3>1, <3>3 DEF Known
  <2>8. /\ \A x : x \in Active' <=> Held(x)' \/ Left(x)'
        /\ \A x : ~(Held(x)' /\ Left(x)')
    BY <1>0, <2>1, <2>2, <2>5, <2>6 DEF Known
  <2> QED
    BY <2>7, <2>8 DEF Known
<1>22. EvidenceStaysCleared'
  BY <1>0, <1>12 DEF EvidenceStaysCleared
<1> QED
  BY <1>10, <1>11, <1>17, <1>18, <1>19, <1>20, <1>21, <1>22 DEF Inv

\* The route of a process that has routes is a configured one.
LEMMA RouteConfigured ==
    ASSUME Inv, NEW w \in Workers, broker[w].pc \in Routed
    PROVE  /\ Route(w) \in Routes /\ broker[w].next \in DOMAIN broker[w].routes
           /\ context # None /\ _context_safe_for_route(context, Route(w))
<1>1. ProcessOK(w) /\ broker[w] \in Process /\ Contexts
  BY DEF Inv, Types, Processes
<1>2. broker[w].routes \in Seq(Routes) /\ broker[w].next \in DOMAIN broker[w].routes
  BY <1>1 DEF ProcessOK, Process
<1> QED
  BY <1>1, <1>2, ElementOfSeq DEF Route, Contexts

\* Where a step of run leaves a process.
LEMMA Redirected ==
    ASSUME Types, NEW w \in Workers, NEW pc \in PCs
    PROVE  /\ Goto(w, pc) =>
                  /\ broker' \in [Workers -> Process]
                  /\ \A v \in Workers \ {w} : broker'[v] = broker[v]
                  /\ broker'[w].pc = pc
                  /\ broker'[w].attempt = broker[w].attempt
                  /\ broker'[w].routes = broker[w].routes /\ broker'[w].next = broker[w].next
                  /\ broker'[w].status = broker[w].status
           /\ \A reason \in StopReasons : Stop(w, reason) =>
                  /\ broker' \in [Workers -> Process]
                  /\ \A v \in Workers \ {w} : broker'[v] = broker[v]
                  /\ broker'[w].pc = "hibernate"
                  /\ broker'[w].attempt = broker[w].attempt
                  /\ broker'[w].routes = broker[w].routes /\ broker'[w].next = broker[w].next
                  /\ broker'[w].status = broker[w].status
           /\ broker' = [broker EXCEPT ![w] = Idle] =>
                  /\ broker' \in [Workers -> Process]
                  /\ \A v \in Workers \ {w} : broker'[v] = broker[v]
                  /\ broker'[w].pc = "idle" /\ broker'[w].attempt = 0 /\ broker'[w].status = None
<1>1. broker[w] \in Process
  BY DEF Types
<1>2. ASSUME Goto(w, pc)
      PROVE  /\ broker' \in [Workers -> Process]
             /\ \A v \in Workers \ {w} : broker'[v] = broker[v]
             /\ broker'[w].pc = pc
             /\ broker'[w].attempt = broker[w].attempt
             /\ broker'[w].routes = broker[w].routes /\ broker'[w].next = broker[w].next
             /\ broker'[w].status = broker[w].status
  <2>1. PICK b : b = [broker[w] EXCEPT !.pc = pc]
    OBVIOUS
  <2>2. broker' = [broker EXCEPT ![w] = b]
    BY <1>2, <2>1 DEF Goto
  <2>3. b \in Process /\ b.pc = pc /\ b.attempt = broker[w].attempt
        /\ b.routes = broker[w].routes /\ b.next = broker[w].next /\ b.status = broker[w].status
    BY <1>1, <2>1 DEF Process
  <2> QED
    BY <2>2, <2>3, ProcessMoves
<1>3. ASSUME NEW reason \in StopReasons, Stop(w, reason)
      PROVE  /\ broker' \in [Workers -> Process]
             /\ \A v \in Workers \ {w} : broker'[v] = broker[v]
             /\ broker'[w].pc = "hibernate"
             /\ broker'[w].attempt = broker[w].attempt
             /\ broker'[w].routes = broker[w].routes /\ broker'[w].next = broker[w].next
             /\ broker'[w].status = broker[w].status
  <2>1. PICK b : b = [broker[w] EXCEPT !.pc = "hibernate", !.reason = reason]
    OBVIOUS
  <2>2. broker' = [broker EXCEPT ![w] = b]
    BY <1>3, <2>1 DEF Stop
  <2>3. b \in Process /\ b.pc = "hibernate" /\ b.attempt = broker[w].attempt
        /\ b.routes = broker[w].routes /\ b.next = broker[w].next /\ b.status = broker[w].status
    BY <1>1, <2>1 DEF Process, PCs
  <2> QED
    BY <2>2, <2>3, ProcessMoves
<1>4. ASSUME broker' = [broker EXCEPT ![w] = Idle]
      PROVE  /\ broker' \in [Workers -> Process]
             /\ \A v \in Workers \ {w} : broker'[v] = broker[v]
             /\ broker'[w].pc = "idle" /\ broker'[w].attempt = 0 /\ broker'[w].status = None
  BY <1>4, IdleIsProcess, ProcessMoves
<1> QED
  BY <1>2, <1>3, <1>4

\* reserve_cost books the reservation and sends what the context shows, to a
\* route that is safe for it.
LEMMA ReserveKeeps ==
    ASSUME Inv, NEW w \in Workers, reserve_cost(w)
    PROVE  Inv'
<1> DEFINE a == broker[w].attempt
           r == Reservation(Route(w))
<1>0. /\ Types /\ Processes /\ Money /\ Contexts /\ Answers
      /\ Known /\ OneAnswer /\ EvidenceStaysCleared
  BY DEF Inv
<1>1. ProcessOK(w) /\ broker[w].pc = "reserve" /\ broker[w] \in Process
  BY <1>0 DEF Processes, reserve_cost, At, Types
<1>2. broker[w].pc \in Routed /\ broker[w].pc \in Holding
  BY <1>1 DEF Routed, Holding
<1>3. Route(w) \in Routes /\ context # None /\ _context_safe_for_route(context, Route(w))
  BY <1>2, RouteConfigured
<1>4. r \in Nat
  BY <1>3, ChargesNat
<1>5. a \in DOMAIN attempts /\ attempts[a].status = "CREATED" /\ attempts[a].cost = 0
      /\ attempts[a].route = Route(w) /\ attempts[a] \in Attempt
  BY <1>0, <1>1, <1>2, Rows DEF ProcessOK, Mine
<1>6. PICK row : row = [attempts[a] EXCEPT !.cost = r, !.held = r]
  OBVIOUS
<1>7. attempts' = [attempts EXCEPT ![a] = row]
  BY <1>6 DEF reserve_cost
<1>8. row \in Attempt /\ row.cost = r /\ row.held = r /\ row.status = "CREATED"
      /\ row.route = Route(w)
  <2> HIDE DEF r, a
  <2> QED
    BY <1>4, <1>5, <1>6 DEF Attempt
<1>9. /\ attempts' \in Seq(Attempt) /\ Len(attempts') = Len(attempts)
      /\ DOMAIN attempts' = DOMAIN attempts
      /\ attempts'[a] = row
      /\ \A x \in DOMAIN attempts : x # a => attempts'[x] = attempts[x]
  BY <1>0, <1>5, <1>7, <1>8, RowChanges
<1>10. Goto(w, "call") /\ "call" \in PCs
  BY DEF reserve_cost, PCs
<1>11. /\ broker' \in [Workers -> Process]
       /\ \A v \in Workers \ {w} : broker'[v] = broker[v]
       /\ broker'[w].pc = "call"
       /\ broker'[w].attempt = broker[w].attempt
       /\ broker'[w].routes = broker[w].routes /\ broker'[w].next = broker[w].next
       /\ broker'[w].status = broker[w].status
  BY <1>0, <1>10, Redirected
<1>12. request' \in Request /\ request'.accrued = request.accrued
       /\ request'.reserved = request.reserved - attempts[a].cost + r
       /\ request'.completed = request.completed /\ request'.status = request.status
  <2>1. PICK z : z = request.reserved - attempts[a].cost + r
    OBVIOUS
  <2>2. request' = [request EXCEPT !.reserved = z]
    BY <2>1 DEF reserve_cost, ReservedWith, Mine
  <2>3. request \in Request
    BY <1>0 DEF Types
  <2>4. request.reserved \in Int
    BY <2>3 DEF Request
  <2>5. z \in Int
    BY <1>4, <1>5, <2>1, <2>4
  <2>6. request' \in Request /\ request'.accrued = request.accrued /\ request'.reserved = z
        /\ request'.completed = request.completed /\ request'.status = request.status
    BY <2>2, <2>3, <2>5 DEF Request
  <2> QED
    BY <2>1, <2>6
<1>13. Types'
  BY <1>9, <1>11, <1>12 DEF Types
<1>14. Money'
  <2>1. request'.accrued + request'.reserved <= MaxTotal
    BY <1>12 DEF reserve_cost, Affordable, ReservedWith, Mine
  <2> HIDE DEF a, r
  <2> QED
    BY <1>0, <1>4, <1>5, <1>8, <1>9, <1>12, <1>13, <2>1, MoneyReserve
<1>15. UNCHANGED <<context, answers, abandoned>>
       /\ sent' = sent \cup {[route |-> Route(w), prompt |-> context.prompt, memory |-> context.memory]}
  BY DEF reserve_cost
<1>16. ProcessOK(w)'
  <2>1. Mine(w)' = row /\ Route(w)' = Route(w)
    BY <1>9, <1>11 DEF Mine, Route
  <2>2. broker'[w].status \notin Accepted
    BY <1>1, <1>11 DEF ProcessOK
  <2>3. broker'[w].attempt \in 0..Len(attempts') /\ broker'[w].attempt # 0
        /\ broker'[w].next \in DOMAIN broker'[w].routes
    BY <1>1, <1>2, <1>9, <1>11 DEF ProcessOK
  <2>4. \A v \in Workers \ {w} : broker'[v].attempt # broker'[w].attempt
    BY <1>1, <1>2, <1>11 DEF ProcessOK
  <2> QED
    BY <1>8, <1>11, <2>1, <2>2, <2>3, <2>4 DEF ProcessOK
<1>17. ASSUME NEW v \in Workers, v # w PROVE ProcessOK(v)'
  <2>1. ProcessOK(v) /\ Len(attempts) \in Nat
    BY <1>0 DEF Processes, Types
  <2>2. Len(attempts) <= Len(attempts')
    BY <1>9, <2>1
  <2>3. broker[v].pc \in Holding => broker[v].attempt \in DOMAIN attempts /\ broker[v].attempt # a
    BY <1>0, <1>17, <2>1, Rows DEF ProcessOK
  <2>4. broker[v].pc \in Holding => attempts'[broker[v].attempt] = attempts[broker[v].attempt]
    BY <1>9, <2>3
  <2>5. \A u \in Workers \ {v} : broker'[u].attempt \in {0, broker[u].attempt}
    BY <1>11
  <2>6. broker'[v] = broker[v]
    BY <1>11, <1>17
  <2> HIDE DEF a, r
  <2> QED
    BY <1>0, <1>12, <1>13, <2>2, <2>4, <2>5, <2>6, OthersStay
<1>18. Processes'
  BY <1>16, <1>17 DEF Processes
<1>19. Contexts'
  <2>1. context' = context
    BY <1>15
  <2>2. \A v \in Workers : broker'[v].pc # "idle" => broker[v].pc # "idle"
    BY <1>1, <1>11
  <2>3. \A v \in Workers : broker'[v].pc \in Routed => broker[v].pc \in Routed
                                                     /\ broker'[v].routes = broker[v].routes
    BY <1>2, <1>11
  <2> QED
    BY <1>0, <1>12, <2>1, <2>2, <2>3 DEF Contexts
<1>20. Answers' /\ OneAnswer'
  <2>1. \A x \in DOMAIN attempts : attempts'[x].status = attempts[x].status
    BY <1>5, <1>8, <1>9
  <2> QED
    BY <1>0, <1>9, <1>12, <1>15, <2>1 DEF Answers, OneAnswer
<1>21. Known'
  <2>1. \A x : x \in Active' <=> x \in Active
    BY <1>5, <1>8, <1>9 DEF Active
  <2>2. \A x : Held(x)' <=> Held(x)
    BY <1>1, <1>11 DEF Held, Holding
  <2>3. \A x : Left(x)' <=> Left(x)
    BY <1>15 DEF Left
  <2>4. Held(a)
    BY <1>2 DEF Held
  <2>5. ASSUME NEW y \in abandoned', y.cause = "cancelled"
        PROVE  attempts'[y.attempt].cost = Reservation(attempts'[y.attempt].route)
    <3>1. y \in abandoned /\ Left(y.attempt)
      BY <1>15 DEF Left
    <3>2. y.attempt \in Active /\ y.attempt # a
      BY <1>0, <2>4, <3>1 DEF Known
    <3>3. attempts'[y.attempt] = attempts[y.attempt]
      BY <1>9, <3>2 DEF Active
    <3> QED
      BY <1>0, <2>5, <3>1, <3>3 DEF Known
  <2>6. /\ \A x : x \in Active' <=> Held(x)' \/ Left(x)'
        /\ \A x : ~(Held(x)' /\ Left(x)')
    BY <1>0, <2>1, <2>2, <2>3 DEF Known
  <2> QED
    BY <2>5, <2>6 DEF Known
<1>22. EvidenceStaysCleared'
  <2> DEFINE call == [route |-> Route(w), prompt |-> context.prompt, memory |-> context.memory]
  <2>1. call.route = Route(w) /\ call.prompt = context.prompt
    OBVIOUS
  <2>2. ASSUME NEW item \in context.prompt
        PROVE  /\ item.rank # SECRET /\ item.licensed
               /\ item.rank <= Route(w).clearance
               /\ item.rank >= CONFIDENTIAL => /\ Route(w).retentionKnown
                                               /\ Route(w).trains = "no"
    <3>1. ContextOK(context)
      BY <1>0, <1>3 DEF Contexts
    <3>2. /\ context.rank \in PUBLIC..SEALED /\ item.rank \in PUBLIC..SEALED
          /\ item.rank <= context.rank /\ item.rank # SECRET /\ item.licensed
      BY <3>1 DEF ContextOK
    <3>3. Route(w).clearance \in PUBLIC..SEALED
      BY <1>3, InferenceConstants DEF InferenceConstants, ConfiguredRoute
    <3>4. item.rank <= Route(w).clearance
      BY <1>3, <3>2, <3>3 DEF _context_safe_for_route, PUBLIC, SEALED
    <3>5. item.rank >= CONFIDENTIAL => Route(w).retentionKnown /\ Route(w).trains = "no"
      <4>1. item.rank >= CONFIDENTIAL => context.rank >= CONFIDENTIAL
        BY <3>2 DEF PUBLIC, SEALED, CONFIDENTIAL
      <4> QED
        BY <1>3, <4>1 DEF _context_safe_for_route
    <3> QED
      BY <3>2, <3>4, <3>5
  <2> HIDE DEF call
  <2>3. sent' = sent \cup {call}
    BY <1>15 DEF call
  <2> QED
    BY <1>0, <2>1, <2>2, <2>3 DEF EvidenceStaysCleared
<1> QED
  BY <1>13, <1>14, <1>18, <1>19, <1>20, <1>21, <1>22 DEF Inv

\* A call that ends: refused by the budget, answered or failed.
LEMMA EndsKeep ==
    ASSUME Inv, NEW w \in Workers,
           \/ BudgetDenied(w)
           \/ \E s \in Verdicts, u \in Usages : Answered(w, s, u)
           \/ \E s \in Failures : CallFailed(w, s)
    PROVE  Inv'
<1>1. Types /\ ProcessOK(w) /\ broker[w] \in Process
  BY DEF Inv, Processes, Types
<1>2. CASE BudgetDenied(w)
  <2>1. broker[w].pc = "reserve" /\ finish_attempt(broker[w].attempt, "HIBERNATED", 0)
        /\ UNCHANGED <<context, sent, answers, abandoned>>
    BY <1>2 DEF BudgetDenied, At
  <2>2. PICK b : b = [broker[w] EXCEPT !.pc = "note", !.error = "budget_denied"]
    OBVIOUS
  <2>3. broker' = [broker EXCEPT ![w] = b]
    BY <1>2, <2>2 DEF BudgetDenied
  <2>4. b \in Process /\ b.pc = "note" /\ b.attempt = broker[w].attempt
        /\ b.routes = broker[w].routes /\ b.next = broker[w].next /\ b.status = broker[w].status
    BY <1>1, <2>2 DEF Process, PCs, Errors
  <2>5. broker' \in [Workers -> Process] /\ broker'[w] = b
        /\ \A v \in Workers \ {w} : broker'[v] = broker[v]
    BY <1>1, <2>3, <2>4, ProcessMoves
  <2>6. b.status \notin Accepted
    BY <1>1, <2>1, <2>4 DEF ProcessOK
  <2>7. FinishMove(w, "HIBERNATED", 0)
    BY <2>1, <2>4, <2>5, <2>6 DEF FinishMove, Holding
  <2> QED
    BY <2>5, <2>7, FinishKeeps
<1>3. ASSUME NEW s \in Verdicts, NEW charge \in Nat, NEW error \in Errors,
             broker[w].pc = "call", finish_attempt(broker[w].attempt, s, charge),
             AfterFinish(w, s, error), UNCHANGED <<context, sent, answers, abandoned>>
      PROVE  Inv'
  <2> DEFINE late == Stale(broker[w].attempt, s)
  <2>1. PICK b : b = IF late
                     THEN [broker[w] EXCEPT !.pc = "hibernate", !.reason = "late_result_deduplicated"]
                     ELSE [broker[w] EXCEPT !.pc = "outcome", !.status = s, !.error = error]
    OBVIOUS
  <2>2. broker' = [broker EXCEPT ![w] = b]
    BY <1>3, <2>1 DEF AfterFinish
  <2>3. s \in Statuses
    BY DEF Verdicts, Statuses, Failures, Accepted
  <2>4. broker[w].status \notin Accepted
    BY <1>1, <1>3 DEF ProcessOK
  <2> HIDE DEF late
  <2>5. b \in Process /\ b.pc \in {"outcome", "hibernate"} /\ b.attempt = broker[w].attempt
        /\ b.routes = broker[w].routes /\ b.next = broker[w].next
        /\ (b.status \in Accepted => ~late /\ s \in Accepted)
    <3>1. CASE late
      <4>1. b = [broker[w] EXCEPT !.pc = "hibernate", !.reason = "late_result_deduplicated"]
        BY <2>1, <3>1
      <4>2. b \in Process /\ b.pc = "hibernate" /\ b.attempt = broker[w].attempt
            /\ b.routes = broker[w].routes /\ b.next = broker[w].next
            /\ b.status = broker[w].status
        BY <1>1, <4>1 DEF Process, PCs, StopReasons
      <4> QED
        BY <2>4, <4>2
    <3>2. CASE ~late
      <4>1. b = [broker[w] EXCEPT !.pc = "outcome", !.status = s, !.error = error]
        BY <2>1, <3>2
      <4>2. b \in Process /\ b.pc = "outcome" /\ b.attempt = broker[w].attempt
            /\ b.routes = broker[w].routes /\ b.next = broker[w].next /\ b.status = s
        BY <1>1, <2>3, <4>1 DEF Process, PCs
      <4> QED
        BY <3>2, <4>2
    <3> QED
      BY <3>1, <3>2
  <2>6. broker' \in [Workers -> Process] /\ broker'[w] = b
        /\ \A v \in Workers \ {w} : broker'[v] = broker[v]
    BY <1>1, <2>2, <2>5, ProcessMoves
  <2>7. FinishMove(w, s, charge)
    BY <1>3, <2>5, <2>6 DEF FinishMove, Holding, late
  <2> QED
    BY <2>6, <2>7, FinishKeeps
<1>4. broker[w].pc = "call" => Route(w) \in Routes
  BY RouteConfigured DEF Routed, Holding
<1>5. ASSUME NEW s \in Verdicts, NEW u \in Usages, Answered(w, s, u) PROVE Inv'
  <2>1. broker[w].pc = "call" /\ finish_attempt(broker[w].attempt, s, _response_cost(Route(w), u, s))
        /\ AfterFinish(w, s, None) /\ UNCHANGED <<context, sent, answers, abandoned>>
    BY <1>5 DEF Answered, At
  <2>2. u \in Nat \cup {Unknown}
    BY InferenceConstants DEF InferenceConstants
  <2>3. _response_cost(Route(w), u, s) \in Nat
    BY <1>4, <2>1, <2>2, ChargesNat
  <2>4. None \in Errors
    BY DEF Errors
  <2> QED
    BY <1>3, <2>1, <2>3, <2>4
<1>6. ASSUME NEW s \in Failures, CallFailed(w, s) PROVE Inv'
  <2>1. broker[w].pc = "call" /\ finish_attempt(broker[w].attempt, s, FailureCost(Route(w), s))
        /\ AfterFinish(w, s, s) /\ UNCHANGED <<context, sent, answers, abandoned>>
    BY <1>6 DEF CallFailed, At
  <2>2. FailureCost(Route(w), s) \in Nat
    BY <1>4, <2>1, ChargesNat
  <2>3. s \in Errors /\ s \in Verdicts
    BY DEF Errors, Verdicts
  <2> QED
    BY <1>3, <2>1, <2>2, <2>3
<1> QED
  BY <1>2, <1>5, <1>6

\* Steps of run that touch no attempt.
LEMMA OtherStepsKeep ==
    ASSUME Inv, NEW w \in Workers,
           \/ ClaimRefused(w) \/ record_route_outcome(w) \/ append_event(w)
           \/ hibernate(w) \/ Raise(w) \/ Leave(w)
           \/ Crash(w) \/ Cancelled(w) \/ BackendFails(w)
    PROVE  Inv'
<1>1. Types /\ ProcessOK(w) /\ broker[w] \in Process /\ Contexts
  BY DEF Inv, Processes, Types
<1>2. None \notin Accepted
  BY NoneIsNoStatus
<1>3. broker[w].pc # "idle" => request.status # None
  BY <1>1 DEF Contexts
<1>4. broker[w].pc \in Routed => /\ broker[w].next \in DOMAIN broker[w].routes
                                 /\ context # None
                                 /\ \A k \in DOMAIN broker[w].routes :
                                        _context_safe_for_route(context, broker[w].routes[k])
  BY <1>1 DEF Contexts, ProcessOK
<1>5. broker[w].status \in Accepted => broker[w].pc \in {"outcome", "note", "hibernate", "failed"}
  BY <1>1 DEF ProcessOK
<1>6. CASE ClaimRefused(w)
  <2>1. /\ broker[w].pc = "claim" /\ Stop(w, "lease_superseded")
        /\ UNCHANGED <<context, request, attempts, sent, answers, abandoned>>
    BY <1>6 DEF ClaimRefused, At, db
  <2>2. "lease_superseded" \in StopReasons /\ "hibernate" \in PCs
    BY DEF StopReasons, PCs
  <2>3. /\ broker' \in [Workers -> Process]
        /\ \A v \in Workers \ {w} : broker'[v] = broker[v]
        /\ broker'[w].pc = "hibernate"
        /\ broker'[w].attempt = broker[w].attempt /\ broker'[w].status = broker[w].status
    BY <1>1, <2>1, <2>2, Redirected
  <2>4. Types'
    BY <1>1, <2>1, <2>3 DEF Types
  <2>5. QuietMove(w)
    BY <1>3, <2>1, <2>3 DEF QuietMove, Holding, Routed
  <2> QED
    BY <2>4, <2>5, QuietKeeps
<1>7. CASE record_route_outcome(w)
  <2>1. /\ broker[w].pc = "outcome" /\ Goto(w, "note")
        /\ UNCHANGED <<context, request, attempts, sent, answers, abandoned>>
    BY <1>7 DEF record_route_outcome, At
  <2>2. "note" \in PCs
    BY DEF PCs
  <2>3. /\ broker' \in [Workers -> Process]
        /\ \A v \in Workers \ {w} : broker'[v] = broker[v]
        /\ broker'[w].pc = "note"
        /\ broker'[w].attempt = broker[w].attempt
        /\ broker'[w].routes = broker[w].routes /\ broker'[w].next = broker[w].next
        /\ broker'[w].status = broker[w].status
    BY <1>1, <2>1, <2>2, Redirected
  <2>4. Types'
    BY <1>1, <2>1, <2>3 DEF Types
  <2>5. broker[w].pc \in Routed
    BY <2>1 DEF Routed
  <2>6. QuietMove(w)
    BY <1>3, <1>4, <2>1, <2>3, <2>5 DEF QuietMove, Holding
  <2> QED
    BY <2>4, <2>6, QuietKeeps
<1>8. CASE append_event(w)
  <2>1. /\ broker[w].pc = "note" /\ Continue(w)
        /\ UNCHANGED <<context, request, attempts, sent, abandoned>>
    BY <1>8 DEF append_event, At
  <2>2. \/ answers' = answers
        \/ broker[w].status \in Accepted /\ answers' = answers \cup {broker[w].attempt}
    BY <1>8 DEF append_event
  <2>3. broker[w].pc \in Routed
    BY <2>1 DEF Routed
  <2>4. CASE \E reason \in StopReasons : Stop(w, reason)
    <3>1. "hibernate" \in PCs
      BY DEF PCs
    <3>2. /\ broker' \in [Workers -> Process]
          /\ \A v \in Workers \ {w} : broker'[v] = broker[v]
          /\ broker'[w].pc = "hibernate"
          /\ broker'[w].attempt = broker[w].attempt /\ broker'[w].status = broker[w].status
      BY <1>1, <2>4, <3>1, Redirected
    <3>3. Types'
      BY <1>1, <2>1, <3>2 DEF Types
    <3>4. QuietMove(w)
      BY <1>3, <2>1, <2>2, <3>2 DEF QuietMove, Holding, Routed
    <3> QED
      BY <3>3, <3>4, QuietKeeps
  <2>5. CASE broker' = [broker EXCEPT ![w] = Idle]
    <3>1. "idle" \in PCs
      BY DEF PCs
    <3>2. /\ broker' \in [Workers -> Process]
          /\ \A v \in Workers \ {w} : broker'[v] = broker[v]
          /\ broker'[w].pc = "idle" /\ broker'[w].attempt = 0 /\ broker'[w].status = None
      BY <1>1, <2>5, <3>1, Redirected
    <3>3. Types'
      BY <1>1, <2>1, <3>2 DEF Types
    <3>4. QuietMove(w)
      BY <1>2, <1>3, <2>1, <2>2, <3>2 DEF QuietMove, Holding, Routed
    <3> QED
      BY <3>3, <3>4, QuietKeeps
  <2>6. ASSUME NEW retry \in Nat, NEW next \in DOMAIN broker[w].routes,
               broker[w].status \notin Accepted,
               broker' = [broker EXCEPT ![w].pc = "claim", ![w].retry = retry, ![w].next = next]
        PROVE  Inv'
    <3>1. PICK b : b = [broker[w] EXCEPT !.pc = "claim", !.retry = retry, !.next = next]
      OBVIOUS
    <3>2. broker' = [broker EXCEPT ![w] = b]
      BY <2>6, <3>1
    <3>3. next \in Nat
      <4>1. broker[w].routes \in Seq(Routes)
        BY <1>1 DEF Process
      <4> QED
        BY <4>1
    <3>4. b \in Process /\ b.pc = "claim" /\ b.attempt = broker[w].attempt
          /\ b.routes = broker[w].routes /\ b.next = next /\ b.status = broker[w].status
      BY <1>1, <3>1, <3>3 DEF Process, PCs
    <3>5. broker' \in [Workers -> Process] /\ broker'[w] = b
          /\ \A v \in Workers \ {w} : broker'[v] = broker[v]
      BY <1>1, <3>2, <3>4, ProcessMoves
    <3>6. Types'
      BY <1>1, <2>1, <3>5 DEF Types
    <3>7. QuietMove(w)
      BY <1>3, <1>4, <2>1, <2>2, <2>3, <2>6, <3>4, <3>5 DEF QuietMove, Holding
    <3> QED
      BY <3>6, <3>7, QuietKeeps
  <2>7. CASE /\ broker[w].status \notin Accepted
             /\ broker' = [broker EXCEPT ![w].pc = "claim", ![w].retry = @ + 1]
    <3>1. broker[w].retry + 1 \in Nat /\ broker[w].next \in DOMAIN broker[w].routes
      BY <1>1, <1>4, <2>3 DEF Process
    <3>2. broker' = [broker EXCEPT ![w].pc = "claim", ![w].retry = broker[w].retry + 1,
                                   ![w].next = broker[w].next]
      BY <1>1, <2>7 DEF Types, Process
    <3> QED
      BY <2>6, <2>7, <3>1, <3>2
  <2>8. CASE /\ broker[w].status \notin Accepted /\ NextRoute(w) # {}
             /\ broker' = [broker EXCEPT ![w].pc = "claim", ![w].retry = 0,
                                         ![w].next = Min(NextRoute(w))]
    <3>1. broker[w].routes \in Seq(Routes) /\ broker[w].next \in Nat
      BY <1>1 DEF Process
    <3>2. NextRoute(w) \subseteq DOMAIN broker[w].routes /\ NextRoute(w) \subseteq Nat
      BY <3>1 DEF NextRoute
    <3>3. Min(NextRoute(w)) \in DOMAIN broker[w].routes
      BY <2>8, <3>2, MinOfPositions
    <3> QED
      BY <2>6, <2>8, <3>3
  <2>9. {"budget_exhausted", "all_independent_routes_failed"} \subseteq StopReasons
    BY DEF StopReasons
  <2> QED
    BY <2>1, <2>4, <2>5, <2>7, <2>8, <2>9 DEF Continue
<1>9. CASE hibernate(w) \/ Leave(w)
  <2>1. /\ broker[w].pc \in {"hibernate", "failed"} /\ broker' = [broker EXCEPT ![w] = Idle]
        /\ UNCHANGED <<context, attempts, sent, answers, abandoned>>
    BY <1>9 DEF hibernate, Leave, At, db
  <2>2. request' \in Request /\ request'.reserved = request.reserved
        /\ request'.accrued = request.accrued /\ request'.completed = request.completed
        /\ request'.status # None
    <3>1. request' = request \/ request' = [request EXCEPT !.status = "HIBERNATED"]
      BY <1>9 DEF hibernate, Leave, db
    <3>2. request.status # None
      BY <1>3, <2>1
    <3>3. None # "HIBERNATED" /\ "HIBERNATED" \in Statuses
      BY NoneIsNoStatus DEF Statuses
    <3> QED
      BY <1>1, <3>1, <3>2, <3>3 DEF Types, Request
  <2>3. "idle" \in PCs
    BY DEF PCs
  <2>4. /\ broker' \in [Workers -> Process]
        /\ \A v \in Workers \ {w} : broker'[v] = broker[v]
        /\ broker'[w].pc = "idle" /\ broker'[w].attempt = 0 /\ broker'[w].status = None
    BY <1>1, <2>1, <2>3, Redirected
  <2>5. Types'
    BY <1>1, <2>1, <2>2, <2>4 DEF Types
  <2>6. QuietMove(w)
    BY <1>2, <2>1, <2>2, <2>4 DEF QuietMove, Holding, Routed
  <2> QED
    BY <2>5, <2>6, QuietKeeps
<1>10. CASE Raise(w)
  <2>1. /\ broker[w].pc \in {"note", "hibernate"} /\ Goto(w, "failed")
        /\ UNCHANGED <<context, request, attempts, sent, answers, abandoned>>
    BY <1>10 DEF Raise, At, db
  <2>2. "failed" \in PCs
    BY DEF PCs
  <2>3. /\ broker' \in [Workers -> Process]
        /\ \A v \in Workers \ {w} : broker'[v] = broker[v]
        /\ broker'[w].pc = "failed"
        /\ broker'[w].attempt = broker[w].attempt /\ broker'[w].status = broker[w].status
    BY <1>1, <2>1, <2>2, Redirected
  <2>4. Types'
    BY <1>1, <2>1, <2>3 DEF Types
  <2>5. QuietMove(w)
    BY <1>3, <2>1, <2>3 DEF QuietMove, Holding, Routed
  <2> QED
    BY <2>4, <2>5, QuietKeeps
<1>11. CASE Crash(w) \/ Cancelled(w) \/ BackendFails(w)
  <2>1. PICK cause :
        /\ broker[w].pc # "idle" /\ (cause = "cancelled" => broker[w].pc # "reserve")
        /\ broker' = [broker EXCEPT ![w] = Idle]
        /\ abandoned' = IF broker[w].pc \in Holding
                        THEN abandoned \cup {[attempt |-> broker[w].attempt, cause |-> cause]}
                        ELSE abandoned
        /\ UNCHANGED <<context, request, attempts, sent, answers>>
    <3>1. ASSUME NEW cause, Abandon(w, cause)
          PROVE  /\ broker' = [broker EXCEPT ![w] = Idle]
                 /\ abandoned' = IF broker[w].pc \in Holding
                                 THEN abandoned \cup {[attempt |-> broker[w].attempt, cause |-> cause]}
                                 ELSE abandoned
                 /\ UNCHANGED <<context, request, attempts, sent, answers>>
      BY <3>1 DEF Abandon, At, db, Holding
    <3>2. CASE Crash(w)
      <4>1. broker[w].pc # "idle" /\ Abandon(w, "died")
        BY <3>2 DEF Crash, At
      <4> QED
        BY <3>1, <4>1
    <3>3. CASE Cancelled(w)
      <4>1. broker[w].pc # "idle" /\ broker[w].pc # "reserve" /\ Abandon(w, "cancelled")
        BY <3>3 DEF Cancelled, At
      <4> QED
        BY <3>1, <4>1
    <3>4. CASE BackendFails(w)
      <4>1. broker[w].pc # "idle" /\ Abandon(w, "backend")
        BY <3>4 DEF BackendFails, At
      <4> QED
        BY <3>1, <4>1
    <3> QED
      BY <1>11, <3>2, <3>3, <3>4
  <2>2. "idle" \in PCs
    BY DEF PCs
  <2>3. /\ broker' \in [Workers -> Process]
        /\ \A v \in Workers \ {w} : broker'[v] = broker[v]
        /\ broker'[w].pc = "idle" /\ broker'[w].attempt = 0 /\ broker'[w].status = None
    BY <1>1, <2>1, <2>2, Redirected
  <2>4. Types'
    BY <1>1, <2>1, <2>3 DEF Types
  <2>5. \/ broker[w].pc \notin Holding /\ abandoned' = abandoned
        \/ \E c : /\ broker[w].pc \in Holding /\ (c = "cancelled" => broker[w].pc = "call")
                  /\ abandoned' = abandoned \cup {[attempt |-> broker[w].attempt, cause |-> c]}
    BY <2>1 DEF Holding
  <2>6. QuietMove(w)
    BY <1>2, <1>3, <2>1, <2>3, <2>5 DEF QuietMove, Holding, Routed
  <2> QED
    BY <2>4, <2>6, QuietKeeps
<1> QED
  BY <1>6, <1>7, <1>8, <1>9, <1>10, <1>11

-------------------------------------------------------------------------------
(* The rest of the backend.                                                *)

\* Before the first run the context may be compiled and expanded.
LEMMA ContextKeeps ==
    ASSUME Inv, \/ \E in \in Inputs : Compile(in)
                \/ \E in \in Inputs : \E item \in Items(in) : Expand(item)
    PROVE  Inv'
<1>1. request.status = None /\ UNCHANGED <<request, attempts, broker, sent, answers, abandoned>>
  BY DEF Compile, Expand, db
<1>2. \A w \in Workers : broker[w].pc = "idle"
  BY <1>1 DEF Inv, Contexts
<1>3. ContextOK(context')
  <2>1. ASSUME NEW in \in Inputs, Compile(in) PROVE ContextOK(context')
    BY <2>1, CompiledOK DEF Compile
  <2>2. ASSUME NEW in \in Inputs, NEW item \in Items(in), Expand(item) PROVE ContextOK(context')
    BY <2>2, ExpandedOK DEF Expand, Inv, Contexts
  <2> QED
    BY <2>1, <2>2
<1>4. Contexts'
  BY <1>1, <1>2, <1>3 DEF Contexts, Routed, Holding
<1>5. Types'
  BY <1>1 DEF Inv, Types
<1>6. Processes'
  BY <1>1 DEF Inv, Processes, ProcessOK, Mine, Route
<1>7. Money'
  BY <1>1, MoneyStays DEF Inv
<1>8. Answers' /\ OneAnswer'
  BY <1>1 DEF Inv, Answers, OneAnswer
<1>9. Known'
  BY <1>1 DEF Inv, Known, Held, Left, Active
<1>10. EvidenceStaysCleared'
  BY <1>1 DEF Inv, EvidenceStaysCleared
<1> QED
  BY <1>4, <1>5, <1>6, <1>7, <1>8, <1>9, <1>10 DEF Inv

\* Invoices, verdicts on usefulness and expiring leases rewrite one attempt.
LEMMA RowStepsKeep ==
    ASSUME Inv, NEW a \in DOMAIN attempts,
           \/ \E c \in Invoices : reconcile_attempt_cost(a, c)
           \/ mark_decision_useful(a)
           \/ LeaseExpires(a)
    PROVE  Inv'
<1>1. Types /\ Money /\ attempts[a] \in Attempt /\ request \in Request
  BY Rows DEF Inv, Types
<1>2. ASSUME NEW c \in Invoices, reconcile_attempt_cost(a, c) PROVE Inv'
  <2>1. c \in Nat /\ c \in Int
    BY InferenceConstants DEF InferenceConstants
  <2>2. attempts[a].cost \in Nat /\ attempts[a].held \in Nat /\ attempts[a].held \in Int
    BY <1>1 DEF Attempt
  <2>3. PICK m : m = Min({attempts[a].held, c})
    OBVIOUS
  <2>4. m \in Nat
    <3>1. m \in {attempts[a].held, c}
      BY <2>1, <2>2, <2>3, MinOfTwo
    <3> QED
      BY <2>1, <2>2, <3>1
  <2>5. PICK row : row = [attempts[a] EXCEPT !.cost = c, !.held = m]
    OBVIOUS
  <2>6. attempts' = [attempts EXCEPT ![a] = row] /\ attempts[a].status # "CREATED"
        /\ UNCHANGED <<context, broker, sent, answers, abandoned>>
    BY <1>2, <2>3, <2>5 DEF reconcile_attempt_cost
  <2>7. row \in Attempt /\ row.cost = c /\ row.held = m /\ row.status = attempts[a].status
    BY <1>1, <2>1, <2>4, <2>5 DEF Attempt
  <2>8. /\ attempts' \in Seq(Attempt) /\ Len(attempts') = Len(attempts)
        /\ DOMAIN attempts' = DOMAIN attempts /\ attempts'[a] = row
        /\ \A x \in DOMAIN attempts : x # a => attempts'[x] = attempts[x]
    BY <1>1, <2>6, <2>7, RowChanges
  <2>9. request' \in Request /\ request'.reserved = request.reserved
        /\ request'.accrued = request.accrued - attempts[a].cost + c
        /\ request'.completed = request.completed /\ request'.status = request.status
    <3>1. PICK z : z = request.accrued - attempts[a].cost + c
      OBVIOUS
    <3>2. request' = [request EXCEPT !.accrued = z]
      BY <1>2, <3>1 DEF reconcile_attempt_cost
    <3>3. request.accrued \in Int
      BY <1>1 DEF Request
    <3>4. z \in Int
      BY <2>1, <2>2, <3>1, <3>3
    <3>5. request' \in Request /\ request'.accrued = z /\ request'.reserved = request.reserved
          /\ request'.completed = request.completed /\ request'.status = request.status
      BY <1>1, <3>2, <3>4 DEF Request
    <3> QED
      BY <3>1, <3>5
  <2>10. Types'
    BY <1>1, <2>6, <2>8, <2>9 DEF Types
  <2>11. Money'
    BY <1>1, <2>1, <2>3, <2>6, <2>7, <2>8, <2>9, <2>10, MoneyReconcile
  <2>12. BackendMove
    BY <2>6, <2>7, <2>8, <2>9 DEF BackendMove
  <2> QED
    BY <2>10, <2>11, <2>12, BackendKeeps
<1>3. CASE mark_decision_useful(a)
  <2>1. PICK row : row = [attempts[a] EXCEPT !.status = "DECISION_USEFUL"]
    OBVIOUS
  <2>2. attempts' = [attempts EXCEPT ![a] = row] /\ attempts[a].status = "SEMANTIC_ACCEPTED"
        /\ UNCHANGED <<context, broker, sent, answers, abandoned>>
    BY <1>3, <2>1 DEF mark_decision_useful
  <2>3. row \in Attempt /\ row.cost = attempts[a].cost /\ row.held = attempts[a].held
        /\ row.status = "DECISION_USEFUL"
    BY <1>1, <2>1 DEF Attempt, Statuses, Accepted
  <2>4. /\ attempts' \in Seq(Attempt) /\ Len(attempts') = Len(attempts)
        /\ DOMAIN attempts' = DOMAIN attempts /\ attempts'[a] = row
        /\ \A x \in DOMAIN attempts : x # a => attempts'[x] = attempts[x]
    BY <1>1, <2>2, <2>3, RowChanges
  <2>5. request' \in Request /\ request'.reserved = request.reserved
        /\ request'.accrued = request.accrued /\ request'.completed = request.completed
        /\ request'.status = "DECISION_USEFUL"
    BY <1>1, <1>3 DEF mark_decision_useful, Request, Statuses, Accepted
  <2>6. Types'
    BY <1>1, <2>2, <2>4, <2>5 DEF Types
  <2>7. Money'
    BY <1>1, <2>2, <2>3, <2>4, <2>5, MoneyStays
  <2>8. None # "DECISION_USEFUL"
    BY NoneIsNoStatus DEF Accepted
  <2>9. BackendMove
    BY <2>2, <2>3, <2>4, <2>5, <2>8 DEF BackendMove, Accepted
  <2> QED
    BY <2>6, <2>7, <2>9, BackendKeeps
<1>4. CASE LeaseExpires(a)
  <2>1. PICK row : row = [attempts[a] EXCEPT !.expired = TRUE]
    OBVIOUS
  <2>2. attempts' = [attempts EXCEPT ![a] = row]
        /\ UNCHANGED <<request, context, broker, sent, answers, abandoned>>
    BY <1>4, <2>1 DEF LeaseExpires
  <2>3. row \in Attempt /\ row.cost = attempts[a].cost /\ row.held = attempts[a].held
        /\ row.status = attempts[a].status /\ row.route = attempts[a].route
    BY <1>1, <2>1 DEF Attempt
  <2>4. /\ attempts' \in Seq(Attempt) /\ Len(attempts') = Len(attempts)
        /\ DOMAIN attempts' = DOMAIN attempts /\ attempts'[a] = row
        /\ \A x \in DOMAIN attempts : x # a => attempts'[x] = attempts[x]
    BY <1>1, <2>2, <2>3, RowChanges
  <2>5. Types'
    BY <1>1, <2>2, <2>4 DEF Types
  <2>6. Money'
    BY <1>1, <2>2, <2>3, <2>4, MoneyStays
  <2>7. BackendMove
    BY <2>2, <2>3, <2>4 DEF BackendMove
  <2> QED
    BY <2>5, <2>6, <2>7, BackendKeeps
<1> QED
  BY <1>2, <1>3, <1>4

\* Repeated submissions and revivals touch no attempt.
LEMMA RevivalsKeep ==
    ASSUME Inv, \/ RunAgain
                \/ \E reason \in Reasons : revive(reason)
                \/ \E r \in Routes, reason \in Reasons : revive_route(r, reason)
    PROVE  Inv'
<1>1. UNCHANGED <<attempts, broker, context, sent, abandoned>>
  BY DEF RunAgain, revive, revive_route, db
<1>2. Types /\ Money /\ request \in Request
  BY DEF Inv, Types
<1>3. request' = request \/ request' = [request EXCEPT !.status = "ADMITTED"]
  BY DEF RunAgain, revive, revive_route, db
<1>4. request' \in Request /\ request'.reserved = request.reserved
      /\ request'.accrued = request.accrued /\ request'.completed = request.completed
      /\ (request'.status = None => request.status = None)
  BY <1>2, <1>3, InferenceConstants DEF Request, InferenceConstants
<1>5. Types'
  BY <1>1, <1>2, <1>4 DEF Types
<1>6. Money'
  BY <1>1, <1>2, <1>4, MoneyStays
<1>7. \/ answers' = answers
      \/ request.completed # 0 /\ answers' = answers \cup {request.completed}
  BY DEF RunAgain, revive, revive_route
<1>8. BackendMove
  BY <1>1, <1>4, <1>7 DEF BackendMove
<1> QED
  BY <1>5, <1>6, <1>8, BackendKeeps

\* The empty database is sound.
LEMMA InitInv == Init => Inv
<1> SUFFICES ASSUME Init PROVE Inv
  OBVIOUS
<1>1. Types
  <2>1. request \in Request
    BY DEF Init, NewRequest, Request
  <2>2. attempts \in Seq(Attempt)
    BY DEF Init
  <2>3. broker \in [Workers -> Process]
    BY IdleIsProcess DEF Init
  <2> QED
    BY <2>1, <2>2, <2>3 DEF Types
<1>2. \A w \in Workers : broker[w].pc = "idle" /\ broker[w].attempt = 0 /\ broker[w].status = None
  BY IdleIsProcess DEF Init
<1>3. Processes
  BY <1>2, NoneIsNoStatus DEF Processes, ProcessOK, Holding, Routed, Init
<1>4. DOMAIN attempts = {} /\ Active = {}
  BY DEF Init, Active
<1>5. request.reserved = 0 /\ request.accrued = 0 /\ request.completed = 0
  BY DEF Init, NewRequest
<1>6. CostOf(attempts, {}) = 0 /\ Overrun(attempts, {}) = 0
  BY CostIs, OverrunIs, SumEmpty, FS_EmptySet
<1>7. CostsAddUp
  BY <1>4, <1>5, <1>6 DEF CostsAddUp
<1>8. CeilingHolds
  BY <1>4, <1>5, <1>6, InferenceConstants DEF CeilingHolds, InferenceConstants
<1>9. Booked
  BY <1>4 DEF Booked
<1>10. Contexts
  BY <1>2 DEF Contexts, Init, Routed, Holding
<1>11. Answers /\ OneAnswer
  BY <1>4, <1>5 DEF Answers, OneAnswer, Init
<1>12. Known /\ EvidenceStaysCleared
  BY <1>2, <1>4 DEF Known, Held, Left, Holding, EvidenceStaysCleared, Init
<1> QED
  BY <1>1, <1>3, <1>7, <1>8, <1>9, <1>10, <1>11, <1>12 DEF Inv, Money

\* The invariant holds in every state that runs of any number of processes, their
\* crashes, cancellations, backend failures, late answers, invoices and revivals
\* can reach.
THEOREM Invariance == Spec => []Inv
<1>1. Inv /\ [Next]_vars => Inv'
  <2> SUFFICES ASSUME Inv, [Next]_vars PROVE Inv'
    OBVIOUS
  <2>1. CASE (\E in \in Inputs : Compile(in))
             \/ \E in \in Inputs : \E item \in Items(in) : Expand(item)
    BY <2>1, ContextKeeps
  <2>2. ASSUME NEW w \in Workers, Step(w) \/ Crash(w) \/ Cancelled(w) \/ BackendFails(w)
        PROVE  Inv'
    BY <2>2, RunKeeps, ClaimKeeps, ReserveKeeps, EndsKeep, OtherStepsKeep DEF Step
  <2>3. CASE RunAgain \/ (\E reason \in Reasons : revive(reason))
             \/ \E r \in Routes, reason \in Reasons : revive_route(r, reason)
    BY <2>3, RevivalsKeep
  <2>4. ASSUME NEW a \in DOMAIN attempts,
               (\E c \in Invoices : reconcile_attempt_cost(a, c))
               \/ mark_decision_useful(a) \/ LeaseExpires(a)
        PROVE  Inv'
    BY <2>4, RowStepsKeep
  <2>5. CASE UNCHANGED vars
    <3>1. UNCHANGED <<context, request, attempts, broker, sent, answers, abandoned>>
      BY <2>5 DEF vars
    <3>2. Types'
      BY <3>1 DEF Inv, Types
    <3>3. Money'
      BY <3>1, MoneyStays DEF Inv
    <3>4. BackendMove
      BY <3>1 DEF BackendMove
    <3> QED
      BY <3>2, <3>3, <3>4, BackendKeeps
  <2> QED
    BY <2>1, <2>2, <2>3, <2>4, <2>5 DEF Next
<1> QED
  BY InitInv, <1>1, PTL DEF Spec

\* Rows are well formed, and a process past its claim works on an open attempt of
\* its own route that no other process holds.
THEOREM TypeCorrect == Spec => []TypeOK
<1>1. Inv => TypeOK
  <2> SUFFICES ASSUME Inv PROVE TypeOK
    OBVIOUS
  <2>1. Types /\ Processes /\ CostsAddUp /\ Answers
    BY DEF Inv, Money
  <2>2. request \in Request /\ Active \in SUBSET DOMAIN attempts
        /\ DOMAIN attempts \ Active \in SUBSET DOMAIN attempts
    BY <2>1 DEF Types, Active
  <2>3. request.reserved \in Nat /\ request.accrued \in Nat
    <3>1. \A T \in SUBSET DOMAIN attempts : CostOf(attempts, T) \in Int /\ CostOf(attempts, T) >= 0
      BY <2>1, Bills, SumsOfAttempts DEF Types
    <3> QED
      BY <2>1, <2>2, <3>1 DEF CostsAddUp
  <2>4. request.completed \in 0..Len(attempts)
    BY <2>1 DEF Answers
  <2>5. \A a \in DOMAIN attempts : attempts[a].status \in Statuses
    <3>1. \A a \in DOMAIN attempts : attempts[a] \in Attempt
      BY <2>1, Rows
    <3> QED
      BY <3>1 DEF Attempt
  <2>6. \A w \in Workers : At(w, "reserve") \/ At(w, "call") =>
           /\ Mine(w).status = "CREATED" /\ Mine(w).route = Route(w)
           /\ \A v \in Workers \ {w} : broker[v].attempt # broker[w].attempt
    BY <2>1 DEF Processes, ProcessOK, At, Holding
  <2> QED
    BY <2>3, <2>4, <2>5, <2>6 DEF TypeOK
<1> QED
  BY Invariance, <1>1, PTL

\* No spend disappears and none is counted twice, whatever the order of answers,
\* late answers, denials, crashes and invoices (finish_attempt).
THEOREM SpendIsAccounted == Spec => []CostsAddUp
<1>1. Inv => CostsAddUp
  BY DEF Inv, Money
<1> QED
  BY Invariance, <1>1, PTL

\* Spend stays within the ceiling but for what was charged or invoiced beyond the
\* least an attempt was booked with (reserve_cost).
THEOREM SpendIsCapped == Spec => []CeilingHolds
<1>1. Inv => CeilingHolds
  BY DEF Inv, Money
<1> QED
  BY Invariance, <1>1, PTL

\* The open attempts are exactly those a process works on and those run was left
\* with, by a death, a cancellation or a failing backend call: run itself closes
\* what it opens, and nothing closes what it was made to leave (_attempt,
\* _finish_transport_failure).
THEOREM LeaksAreKnown == Spec => []OpenAttemptsKnown
<1>1. Inv => OpenAttemptsKnown
  <2> SUFFICES ASSUME Inv PROVE OpenAttemptsKnown
    OBVIOUS
  <2>1. Known
    BY DEF Inv
  <2>2. \A x : (x \in InHand <=> Held(x)) /\ (x \in Abandoned <=> Left(x))
    BY DEF InHand, Abandoned, Held, Left, At, Holding
  <2> QED
    BY <2>1, <2>2 DEF Known, OpenAttemptsKnown
<1> QED
  BY Invariance, <1>1, PTL

\* All callers are given the same answer, that of the completed attempt.
THEOREM AnswersAgree == Spec => []OneAnswer
<1>1. Inv => OneAnswer
  BY DEF Inv
<1> QED
  BY Invariance, <1>1, PTL

\* No provider is sent evidence its route is not cleared for, be it the route the
\* context was compiled for or a fallback (select_routes, compile).
THEOREM EvidenceIsCleared == Spec => []EvidenceStaysCleared
<1>1. Inv => EvidenceStaysCleared
  BY DEF Inv
<1> QED
  BY Invariance, <1>1, PTL

-------------------------------------------------------------------------------
(* Answers are for good.                                                   *)

\* A request is in an accepted status exactly when it has a completed attempt.
StatusTellsAnswer == request.completed # 0 <=> request.status \in Accepted

AnswersKept ==
    /\ request.completed # 0 => /\ request'.completed = request.completed
                                /\ request'.status \in Accepted
    /\ \A a \in DOMAIN attempts :
          /\ a \in DOMAIN attempts'
          /\ attempts[a].status # "CREATED" =>
                \/ attempts'[a].status = attempts[a].status
                \/ /\ attempts[a].status = "SEMANTIC_ACCEPTED"
                   /\ attempts'[a].status = "DECISION_USEFUL"

\* A request that has its answer keeps it, and an attempt that ended keeps its
\* verdict: no slower process, late answer, further run, hibernation, revival or
\* invoice replaces the completed attempt, takes the request back to work or
\* opens an attempt again.
AnswerForGood == [][AnswersKept]_vars

\* Steps that rewrite one attempt and leave its verdict.
LEMMA VerdictStays ==
    ASSUME Types, NEW a \in DOMAIN attempts, NEW row \in Attempt,
           attempts' = [attempts EXCEPT ![a] = row], row.status = attempts[a].status,
           StatusTellsAnswer,
           request'.completed = request.completed, request'.status = request.status
    PROVE  AnswersKept /\ StatusTellsAnswer'
<1>1. /\ DOMAIN attempts' = DOMAIN attempts
      /\ attempts'[a] = row
      /\ \A x \in DOMAIN attempts : x # a => attempts'[x] = attempts[x]
  BY RowChanges
<1> QED
  BY <1>1 DEF AnswersKept, StatusTellsAnswer

\* Steps that touch neither the request nor an attempt.
LEMMA NothingAnswered ==
    ASSUME StatusTellsAnswer, UNCHANGED <<request, attempts>>
    PROVE  AnswersKept /\ StatusTellsAnswer'
BY DEF AnswersKept, StatusTellsAnswer

\* Steps that move only the status of a request without an answer.
LEMMA StatusMoves ==
    ASSUME Types, StatusTellsAnswer, attempts' = attempts, request.completed = 0,
           NEW s, s \notin Accepted, request' = [request EXCEPT !.status = s]
    PROVE  AnswersKept /\ StatusTellsAnswer'
<1>1. request'.completed = 0 /\ request'.status = s
  BY DEF Types, Request
<1> QED
  BY <1>1 DEF AnswersKept, StatusTellsAnswer

\* finish_attempt completes a request once: an accepted answer that comes second
\* is stale.
LEMMA FinishAnswers ==
    ASSUME Inv, StatusTellsAnswer, NEW w \in Workers, broker[w].pc \in Holding,
           NEW s \in Verdicts \cup {"HIBERNATED"}, NEW charge \in Nat,
           finish_attempt(broker[w].attempt, s, charge)
    PROVE  AnswersKept /\ StatusTellsAnswer'
<1> DEFINE a == broker[w].attempt
<1>1. Types /\ ProcessOK(w)
  BY DEF Inv, Processes
<1>2. a \in DOMAIN attempts /\ attempts[a].status = "CREATED" /\ a # 0
  BY <1>1, Rows DEF ProcessOK, Mine
<1>3. PICK kept \in Statuses \ {"CREATED"} : FinishedAs(a, s, charge, kept)
  BY <1>1, <1>2, Finished
<1> HIDE DEF a
<1>4. kept \in Accepted => request.completed = 0
  <2>1. "HIBERNATED" \notin Accepted
    BY DEF Accepted
  <2> QED
    BY <1>3, <2>1 DEF FinishedAs, Stale
<1>5. \A x \in DOMAIN attempts : attempts[x].status # "CREATED" => attempts'[x] = attempts[x]
  BY <1>2, <1>3 DEF FinishedAs
<1>6. DOMAIN attempts' = DOMAIN attempts
  BY <1>3 DEF FinishedAs
<1>7. /\ request'.completed = IF kept \in Accepted THEN a ELSE request.completed
      /\ request'.status = IF kept \in Accepted THEN kept ELSE request.status
  BY <1>3 DEF FinishedAs
<1>8. CASE kept \in Accepted
  BY <1>2, <1>4, <1>5, <1>6, <1>7, <1>8 DEF AnswersKept, StatusTellsAnswer
<1>9. CASE kept \notin Accepted
  BY <1>5, <1>6, <1>7, <1>9 DEF AnswersKept, StatusTellsAnswer
<1> QED
  BY <1>8, <1>9

\* The steps of a process in run.
LEMMA RunAnswers ==
    ASSUME Inv, StatusTellsAnswer, NEW w \in Workers,
           Step(w) \/ Crash(w) \/ Cancelled(w) \/ BackendFails(w)
    PROVE  AnswersKept /\ StatusTellsAnswer'
<1> DEFINE Goal == AnswersKept /\ StatusTellsAnswer'
<1>1. Types /\ ProcessOK(w) /\ request \in Request
  BY DEF Inv, Processes, Types
<1>2. "ADMITTED" \notin Accepted /\ "ATTEMPTING" \notin Accepted /\ "HIBERNATED" \notin Accepted
  BY DEF Accepted
<1>3. CASE ClaimRefused(w) \/ record_route_outcome(w) \/ append_event(w) \/ Raise(w)
           \/ Leave(w) \/ Crash(w) \/ Cancelled(w) \/ BackendFails(w)
  <2>1. UNCHANGED <<request, attempts>>
    BY <1>3 DEF ClaimRefused, record_route_outcome, append_event, Raise, Leave, Crash,
               Cancelled, BackendFails, Abandon, db
  <2> QED
    BY <2>1, NothingAnswered
<1>4. CASE run(w)
  <2>1. attempts' = attempts
    BY <1>4 DEF run
  <2>2. CASE request.status # None
    <3>1. request' = request
      BY <1>4, <2>2 DEF run
    <3> QED
      BY <2>1, <3>1, NothingAnswered
  <2>3. CASE request.status = None
    <3>1. request' = [request EXCEPT !.status = "ADMITTED"]
      BY <1>4, <2>3 DEF run
    <3>2. request.completed = 0
      BY <2>3, NoneIsNoStatus DEF StatusTellsAnswer
    <3> QED
      BY <1>1, <1>2, <2>1, <3>1, <3>2, StatusMoves
  <2> QED
    BY <2>2, <2>3
<1>5. CASE claim_attempt(w)
  <2>1. request.completed = 0 /\ request' = [request EXCEPT !.status = "ATTEMPTING"]
    BY <1>5 DEF claim_attempt, MayClaim
  <2>2. request'.completed = 0 /\ request'.status = "ATTEMPTING"
    BY <1>1, <2>1 DEF Request
  <2>3. PICK row : attempts' = Append(attempts, row)
    BY <1>5 DEF claim_attempt
  <2>4. \A a \in DOMAIN attempts : a \in DOMAIN attempts' /\ attempts'[a] = attempts[a]
    <3>1. attempts \in Seq(Attempt)
      BY <1>1 DEF Types
    <3> QED
      BY <2>3, <3>1
  <2> QED
    BY <1>2, <2>1, <2>2, <2>4 DEF AnswersKept, StatusTellsAnswer
<1>6. CASE reserve_cost(w)
  <2> DEFINE a == broker[w].attempt
  <2>1. broker[w].pc = "reserve"
    BY <1>6 DEF reserve_cost, At
  <2>2. a \in DOMAIN attempts /\ attempts[a] \in Attempt
    BY <1>1, <2>1, Rows DEF ProcessOK, Holding
  <2>3. PICK c : c = Reservation(Route(w))
    OBVIOUS
  <2>4. c \in Nat
    BY <2>1, <2>3, RouteConfigured, ChargesNat DEF Routed, Holding
  <2>5. PICK row : row = [attempts[a] EXCEPT !.cost = c, !.held = c]
    OBVIOUS
  <2>6. attempts' = [attempts EXCEPT ![a] = row]
    BY <1>6, <2>3, <2>5 DEF reserve_cost
  <2>7. row \in Attempt /\ row.status = attempts[a].status
    BY <2>2, <2>4, <2>5 DEF Attempt
  <2>8. request'.completed = request.completed /\ request'.status = request.status
    BY <1>1, <1>6 DEF reserve_cost, Request
  <2> HIDE DEF a
  <2> QED
    BY <1>1, <2>2, <2>6, <2>7, <2>8, VerdictStays
<1>7. CASE BudgetDenied(w)
  <2>1. broker[w].pc = "reserve" /\ finish_attempt(broker[w].attempt, "HIBERNATED", 0)
    BY <1>7 DEF BudgetDenied, At
  <2> QED
    BY <2>1, FinishAnswers DEF Holding
<1>8. broker[w].pc = "call" => Route(w) \in Routes
  BY RouteConfigured DEF Routed, Holding
<1>9. ASSUME NEW s \in Verdicts, NEW u \in Usages, Answered(w, s, u) PROVE Goal
  <2>1. broker[w].pc = "call" /\ finish_attempt(broker[w].attempt, s, _response_cost(Route(w), u, s))
    BY <1>9 DEF Answered, At
  <2>2. u \in Nat \cup {Unknown}
    BY InferenceConstants DEF InferenceConstants
  <2>3. _response_cost(Route(w), u, s) \in Nat
    BY <1>8, <2>1, <2>2, ChargesNat
  <2> QED
    BY <2>1, <2>3, FinishAnswers DEF Holding
<1>10. ASSUME NEW s \in Failures, CallFailed(w, s) PROVE Goal
  <2>1. broker[w].pc = "call" /\ finish_attempt(broker[w].attempt, s, FailureCost(Route(w), s))
    BY <1>10 DEF CallFailed, At
  <2>2. FailureCost(Route(w), s) \in Nat
    BY <1>8, <2>1, ChargesNat
  <2>3. s \in Verdicts
    BY DEF Verdicts
  <2> QED
    BY <2>1, <2>2, <2>3, FinishAnswers DEF Holding
<1>11. CASE hibernate(w)
  <2>1. \/ UNCHANGED <<request, attempts>>
        \/ /\ request.completed = 0 /\ attempts' = attempts
           /\ request' = [request EXCEPT !.status = "HIBERNATED"]
    BY <1>11 DEF hibernate, db
  <2> QED
    BY <1>1, <1>2, <2>1, NothingAnswered, StatusMoves
<1> QED
  BY <1>3, <1>4, <1>5, <1>6, <1>7, <1>9, <1>10, <1>11 DEF Step

\* The steps of the backend on a row of its own.
LEMMA BackendAnswers ==
    ASSUME Inv, StatusTellsAnswer, NEW a \in DOMAIN attempts,
           \/ \E c \in Invoices : reconcile_attempt_cost(a, c)
           \/ mark_decision_useful(a)
           \/ LeaseExpires(a)
    PROVE  AnswersKept /\ StatusTellsAnswer'
<1>1. Types /\ attempts[a] \in Attempt /\ request \in Request
  BY Rows DEF Inv, Types
<1>2. ASSUME NEW c \in Invoices, reconcile_attempt_cost(a, c)
      PROVE  AnswersKept /\ StatusTellsAnswer'
  <2>1. c \in Nat /\ c \in Int
    BY InferenceConstants DEF InferenceConstants
  <2>2. attempts[a].held \in Nat /\ attempts[a].held \in Int
    BY <1>1 DEF Attempt
  <2>3. PICK m : m = Min({attempts[a].held, c})
    OBVIOUS
  <2>4. m \in Nat
    <3>1. m \in {attempts[a].held, c}
      BY <2>1, <2>2, <2>3, MinOfTwo
    <3> QED
      BY <2>1, <2>2, <3>1
  <2>5. PICK row : row = [attempts[a] EXCEPT !.cost = c, !.held = m]
    OBVIOUS
  <2>6. attempts' = [attempts EXCEPT ![a] = row]
    BY <1>2, <2>3, <2>5 DEF reconcile_attempt_cost
  <2>7. row \in Attempt /\ row.status = attempts[a].status
    BY <1>1, <2>1, <2>4, <2>5 DEF Attempt
  <2>8. request'.completed = request.completed /\ request'.status = request.status
    BY <1>1, <1>2 DEF reconcile_attempt_cost, Request
  <2> QED
    BY <1>1, <2>6, <2>7, <2>8, VerdictStays
<1>3. CASE mark_decision_useful(a)
  <2>1. PICK row : row = [attempts[a] EXCEPT !.status = "DECISION_USEFUL"]
    OBVIOUS
  <2>2. attempts' = [attempts EXCEPT ![a] = row] /\ attempts[a].status = "SEMANTIC_ACCEPTED"
        /\ request.completed = a /\ request' = [request EXCEPT !.status = "DECISION_USEFUL"]
    BY <1>3, <2>1 DEF mark_decision_useful
  <2>3. row \in Attempt /\ row.status = "DECISION_USEFUL"
    BY <1>1, <2>1 DEF Attempt, Statuses, Accepted
  <2>4. /\ DOMAIN attempts' = DOMAIN attempts /\ attempts'[a] = row
        /\ \A x \in DOMAIN attempts : x # a => attempts'[x] = attempts[x]
    BY <1>1, <2>2, <2>3, RowChanges
  <2>5. request'.completed = a /\ request'.status = "DECISION_USEFUL" /\ a # 0
    BY <1>1, <2>2, Rows DEF Request
  <2> QED
    BY <2>2, <2>3, <2>4, <2>5 DEF AnswersKept, StatusTellsAnswer, Accepted
<1>4. CASE LeaseExpires(a)
  <2>1. PICK row : row = [attempts[a] EXCEPT !.expired = TRUE]
    OBVIOUS
  <2>2. attempts' = [attempts EXCEPT ![a] = row] /\ request' = request
    BY <1>4, <2>1 DEF LeaseExpires
  <2>3. row \in Attempt /\ row.status = attempts[a].status
    BY <1>1, <2>1 DEF Attempt
  <2> QED
    BY <1>1, <2>2, <2>3, VerdictStays
<1> QED
  BY <1>2, <1>3, <1>4

\* Every step keeps the answer of a request, if it has one.
LEMMA StepsKeepAnswers ==
    ASSUME Inv, StatusTellsAnswer, [Next]_vars
    PROVE  AnswersKept /\ StatusTellsAnswer'
<1>1. Types
  BY DEF Inv
<1>2. CASE \/ \E in \in Inputs : Compile(in)
           \/ \E in \in Inputs : \E item \in Items(in) : Expand(item)
           \/ RunAgain
           \/ \E r \in Routes, reason \in Reasons : revive_route(r, reason)
           \/ UNCHANGED vars
  <2>1. UNCHANGED <<request, attempts>>
    BY <1>2 DEF Compile, Expand, RunAgain, revive_route, vars, db
  <2> QED
    BY <2>1, NothingAnswered
<1>3. ASSUME NEW reason \in Reasons, revive(reason) PROVE AnswersKept /\ StatusTellsAnswer'
  <2>1. attempts' = attempts /\ request.completed = 0
        /\ request' = [request EXCEPT !.status = "ADMITTED"]
    BY <1>3 DEF revive
  <2>2. "ADMITTED" \notin Accepted
    BY DEF Accepted
  <2> QED
    BY <1>1, <2>1, <2>2, StatusMoves
<1> QED
  BY <1>2, <1>3, RunAnswers, BackendAnswers DEF Next

\* In every behaviour the answer of a request is for good (finish_attempt,
\* hibernate, revive, reconcile_attempt_cost, mark_decision_useful).
THEOREM AnswersAreFinal == Spec => AnswerForGood
<1>1. Init => StatusTellsAnswer
  <2> SUFFICES ASSUME Init PROVE StatusTellsAnswer
    OBVIOUS
  <2>1. request.completed = 0 /\ request.status = None
    BY DEF Init, NewRequest
  <2> QED
    BY <2>1, NoneIsNoStatus DEF StatusTellsAnswer
<1>2. Inv /\ StatusTellsAnswer /\ [Next]_vars => AnswersKept /\ StatusTellsAnswer'
  BY StepsKeepAnswers
<1> QED
  BY <1>1, <1>2, Invariance, PTL DEF Spec, AnswerForGood
===============================================================================
