-------------------------- MODULE PaperServiceProofs --------------------------
(***************************************************************************)
(* Proofs about PaperService, for any runs, orders, pools, limits, scopes  *)
(* and any number of callers of simulate_order.                            *)
(*                                                                         *)
(* Three of the properties compare sums: of the reservations of a pool, of *)
(* the fills of a book and of what its orders say was filled.  The first   *)
(* lemmas say how those sums move with one row (see FiniteSums).  The      *)
(* invariant adds what the fill a caller holds refers to (Callers) and     *)
(* that the stored position is the replay of the stored fills (Ledger).    *)
(***************************************************************************)
EXTENDS PaperService, FiniteSums

Fill == [order: Orders, quantity: Nat \ {0}, time: Nat]

InPool(r, pool) == {o \in Placed : OrderSpec[o].run = r /\ OrderSpec[o].pool = pool}
InBook(r, i) == {o \in Placed : OrderSpec[o].run = r /\ OrderSpec[o].instrument = i}

\* The fill a caller of simulate_order holds is one of a stored order, and its
\* transaction, once open, is numbered.
Callers ==
    /\ worker \in [Workers -> [phase: {"idle", "simulated", "waiting"},
                               fill: Fill \cup {NoFill}, started: Nat]]
    /\ \A w \in Workers : worker[w].phase # "idle" => /\ worker[w].fill \in Fill
                                                      /\ worker[w].fill.order \in Placed
    /\ \A w \in Workers : worker[w].phase = "waiting" => worker[w].started \in 1..clock

\* The tables that are summed are finite, and paper_positions holds the replay
\* of paper_fills.
Ledger ==
    /\ IsFiniteSet(Placed)
    /\ fills \subseteq Fill
    /\ IsFiniteSet(fills)
    /\ DOMAIN cash = Runs
    /\ \A r \in Runs, i \in Instruments : position[<<r, i>>] = Replayed(LedgerOf(r, i))

Inv == /\ TypeOK /\ Callers /\ Ledger
       /\ ReservationMatchesOrder /\ PoolLimit /\ PositionMatchesOrders
       /\ NoActiveRunUnderGlobalLatch

-------------------------------------------------------------------------------
(* The sums.                                                               *)

\* The risk submit adds up is a sum of amounts.
LEMMA AtRiskIs ==
    ASSUME NEW rows, NEW T, IsFiniteSet(T)
    PROVE  AtRisk(rows, T) = SumOver([o \in T |-> rows[o].working + rows[o].converted], T)
<1> DEFINE f == [o \in T |-> rows[o].working + rows[o].converted]
           Def(g) == g = [s \in SUBSET T |-> IF s = {} THEN 0
                             ELSE rows[Pick(s)].working + rows[Pick(s)].converted
                                  + g[s \ {Pick(s)}]]
           h == CHOOSE g : Def(g)
<1>1. ASSUME NEW g PROVE Sums(f, g, T) <=> Def(g)
  <2>1. \A s \in SUBSET T : s # {} =>
            f[Pick(s)] = rows[Pick(s)].working + rows[Pick(s)].converted
    BY DEF Pick
  <2> QED
    BY <2>1 DEF Sums
<1>2. AtRisk(rows, T) = h[T]
  BY DEF AtRisk, MapThenSumSet, MapThenFoldSet, Pick
<1>3. Sums(f, h, T)
  <2>1. \E g : Def(g)
    BY <1>1, SumsExist
  <2> QED
    BY <1>1, <2>1
<1>4. PICK g : Sums(f, g, T) /\ SumOver(f, T) = g[T]
  BY SumIs
<1>5. h[T] = g[T]
  BY <1>3, <1>4, SumsAgree
<1> QED
  BY <1>2, <1>4, <1>5

\* What a book's orders say was filled is a sum of amounts.
LEMMA FilledIs ==
    ASSUME NEW rows, NEW T, IsFiniteSet(T)
    PROVE  Filled(rows, T) = SumOver([o \in T |-> OrderSpec[o].side * rows[o].filled], T)
<1> DEFINE f == [o \in T |-> OrderSpec[o].side * rows[o].filled]
           Def(g) == g = [s \in SUBSET T |-> IF s = {} THEN 0
                             ELSE OrderSpec[Pick(s)].side * rows[Pick(s)].filled
                                  + g[s \ {Pick(s)}]]
           h == CHOOSE g : Def(g)
<1>1. ASSUME NEW g PROVE Sums(f, g, T) <=> Def(g)
  <2>1. \A s \in SUBSET T : s # {} =>
            f[Pick(s)] = OrderSpec[Pick(s)].side * rows[Pick(s)].filled
    BY DEF Pick
  <2> QED
    BY <2>1 DEF Sums
<1>2. Filled(rows, T) = h[T]
  BY DEF Filled, MapThenSumSet, MapThenFoldSet, Pick
<1>3. Sums(f, h, T)
  <2>1. \E g : Def(g)
    BY <1>1, SumsExist
  <2> QED
    BY <1>1, <2>1
<1>4. PICK g : Sums(f, g, T) /\ SumOver(f, T) = g[T]
  BY SumIs
<1>5. h[T] = g[T]
  BY <1>3, <1>4, SumsAgree
<1> QED
  BY <1>2, <1>4, <1>5

\* record_fill's replay of the fills is a sum of amounts.
LEMMA ReplayedIs ==
    ASSUME NEW T, IsFiniteSet(T)
    PROVE  Replayed(T) = SumOver([g \in T |-> Signed(g)], T)
<1> DEFINE f == [g \in T |-> Signed(g)]
           Def(g) == g = [s \in SUBSET T |-> IF s = {} THEN 0
                             ELSE Signed(Pick(s)) + g[s \ {Pick(s)}]]
           h == CHOOSE g : Def(g)
<1>1. ASSUME NEW g PROVE Sums(f, g, T) <=> Def(g)
  <2>1. \A s \in SUBSET T : s # {} => f[Pick(s)] = Signed(Pick(s))
    BY DEF Pick
  <2> QED
    BY <2>1 DEF Sums
<1>2. Replayed(T) = h[T]
  BY DEF Replayed, MapThenSumSet, MapThenFoldSet, Pick
<1>3. Sums(f, h, T)
  <2>1. \E g : Def(g)
    BY <1>1, SumsExist
  <2> QED
    BY <1>1, <2>1
<1>4. PICK g : Sums(f, g, T) /\ SumOver(f, T) = g[T]
  BY SumIs
<1>5. h[T] = g[T]
  BY <1>3, <1>4, SumsAgree
<1> QED
  BY <1>2, <1>4, <1>5

\* Reservations that do not grow hold no more of a pool together.
LEMMA AtRiskShrinks ==
    ASSUME NEW T, IsFiniteSet(T), NEW old, NEW new,
           \A o \in T : /\ old[o].working + old[o].converted \in Int
                        /\ new[o].working + new[o].converted \in Int
                        /\ new[o].working + new[o].converted <= old[o].working + old[o].converted
    PROVE  AtRisk(new, T) <= AtRisk(old, T)
<1> DEFINE f == [o \in T |-> old[o].working + old[o].converted]
           e == [o \in T |-> new[o].working + new[o].converted]
<1>1. Summable(f, T) /\ Summable(e, T) /\ \A x \in T : e[x] <= f[x]
  BY DEF Summable
<1>2. AtRisk(old, T) = SumOver(f, T) /\ AtRisk(new, T) = SumOver(e, T)
  BY AtRiskIs
<1> HIDE DEF f, e
<1> QED
  BY <1>1, <1>2, SumMonotone

\* A pool's risk is an amount.
LEMMA AtRiskInt ==
    ASSUME NEW T, IsFiniteSet(T), NEW rows,
           \A o \in T : rows[o].working + rows[o].converted \in Int
    PROVE  AtRisk(rows, T) \in Int
<1> DEFINE f == [o \in T |-> rows[o].working + rows[o].converted]
<1>1. Summable(f, T)
  BY DEF Summable
<1>2. AtRisk(rows, T) = SumOver(f, T)
  BY AtRiskIs
<1> HIDE DEF f
<1> QED
  BY <1>1, <1>2, SumInt

\* submit leaves the RELEASED reservations out of its sum: they hold nothing.
LEMMA AtRiskSkips ==
    ASSUME NEW S, IsFiniteSet(S), NEW T \in SUBSET S, NEW rows,
           \A o \in S : rows[o].working + rows[o].converted \in Int,
           \A o \in S \ T : rows[o].working + rows[o].converted = 0
    PROVE  AtRisk(rows, T) = AtRisk(rows, S)
<1> DEFINE f == [o \in S |-> rows[o].working + rows[o].converted]
           e == [o \in T |-> rows[o].working + rows[o].converted]
<1>1. IsFiniteSet(T)
  BY FS_Subset
<1>2. Summable(f, S) /\ (\A x \in S \ T : f[x] = 0) /\ (\A x \in T : e[x] = f[x])
  BY DEF Summable
<1>3. AtRisk(rows, S) = SumOver(f, S) /\ AtRisk(rows, T) = SumOver(e, T)
  BY <1>1, AtRiskIs
<1> HIDE DEF f, e
<1>4. SumOver(e, T) = SumOver(f, T)
  BY <1>1, <1>2, SumSame
<1>5. SumOver(f, T) = SumOver(f, S)
  BY <1>2, SumIgnoresZero
<1> QED
  BY <1>3, <1>4, <1>5

\* An order submit accepts adds its own risk to the pool.
LEMMA AtRiskAdds ==
    ASSUME NEW S, IsFiniteSet(S), NEW y, y \notin S, NEW old, NEW new,
           \A o \in S : /\ old[o].working + old[o].converted \in Int
                        /\ new[o] = old[o],
           new[y].working + new[y].converted \in Int
    PROVE  AtRisk(new, S \cup {y}) = AtRisk(old, S) + (new[y].working + new[y].converted)
<1> DEFINE T == S \cup {y}
           f == [o \in S |-> old[o].working + old[o].converted]
           e == [o \in T |-> new[o].working + new[o].converted]
<1>1. IsFiniteSet(T)
  BY FS_AddElement
<1>2. Summable(e, T) /\ (\A x \in S : e[x] = f[x]) /\ e[y] = new[y].working + new[y].converted
  BY DEF Summable
<1>3. AtRisk(old, S) = SumOver(f, S) /\ AtRisk(new, T) = SumOver(e, T)
  BY <1>1, AtRiskIs
<1> HIDE DEF f, e
<1>4. SumOver(e, S) = SumOver(f, S)
  BY <1>2, SumSame
<1>5. SumOver(e, T) = SumOver(e, S) + e[y]
  BY <1>2, SumAdd
<1> QED
  BY <1>2, <1>3, <1>4, <1>5

\* A book whose orders filled no more holds what it held.
LEMMA FilledSame ==
    ASSUME NEW T, IsFiniteSet(T), NEW old, NEW new, \A o \in T : new[o].filled = old[o].filled
    PROVE  Filled(new, T) = Filled(old, T)
<1> DEFINE f == [o \in T |-> OrderSpec[o].side * old[o].filled]
           e == [o \in T |-> OrderSpec[o].side * new[o].filled]
<1>1. \A x \in T : e[x] = f[x]
  OBVIOUS
<1>2. Filled(old, T) = SumOver(f, T) /\ Filled(new, T) = SumOver(e, T)
  BY FilledIs
<1> HIDE DEF f, e
<1> QED
  BY <1>1, <1>2, SumSame

\* An order submit accepts has filled nothing.
LEMMA FilledAdds ==
    ASSUME NEW S, IsFiniteSet(S), NEW y, y \notin S, NEW old, NEW new,
           \A o \in S : /\ OrderSpec[o].side * old[o].filled \in Int
                        /\ new[o] = old[o],
           OrderSpec[y].side * new[y].filled = 0
    PROVE  Filled(new, S \cup {y}) = Filled(old, S)
<1> DEFINE T == S \cup {y}
           f == [o \in S |-> OrderSpec[o].side * old[o].filled]
           e == [o \in T |-> OrderSpec[o].side * new[o].filled]
<1>1. IsFiniteSet(T)
  BY FS_AddElement
<1>2. Summable(e, T) /\ (\A x \in S : e[x] = f[x]) /\ (\A x \in T \ S : e[x] = 0) /\ S \in SUBSET T
  BY DEF Summable
<1>3. Filled(old, S) = SumOver(f, S) /\ Filled(new, T) = SumOver(e, T)
  BY <1>1, FilledIs
<1> HIDE DEF f, e, T
<1>4. SumOver(e, S) = SumOver(f, S)
  BY <1>2, SumSame
<1>5. SumOver(e, S) = SumOver(e, T)
  BY <1>1, <1>2, SumIgnoresZero
<1> QED
  BY <1>3, <1>4, <1>5 DEF T

\* A fill moves what its book's orders have filled by its signed quantity.
LEMMA FilledChanges ==
    ASSUME NEW S, IsFiniteSet(S), NEW y \in S, NEW old, NEW new,
           \A o \in S : /\ OrderSpec[o].side * old[o].filled \in Int
                        /\ OrderSpec[o].side * new[o].filled \in Int
                        /\ o # y => new[o] = old[o]
    PROVE  Filled(new, S) = Filled(old, S) - OrderSpec[y].side * old[y].filled
                                           + OrderSpec[y].side * new[y].filled
<1> DEFINE f == [o \in S |-> OrderSpec[o].side * old[o].filled]
           e == [o \in S |-> OrderSpec[o].side * new[o].filled]
<1>1. Summable(f, S) /\ Summable(e, S) /\ (\A x \in S : x # y => e[x] = f[x])
  BY DEF Summable
<1>2. f[y] = OrderSpec[y].side * old[y].filled /\ e[y] = OrderSpec[y].side * new[y].filled
  OBVIOUS
<1>3. Filled(old, S) = SumOver(f, S) /\ Filled(new, S) = SumOver(e, S)
  BY FilledIs
<1> HIDE DEF f, e
<1>4. SumOver(e, S) = SumOver(f, S) - f[y] + e[y]
  BY <1>1, SumChange
<1> QED
  BY <1>2, <1>3, <1>4

\* A fill added to the ledger moves the replayed position by its signed
\* quantity.
LEMMA ReplayedAdds ==
    ASSUME NEW S, IsFiniteSet(S), NEW y, y \notin S, \A g \in S \cup {y} : Signed(g) \in Int
    PROVE  Replayed(S \cup {y}) = Replayed(S) + Signed(y)
<1> DEFINE T == S \cup {y}
           f == [g \in S |-> Signed(g)]
           e == [g \in T |-> Signed(g)]
<1>1. IsFiniteSet(T)
  BY FS_AddElement
<1>2. Summable(e, T) /\ (\A x \in S : e[x] = f[x]) /\ e[y] = Signed(y)
  BY DEF Summable
<1>3. Replayed(S) = SumOver(f, S) /\ Replayed(T) = SumOver(e, T)
  BY <1>1, ReplayedIs
<1> HIDE DEF f, e
<1>4. SumOver(e, S) = SumOver(f, S)
  BY <1>2, SumSame
<1>5. SumOver(e, T) = SumOver(e, S) + e[y]
  BY <1>2, SumAdd
<1> QED
  BY <1>2, <1>3, <1>4, <1>5

\* Nothing filled, nothing replayed.
LEMMA EmptyBooks ==
    /\ \A rows : AtRisk(rows, {}) = 0 /\ Filled(rows, {}) = 0
    /\ Replayed({}) = 0
BY AtRiskIs, FilledIs, ReplayedIs, SumEmpty, FS_EmptySet

-------------------------------------------------------------------------------
(* The rows.                                                               *)

\* What ReservationMatchesOrder says of one row.
RowMatches(o, row) ==
    /\ row.working + row.converted + row.released = OrderSpec[o].quantity
    /\ row.converted = row.filled
    /\ row.state \in TERMINAL <=> row.working = 0
    /\ row.released > 0 => row.state = "CANCELLED"
    /\ row.reservation = CASE row.state = "UNKNOWN_RECONCILING" -> "UNRECONCILED"
                           [] row.state = "ACKNOWLEDGED" -> "HELD"
                           [] row.state = "CANCELLED" /\ row.filled = 0 -> "RELEASED"
                           [] OTHER -> "CONVERTED"

\* What the order lifecycle's table of transitions allows, as the operations
\* ask for it.
LEMMA Lifecycle ==
    /\ DOMAIN TRANSITIONS = {"ACKNOWLEDGED", "UNKNOWN_RECONCILING", "PARTIALLY_FILLED",
                             "CANCEL_PENDING", "FILLED", "CANCELLED"}
    /\ \A s \in DOMAIN TRANSITIONS : s \in TERMINAL => TRANSITIONS[s] = {}
    /\ \A s \in DOMAIN TRANSITIONS :
          "CANCEL_PENDING" \in TRANSITIONS[s] => s \in {"ACKNOWLEDGED", "PARTIALLY_FILLED"}
    /\ \A s \in DOMAIN TRANSITIONS :
          "UNKNOWN_RECONCILING" \in TRANSITIONS[s] => s \in {"ACKNOWLEDGED", "CANCEL_PENDING"}
BY DEF TRANSITIONS, TERMINAL

\* What the constants say of an order.
LEMMA SpecOf ==
    ASSUME NEW o \in Orders
    PROVE  /\ OrderSpec[o].run \in Runs
           /\ OrderSpec[o].instrument \in Instruments
           /\ OrderSpec[o].quantity \in Nat \ {0}
           /\ OrderSpec[o].side \in {1, -1}
           /\ OrderSpec[o].pool \in Pools
BY PaperConstants DEF PaperConstants, Pools

\* A stored order has a row that is well formed and matches its reservation.
LEMMA RowOf ==
    ASSUME TypeOK, ReservationMatchesOrder, NEW o \in Placed
    PROVE  /\ o \in Orders
           /\ order[o] \in OrderRow
           /\ RowMatches(o, order[o])
BY DEF TypeOK, Placed, ReservationMatchesOrder, RowMatches

\* Amounts of a row are integers, with their side too.
LEMMA RowAmounts ==
    ASSUME NEW o \in Orders, NEW row \in OrderRow
    PROVE  /\ row.filled \in Nat /\ row.working \in Nat
           /\ row.converted \in Nat /\ row.released \in Nat
           /\ row.working + row.converted \in Int
           /\ OrderSpec[o].side * row.filled \in Int
<1>1. /\ row.filled \in Nat /\ row.working \in Nat
      /\ row.converted \in Nat /\ row.released \in Nat
  BY DEF OrderRow
<1>2. OrderSpec[o].side * row.filled \in Int
  <2>1. OrderSpec[o].side = 1 \/ OrderSpec[o].side = -1
    BY SpecOf
  <2> QED
    BY ONLY <1>1, <2>1
<1> QED
  BY <1>1, <1>2

\* A row cancelled while working: nothing of its risk is lost, and what filled
\* stays filled.
LEMMA CancelledRow ==
    ASSUME NEW o \in Orders, order[o] \in OrderRow, RowMatches(o, order[o]),
           order[o].state \notin TERMINAL
    PROVE  /\ CancelledOrder(o) \in OrderRow
           /\ RowMatches(o, CancelledOrder(o))
           /\ CancelledOrder(o).filled = order[o].filled
           /\ CancelledOrder(o).working + CancelledOrder(o).converted
                <= order[o].working + order[o].converted
<1> DEFINE row == order[o]
           q == OrderSpec[o].quantity
<1>1. q \in Nat \ {0}
  BY SpecOf
<1>2. /\ row.filled \in Nat /\ row.working \in Nat
      /\ row.converted \in Nat /\ row.released \in Nat
  BY RowAmounts
<1>3. row.released = 0 /\ row.working + row.converted = q /\ row.converted = row.filled
  BY <1>2 DEF RowMatches, TERMINAL
<1>4. q - row.converted \in Nat /\ q - row.converted > 0
  BY <1>1, <1>2, <1>3 DEF RowMatches
<1>5. PICK v \in {"CONVERTED", "RELEASED"} :
          v = IF row.converted > 0 THEN "CONVERTED" ELSE "RELEASED"
  OBVIOUS
<1>6. CancelledOrder(o) = [row EXCEPT !.state = "CANCELLED", !.working = 0,
                                      !.released = q - row.converted, !.reservation = v]
  BY <1>5 DEF CancelledOrder
<1>7. CancelledOrder(o) = [state |-> "CANCELLED", filled |-> row.filled, working |-> 0,
                           converted |-> row.converted, released |-> q - row.converted,
                           reservation |-> v]
  BY <1>6 DEF OrderRow
<1> HIDE DEF row, q
<1>8. CancelledOrder(o) \in OrderRow
  BY <1>2, <1>4, <1>7, Lifecycle DEF OrderRow
<1>9. RowMatches(o, CancelledOrder(o))
  <2>1. 0 + row.converted + (q - row.converted) = q
    BY <1>1, <1>2
  <2> QED
    BY <1>2, <1>3, <1>4, <1>5, <1>7, <2>1 DEF RowMatches, TERMINAL, q
<1> QED
  BY <1>2, <1>7, <1>8, <1>9 DEF row

\* The rows of a pool, or of a book, are finitely many stored orders.
LEMMA FiniteBooks ==
    ASSUME Ledger
    PROVE  \A r, x : /\ InPool(r, x) \subseteq Placed /\ IsFiniteSet(InPool(r, x))
                     /\ InBook(r, x) \subseteq Placed /\ IsFiniteSet(InBook(r, x))
<1> TAKE r, x
<1>1. InPool(r, x) \subseteq Placed /\ InBook(r, x) \subseteq Placed
  BY DEF InPool, InBook
<1> QED
  BY <1>1, FS_Subset DEF Ledger

-------------------------------------------------------------------------------
(* What the steps share.                                                   *)

\* Operations that store no order and no fill leave the books as they are.
LEMMA BooksUntouched ==
    ASSUME Inv, UNCHANGED <<order, fills, position, cash>>
    PROVE  Ledger' /\ ReservationMatchesOrder' /\ PoolLimit' /\ PositionMatchesOrders'
<1>1. Placed' = Placed
  BY DEF Placed
<1>2. Ledger'
  <2>1. \A r, i : LedgerOf(r, i)' = LedgerOf(r, i)
    BY DEF LedgerOf
  <2> QED
    BY <1>1, <2>1 DEF Inv, Ledger
<1>3. ReservationMatchesOrder'
  BY <1>1 DEF Inv, ReservationMatchesOrder
<1>4. PoolLimit'
  <2>1. \A r, x : InPool(r, x)' = InPool(r, x)
    BY <1>1 DEF InPool
  <2> QED
    BY <2>1 DEF Inv, PoolLimit, InPool
<1>5. PositionMatchesOrders'
  <2> SUFFICES ASSUME NEW r \in Runs, NEW i \in Instruments
               PROVE  position'[<<r, i>>] = Filled(order', InBook(r, i)')
    BY DEF PositionMatchesOrders, InBook
  <2>1. InBook(r, i)' = InBook(r, i)
    BY <1>1 DEF InBook
  <2>2. position[<<r, i>>] = Filled(order, InBook(r, i))
    BY DEF Inv, PositionMatchesOrders, InBook
  <2> QED
    BY <2>1, <2>2
<1> QED
  BY <1>2, <1>3, <1>4, <1>5

\* Operations on stored orders that let no reservation grow keep every pool
\* within its limit.
LEMMA RiskShrinks ==
    ASSUME Inv, Placed' = Placed,
           \A o \in Placed :
              /\ order'[o] \in OrderRow
              /\ order'[o].working + order'[o].converted <= order[o].working + order[o].converted
    PROVE  PoolLimit'
<1> SUFFICES ASSUME NEW r \in Runs, NEW pool \in Pools
             PROVE  AtRisk(order', InPool(r, pool)') <= MaxPortfolio
  BY DEF PoolLimit, InPool
<1>1. InPool(r, pool)' = InPool(r, pool)
  BY DEF InPool
<1>2. InPool(r, pool) \subseteq Placed /\ IsFiniteSet(InPool(r, pool))
  BY FiniteBooks DEF Inv
<1>3. \A o \in InPool(r, pool) :
          /\ order[o].working + order[o].converted \in Int
          /\ order'[o].working + order'[o].converted \in Int
  BY <1>2, RowOf, RowAmounts DEF Inv
<1>4. AtRisk(order', InPool(r, pool)) <= AtRisk(order, InPool(r, pool))
  BY <1>2, <1>3, AtRiskShrinks
<1>5. AtRisk(order, InPool(r, pool)) <= MaxPortfolio
  BY DEF Inv, PoolLimit, InPool
<1>6. AtRisk(order, InPool(r, pool)) \in Int /\ AtRisk(order', InPool(r, pool)) \in Int
  BY <1>2, <1>3, AtRiskInt
<1>7. MaxPortfolio \in Nat
  BY PaperConstants DEF PaperConstants
<1> QED
  BY <1>1, <1>4, <1>5, <1>6, <1>7

\* Operations on stored orders that fill nothing leave position and ledger in
\* agreement with the orders.
LEMMA NothingFilled ==
    ASSUME Inv, Placed' = Placed, UNCHANGED <<fills, position, cash>>,
           \A o \in Placed : order'[o].filled = order[o].filled
    PROVE  Ledger' /\ PositionMatchesOrders'
<1>1. Ledger'
  <2>1. \A r, i : LedgerOf(r, i)' = LedgerOf(r, i)
    BY DEF LedgerOf
  <2> QED
    BY <2>1 DEF Inv, Ledger
<1>2. PositionMatchesOrders'
  <2> SUFFICES ASSUME NEW r \in Runs, NEW i \in Instruments
               PROVE  position[<<r, i>>] = Filled(order', InBook(r, i)')
    BY DEF PositionMatchesOrders, InBook
  <2>1. InBook(r, i)' = InBook(r, i)
    BY DEF InBook
  <2>2. InBook(r, i) \subseteq Placed /\ IsFiniteSet(InBook(r, i))
    BY FiniteBooks DEF Inv
  <2>3. Filled(order', InBook(r, i)) = Filled(order, InBook(r, i))
    BY <2>2, FilledSame
  <2>4. position[<<r, i>>] = Filled(order, InBook(r, i))
    BY DEF Inv, PositionMatchesOrders, InBook
  <2> QED
    BY <2>1, <2>3, <2>4
<1> QED
  BY <1>1, <1>2

\* Callers are not affected by what other operations store.
LEMMA CallersUntouched ==
    ASSUME Inv, UNCHANGED <<worker, clock>>, Placed \subseteq Placed'
    PROVE  Callers'
BY DEF Inv, Callers

-------------------------------------------------------------------------------
(* One lemma per operation.                                                *)

\* Runs start and restart only to reconcile, and reconcile consults the latch.
LEMMA RunSteps ==
    ASSUME Inv, NEW r \in Runs, RunStep(r)
    PROVE  Inv'
<1>1. UNCHANGED <<order, fills, position, cash, latches, worker, clock>>
  BY DEF RunStep, start_run, reconcile, restart, stop
<1>2. TypeOK' /\ NoActiveRunUnderGlobalLatch'
  <2>1. CASE \/ start_run(r) \/ restart(r)
             \/ \E market_data_valid \in BOOLEAN : reconcile(r, market_data_valid)
    <3>1. PICK v \in {"RECONCILE_ONLY", "ACTIVE"} :
              /\ run' = [run EXCEPT ![r] = v]
              /\ v = "ACTIVE" => GlobalScope \notin latches
      BY <2>1 DEF start_run, restart, reconcile, ReconciledStatus
    <3>2. stops' = stops
      BY <2>1 DEF start_run, restart, reconcile
    <3> QED
      BY <1>1, <3>1, <3>2 DEF Inv, TypeOK, NoActiveRunUnderGlobalLatch
  <2>2. CASE \E scope \in StopScopes : stop(r, scope)
    BY <1>1, <2>2 DEF stop, Inv, TypeOK, NoActiveRunUnderGlobalLatch
  <2> QED
    BY <2>1, <2>2 DEF RunStep
<1>3. Placed \subseteq Placed'
  BY <1>1 DEF Placed
<1> QED
  BY <1>1, <1>2, <1>3, BooksUntouched, CallersUntouched DEF Inv

\* Setting a latch cancels what it covers and takes every run out of trading
\* when it is global; releasing one changes no run.
LEMMA LatchSteps ==
    ASSUME Inv, NEW scope \in LatchScopes, LatchStep(scope)
    PROVE  Inv'
<1>1. CASE emergency_stop(scope)
  <2>1. UNCHANGED <<fills, position, cash, stops, worker, clock>>
    BY <1>1 DEF emergency_stop
  <2>2. ASSUME NEW o \in Placed
        PROVE  \/ order'[o] = order[o]
               \/ order'[o] = CancelledOrder(o) /\ order[o].state \notin TERMINAL
    BY <1>1 DEF emergency_stop, Cancellable, TERMINAL, Placed
  <2>3. ASSUME NEW o \in Placed
        PROVE  /\ order'[o] \in OrderRow
               /\ RowMatches(o, order'[o])
               /\ order'[o].filled = order[o].filled
               /\ order'[o].working + order'[o].converted <= order[o].working + order[o].converted
    <3>1. o \in Orders /\ order[o] \in OrderRow /\ RowMatches(o, order[o])
      BY RowOf DEF Inv
    <3>2. order[o].working + order[o].converted <= order[o].working + order[o].converted
      BY <3>1, RowAmounts
    <3>3. CASE order'[o] = order[o]
      BY <3>1, <3>2, <3>3
    <3>4. CASE order'[o] = CancelledOrder(o) /\ order[o].state \notin TERMINAL
      BY <3>1, <3>4, CancelledRow
    <3> QED
      BY <2>2, <3>3, <3>4
  <2>4. \A o \in Orders : o \notin Placed => order'[o] = NoOrder
    BY <1>1 DEF emergency_stop, Cancellable, Placed
  <2>5. Placed' = Placed
    BY <2>3, <2>4, NoOrderIsNoRow DEF Placed
  <2>6. order' \in [Orders -> OrderRow \cup {NoOrder}]
    <3>1. DOMAIN order' = Orders /\ order' = [o \in Orders |-> order'[o]]
      BY <1>1 DEF emergency_stop
    <3>2. \A o \in Orders : order'[o] \in OrderRow \cup {NoOrder}
      BY <2>3, <2>4
    <3> QED
      BY <3>1, <3>2
  <2>7. TypeOK'
    <3>1. run' \in [Runs -> {"NONE", "RECONCILE_ONLY", "ACTIVE"}]
      BY <1>1 DEF emergency_stop, Inv, TypeOK
    <3>2. latches' \subseteq LatchScopes
      BY <1>1 DEF emergency_stop, Inv, TypeOK
    <3> QED
      BY <2>1, <2>6, <3>1, <3>2 DEF Inv, TypeOK
  <2>8. NoActiveRunUnderGlobalLatch'
    <3> SUFFICES ASSUME GlobalScope \in latches', NEW r \in Runs PROVE run'[r] # "ACTIVE"
      BY DEF NoActiveRunUnderGlobalLatch
    <3>1. CASE scope = GlobalScope
      BY <1>1, <3>1 DEF emergency_stop
    <3>2. CASE scope # GlobalScope
      <4>1. run[r] # "ACTIVE"
        BY <1>1, <3>2 DEF emergency_stop, Inv, NoActiveRunUnderGlobalLatch
      <4> QED
        BY <1>1, <3>2, <4>1 DEF emergency_stop
    <3> QED
      BY <3>1, <3>2
  <2>9. ReservationMatchesOrder'
    BY <2>3, <2>5 DEF ReservationMatchesOrder, RowMatches
  <2>10. PoolLimit'
    BY <2>3, <2>5, RiskShrinks
  <2>11. Ledger' /\ PositionMatchesOrders'
    BY <2>1, <2>3, <2>5, NothingFilled
  <2>12. Callers'
    BY <2>1, <2>5, CallersUntouched
  <2> QED
    BY <2>7, <2>8, <2>9, <2>10, <2>11, <2>12 DEF Inv
<1>2. CASE release_emergency_stop(scope)
  <2>1. UNCHANGED <<run, order, fills, position, cash, stops, worker, clock>>
    BY <1>2 DEF release_emergency_stop
  <2>2. TypeOK' /\ NoActiveRunUnderGlobalLatch'
    BY <1>2, <2>1 DEF release_emergency_stop, Inv, TypeOK, NoActiveRunUnderGlobalLatch
  <2>3. Placed \subseteq Placed'
    BY <2>1 DEF Placed
  <2> QED
    BY <2>1, <2>2, <2>3, BooksUntouched, CallersUntouched DEF Inv
<1> QED
  BY <1>1, <1>2 DEF LatchStep

\* submit checks the pool under the lock that it stores the order under.
LEMMA SubmitStep ==
    ASSUME Inv, NEW o \in Orders, submit(o)
    PROVE  Inv'
<1> DEFINE q == OrderSpec[o].quantity
           row == [state |-> "ACKNOWLEDGED", filled |-> 0, reservation |-> "HELD",
                   working |-> q, converted |-> 0, released |-> 0]
<1>1. UNCHANGED <<run, fills, position, cash, stops, latches, worker, clock>>
  BY DEF submit
<1>2. q \in Nat \ {0}
  BY SpecOf
<1>3. order \in [Orders -> OrderRow \cup {NoOrder}]
  BY DEF Inv, TypeOK
<1>4. order' = [order EXCEPT ![o] = row]
  BY DEF submit
<1>5. row \in OrderRow
  BY <1>2, Lifecycle DEF OrderRow
<1>6. RowMatches(o, row) /\ row.working + row.converted = q /\ row.filled = 0
  BY <1>2 DEF RowMatches, TERMINAL
<1> HIDE DEF row
<1>7. order' \in [Orders -> OrderRow \cup {NoOrder}]
  BY <1>3, <1>4, <1>5
<1>8. order'[o] = row /\ \A p \in Orders : p # o => order'[p] = order[p]
  BY <1>3, <1>4
<1>9. Placed' = Placed \cup {o} /\ o \notin Placed
  BY <1>5, <1>8, NoOrderIsNoRow DEF Placed, submit
<1>10. \A p \in Placed : p \in Orders /\ p # o /\ order'[p] = order[p]
  BY <1>8, <1>9 DEF Placed
<1>11. TypeOK'
  BY <1>1, <1>7 DEF Inv, TypeOK
<1>12. Callers'
  BY <1>1, <1>9, CallersUntouched
<1>13. ReservationMatchesOrder'
  <2> SUFFICES ASSUME NEW p \in Placed' PROVE RowMatches(p, order'[p])
    BY DEF ReservationMatchesOrder, RowMatches
  <2>1. CASE p = o
    BY <1>6, <1>8, <2>1
  <2>2. CASE p # o
    BY <1>9, <1>10, <2>2, RowOf DEF Inv
  <2> QED
    BY <2>1, <2>2
<1>14. Ledger'
  <2>1. IsFiniteSet(Placed')
    BY <1>9, FS_AddElement DEF Inv, Ledger
  <2>2. \A r, i : LedgerOf(r, i)' = LedgerOf(r, i)
    BY <1>1 DEF LedgerOf
  <2> QED
    BY <1>1, <2>1, <2>2 DEF Inv, Ledger
<1>15. PoolLimit'
  <2> SUFFICES ASSUME NEW r \in Runs, NEW pool \in Pools
               PROVE  AtRisk(order', InPool(r, pool)') <= MaxPortfolio
    BY DEF PoolLimit, InPool
  <2> DEFINE S == InPool(r, pool)
  <2>1. S \subseteq Placed /\ IsFiniteSet(S)
    BY FiniteBooks DEF Inv
  <2>2. \A p \in S : order[p].working + order[p].converted \in Int
    BY <2>1, RowOf, RowAmounts DEF Inv
  <2>3. AtRisk(order, S) <= MaxPortfolio
    BY DEF Inv, PoolLimit, InPool
  <2>4. CASE ~(OrderSpec[o].run = r /\ OrderSpec[o].pool = pool)
    <3>1. InPool(r, pool)' = S
      BY <1>9, <2>4 DEF InPool
    <3>2. AtRisk(order', S) <= AtRisk(order, S)
      <4>1. \A p \in S : /\ order'[p] = order[p]
                         /\ order[p].working + order[p].converted
                              <= order[p].working + order[p].converted
        BY <1>10, <2>1, <2>2
      <4> HIDE DEF S
      <4>2. \A p \in S : /\ order[p].working + order[p].converted \in Int
                         /\ order'[p].working + order'[p].converted \in Int
                         /\ order'[p].working + order'[p].converted
                              <= order[p].working + order[p].converted
        BY <2>2, <4>1
      <4> QED
        BY <2>1, <4>2, AtRiskShrinks
    <3>3. AtRisk(order, S) \in Int /\ AtRisk(order', S) \in Int
      BY <1>10, <2>1, <2>2, AtRiskInt
    <3>4. MaxPortfolio \in Nat
      BY PaperConstants DEF PaperConstants
    <3> QED
      BY <2>3, <3>1, <3>2, <3>3, <3>4
  <2>5. CASE OrderSpec[o].run = r /\ OrderSpec[o].pool = pool
    <3> DEFINE T == {p \in S : order[p].reservation # "RELEASED"}
    <3>1. InPool(r, pool)' = S \cup {o} /\ o \notin S
      BY <1>9, <2>5 DEF InPool
    <3>2. ActiveRisk(r, pool) = AtRisk(order, T)
      <4>1. {p \in Placed : /\ OrderSpec[p].run = r
                            /\ OrderSpec[p].pool = pool
                            /\ order[p].reservation # "RELEASED"} = T
        BY DEF InPool
      <4> QED
        BY <4>1 DEF ActiveRisk
    <3>3. \A p \in S \ T : order[p].working + order[p].converted = 0
      <4> SUFFICES ASSUME NEW p \in S, order[p].reservation = "RELEASED"
                   PROVE  order[p].working + order[p].converted = 0
        OBVIOUS
      <4>1. p \in Orders /\ order[p] \in OrderRow /\ RowMatches(p, order[p])
        BY <2>1, RowOf DEF Inv
      <4>2. order[p].state = "CANCELLED" /\ order[p].filled = 0
        BY <4>1 DEF RowMatches
      <4>3. order[p].working = 0 /\ order[p].converted = 0
        BY <4>1, <4>2 DEF RowMatches, TERMINAL
      <4> QED
        BY <4>3
    <3>4. AtRisk(order, T) = AtRisk(order, S)
      <4>1. T \in SUBSET S
        OBVIOUS
      <4> HIDE DEF S, T
      <4> QED
        BY <2>1, <2>2, <3>3, <4>1, AtRiskSkips
    <3>5. ActiveRisk(r, pool) + q <= MaxPortfolio
      BY <2>5 DEF submit, pretrade_check
    <3>6. AtRisk(order', S \cup {o}) = AtRisk(order, S) + (order'[o].working + order'[o].converted)
      <4>1. \A p \in S : order'[p] = order[p]
        BY <1>10, <2>1
      <4>2. order'[o].working + order'[o].converted \in Int
        BY <1>2, <1>6, <1>8
      <4> HIDE DEF S
      <4> QED
        BY <2>1, <2>2, <3>1, <4>1, <4>2, AtRiskAdds
    <3> HIDE DEF S, T
    <3> QED
      BY <1>6, <1>8, <3>1, <3>2, <3>4, <3>5, <3>6
  <2> QED
    BY <2>4, <2>5
<1>16. PositionMatchesOrders'
  <2> SUFFICES ASSUME NEW r \in Runs, NEW i \in Instruments
               PROVE  position'[<<r, i>>] = Filled(order', InBook(r, i)')
    BY DEF PositionMatchesOrders, InBook
  <2> DEFINE S == InBook(r, i)
  <2>1. S \subseteq Placed /\ IsFiniteSet(S)
    BY FiniteBooks DEF Inv
  <2>2. position'[<<r, i>>] = Filled(order, S)
    BY <1>1 DEF Inv, PositionMatchesOrders, InBook
  <2>3. \A p \in S : /\ OrderSpec[p].side * order[p].filled \in Int
                     /\ order'[p] = order[p]
    BY <1>10, <2>1, RowOf, RowAmounts DEF Inv
  <2>4. CASE ~(OrderSpec[o].run = r /\ OrderSpec[o].instrument = i)
    <3>1. InBook(r, i)' = S
      BY <1>9, <2>4 DEF InBook
    <3> HIDE DEF S
    <3> QED
      BY <2>1, <2>2, <2>3, <3>1, FilledSame
  <2>5. CASE OrderSpec[o].run = r /\ OrderSpec[o].instrument = i
    <3>1. InBook(r, i)' = S \cup {o} /\ o \notin S
      BY <1>9, <2>5 DEF InBook
    <3>2. OrderSpec[o].side * order'[o].filled = 0
      <4>1. OrderSpec[o].side \in {1, -1} /\ order'[o].filled = 0
        BY <1>6, <1>8, SpecOf
      <4> QED
        BY <4>1
    <3> HIDE DEF S
    <3> QED
      BY <2>1, <2>2, <2>3, <3>1, <3>2, FilledAdds
  <2> QED
    BY <2>4, <2>5
<1>17. NoActiveRunUnderGlobalLatch'
  BY <1>1 DEF Inv, NoActiveRunUnderGlobalLatch
<1> QED
  BY <1>11, <1>12, <1>13, <1>14, <1>15, <1>16, <1>17 DEF Inv

\* cancel and mark_unknown rewrite one working order.
LEMMA RewriteSteps ==
    ASSUME Inv, NEW o \in Orders, mark_unknown(o) \/ cancel(o)
    PROVE  Inv'
<1>1. UNCHANGED <<run, fills, position, cash, stops, latches, worker, clock>>
  BY DEF mark_unknown, cancel
<1>2. o \in Placed /\ order[o] \in OrderRow /\ RowMatches(o, order[o])
  BY RowOf DEF Inv, mark_unknown, cancel
<1>3. order \in [Orders -> OrderRow \cup {NoOrder}]
  BY DEF Inv, TypeOK
<1>4. \E row \in OrderRow :
         /\ order' = [order EXCEPT ![o] = row]
         /\ RowMatches(o, row)
         /\ row.filled = order[o].filled
         /\ row.working + row.converted <= order[o].working + order[o].converted
  <2>1. order[o].state \in DOMAIN TRANSITIONS
    BY <1>2 DEF OrderRow
  <2>2. CASE cancel(o)
    <3>1. order[o].state \notin TERMINAL
      BY <2>1, <2>2, Lifecycle DEF cancel, MayBecome
    <3> QED
      BY <1>2, <2>2, <3>1, CancelledRow DEF cancel
  <2>3. CASE mark_unknown(o)
    <3> DEFINE row == [order[o] EXCEPT !.state = "UNKNOWN_RECONCILING",
                                       !.reservation = "UNRECONCILED"]
    <3>1. order[o].state \notin TERMINAL
      BY <2>1, <2>3, Lifecycle DEF mark_unknown, MayBecome
    <3>2. row = [state |-> "UNKNOWN_RECONCILING", filled |-> order[o].filled,
                 working |-> order[o].working, converted |-> order[o].converted,
                 released |-> order[o].released, reservation |-> "UNRECONCILED"]
      <4>1. row = [order[o] EXCEPT !.state = "UNKNOWN_RECONCILING",
                                   !.reservation = "UNRECONCILED"]
        OBVIOUS
      <4> HIDE DEF row
      <4> QED
        BY <1>2, <4>1 DEF OrderRow
    <3>3. order' = [order EXCEPT ![o] = row]
      BY <1>3, <2>3 DEF mark_unknown
    <3> HIDE DEF row
    <3>4. row \in OrderRow
      BY <1>2, <3>2, Lifecycle DEF OrderRow
    <3>5. RowMatches(o, row)
      <4>1. ~(order[o].released > 0) /\ order[o].working # 0
        BY <1>2, <3>1 DEF RowMatches, TERMINAL
      <4> QED
        BY <1>2, <3>2, <4>1 DEF RowMatches, TERMINAL
    <3>6. row.working + row.converted <= order[o].working + order[o].converted
      BY <1>2, <3>2, RowAmounts
    <3> QED
      BY <3>2, <3>3, <3>4, <3>5, <3>6
  <2> QED
    BY <2>2, <2>3
<1>5. PICK row \in OrderRow :
         /\ order' = [order EXCEPT ![o] = row]
         /\ RowMatches(o, row)
         /\ row.filled = order[o].filled
         /\ row.working + row.converted <= order[o].working + order[o].converted
  BY <1>4
<1>6. order' \in [Orders -> OrderRow \cup {NoOrder}]
  BY <1>3, <1>5
<1>7. order'[o] = row /\ \A p \in Orders : p # o => order'[p] = order[p]
  BY <1>3, <1>5
<1>8. Placed' = Placed
  BY <1>2, <1>7, NoOrderIsNoRow DEF Placed
<1>9. ASSUME NEW p \in Placed
      PROVE  /\ order'[p] \in OrderRow
             /\ RowMatches(p, order'[p])
             /\ order'[p].filled = order[p].filled
             /\ order'[p].working + order'[p].converted <= order[p].working + order[p].converted
  <2>1. CASE p = o
    BY <1>5, <1>7, <2>1
  <2>2. CASE p # o
    <3>1. p \in Orders /\ order[p] \in OrderRow /\ RowMatches(p, order[p])
      BY RowOf DEF Inv
    <3>2. order[p].working + order[p].converted <= order[p].working + order[p].converted
      BY <3>1, RowAmounts
    <3> QED
      BY <1>7, <2>2, <3>1, <3>2
  <2> QED
    BY <2>1, <2>2
<1>10. TypeOK'
  BY <1>1, <1>6 DEF Inv, TypeOK
<1>11. ReservationMatchesOrder'
  BY <1>8, <1>9 DEF ReservationMatchesOrder, RowMatches
<1>12. PoolLimit'
  BY <1>8, <1>9, RiskShrinks
<1>13. Ledger' /\ PositionMatchesOrders'
  BY <1>1, <1>8, <1>9, NothingFilled
<1>14. Callers'
  BY <1>1, <1>8, CallersUntouched
<1>15. NoActiveRunUnderGlobalLatch'
  BY <1>1 DEF Inv, NoActiveRunUnderGlobalLatch
<1> QED
  BY <1>10, <1>11, <1>12, <1>13, <1>14, <1>15 DEF Inv

Caller == [phase: {"idle", "simulated", "waiting"}, fill: Fill \cup {NoFill}, started: Nat]

\* Simulating, opening the transaction and leaving change the caller alone.
LEMMA CallerSteps ==
    ASSUME Inv, NEW w \in Workers,
           \/ \E o \in Orders, t \in Times : \E n \in 1..OrderSpec[o].quantity :
                 simulate_order(w, o, n, t)
           \/ OpenFill(w)
           \/ Leave(w)
    PROVE  Inv'
<1>1. UNCHANGED <<run, order, fills, position, cash, stops, latches>>
  BY DEF simulate_order, OpenFill, Leave
<1>2. Placed' = Placed
  BY <1>1 DEF Placed
<1>3. worker \in [Workers -> Caller] /\ clock \in 0..MaxStarts /\ MaxStarts \in Nat
  BY PaperConstants DEF Inv, Callers, Caller, TypeOK, PaperConstants
<1> DEFINE Moves(c) ==
         /\ worker' = [worker EXCEPT ![w] = c]
         /\ c.phase # "idle" => c.fill \in Fill /\ c.fill.order \in Placed
         /\ c.phase = "waiting" => c.started \in 1..clock'
         /\ clock' \in clock..MaxStarts
<1>4. \E c \in Caller : Moves(c)
  <2>1. ASSUME NEW o \in Orders, NEW t \in Times, NEW n \in 1..OrderSpec[o].quantity,
               simulate_order(w, o, n, t)
        PROVE  \E c \in Caller : Moves(c)
    <3> DEFINE f == [order |-> o, quantity |-> n, time |-> t]
               c == [phase |-> "simulated", started |-> 0, fill |-> f]
    <3>1. n \in Nat \ {0} /\ t \in Nat
      <4>1. OrderSpec[o].quantity \in Nat
        BY SpecOf
      <4>2. Times \subseteq Nat
        BY PaperConstants DEF PaperConstants
      <4> QED
        BY <4>1, <4>2
    <3>2. f \in Fill /\ f.order \in Placed
      BY <2>1, <3>1 DEF Fill, simulate_order
    <3>3. c \in Caller /\ c.phase = "simulated" /\ c.fill = f
      <4> HIDE DEF f
      <4> QED
        BY <3>2 DEF Caller
    <3>4. worker' = [worker EXCEPT ![w] = c] /\ clock' = clock
      BY <2>1 DEF simulate_order
    <3>5. clock' \in clock..MaxStarts
      BY <1>3, <3>4
    <3> HIDE DEF c, f
    <3>6. Moves(c)
      BY <3>2, <3>3, <3>4, <3>5
    <3> QED
      BY <3>3, <3>6
  <2>2. ASSUME OpenFill(w) PROVE \E c \in Caller : Moves(c)
    <3>1. PICK a \in Caller : a = worker[w]
      BY <1>3
    <3>2. a.phase = "simulated" /\ clock < MaxStarts /\ clock' = clock + 1
      BY <2>2, <3>1 DEF OpenFill
    <3>3. a.fill \in Fill /\ a.fill.order \in Placed
      BY <3>1, <3>2 DEF Inv, Callers
    <3> DEFINE c == [phase |-> "waiting", fill |-> a.fill, started |-> clock + 1]
    <3>4. worker' = [worker EXCEPT ![w] = [worker[w] EXCEPT !.phase = "waiting",
                                                            !.started = clock + 1]]
      BY <1>3, <2>2 DEF OpenFill
    <3>5. [worker[w] EXCEPT !.phase = "waiting", !.started = clock + 1] = c
      <4> DEFINE e == [worker[w] EXCEPT !.phase = "waiting", !.started = clock + 1]
      <4>1. e = [a EXCEPT !.phase = "waiting", !.started = clock + 1]
        BY <3>1
      <4> HIDE DEF e
      <4>2. e = c
        BY <3>1, <4>1 DEF Caller
      <4> QED
        BY <4>2 DEF e
    <3>6. clock + 1 \in Nat /\ clock' \in clock..MaxStarts /\ clock + 1 \in 1..clock'
      BY <1>3, <3>2
    <3>7. c \in Caller /\ c.fill = a.fill /\ c.started = clock + 1
      BY <3>3, <3>6 DEF Caller
    <3> HIDE DEF c
    <3> QED
      BY <3>3, <3>4, <3>5, <3>6, <3>7
  <2>3. ASSUME Leave(w) PROVE \E c \in Caller : Moves(c)
    <3> DEFINE c == [phase |-> "idle", fill |-> NoFill, started |-> 0]
    <3>1. c \in Caller /\ c.phase = "idle"
      BY DEF Caller
    <3>2. worker' = [worker EXCEPT ![w] = c] /\ clock' = clock
      BY <2>3 DEF Leave
    <3>3. clock' \in clock..MaxStarts
      BY <1>3, <3>2
    <3> HIDE DEF c
    <3>4. Moves(c)
      BY <3>1, <3>2, <3>3
    <3> QED
      BY <3>1, <3>4
  <2> QED
    BY <2>1, <2>2, <2>3
<1>5. PICK c \in Caller : Moves(c)
  BY <1>4
<1>6. worker' \in [Workers -> Caller]
  BY <1>3, <1>5
<1>7. \A v \in Workers : worker'[v] = IF v = w THEN c ELSE worker[v]
  BY <1>3, <1>5
<1>8. 1..clock \subseteq 1..clock'
  BY <1>3, <1>5
<1>9. Callers'
  BY <1>2, <1>5, <1>6, <1>7, <1>8 DEF Inv, Callers, Caller
<1>10. TypeOK'
  <2>1. \A v \in Workers : worker'[v].phase \in {"idle", "simulated", "waiting"}
    BY <1>6 DEF Caller
  <2>2. \A r \in Runs : \A e \in cash'[r] : e.created_at \in 1..clock'
    BY <1>1, <1>8 DEF Inv, TypeOK
  <2>3. clock' \in 0..MaxStarts
    BY <1>3, <1>5
  <2> QED
    BY <1>1, <2>1, <2>2, <2>3 DEF Inv, TypeOK
<1>11. NoActiveRunUnderGlobalLatch'
  BY <1>1 DEF Inv, NoActiveRunUnderGlobalLatch
<1> QED
  BY <1>1, <1>9, <1>10, <1>11, BooksUntouched DEF Inv

\* A recorded fill converts risk of a working order and loses none of it.
LEMMA FilledRow ==
    ASSUME NEW f \in Fill, order[f.order] \in OrderRow, RowMatches(f.order, order[f.order]),
           MayBecome(f.order, Target(f), f.quantity)
    PROVE  /\ FilledOrder(f) \in OrderRow
           /\ RowMatches(f.order, FilledOrder(f))
           /\ FilledOrder(f).filled = order[f.order].filled + f.quantity
           /\ FilledOrder(f).working + FilledOrder(f).converted
                <= order[f.order].working + order[f.order].converted
<1> DEFINE o == f.order
           row == order[o]
           q == OrderSpec[o].quantity
           total == row.filled + f.quantity
<1>1. o \in Orders /\ f.quantity \in Nat \ {0}
  BY DEF Fill
<1>2. q \in Nat \ {0}
  BY <1>1, SpecOf
<1>3. /\ row.filled \in Nat /\ row.working \in Nat
      /\ row.converted \in Nat /\ row.released \in Nat
  BY <1>1, RowAmounts
<1>4. row.state \notin TERMINAL
  <2>1. row.state \in DOMAIN TRANSITIONS
    BY DEF OrderRow
  <2> QED
    BY <2>1, Lifecycle DEF MayBecome
<1>5. row.released = 0 /\ row.working + row.converted = q
  BY <1>3, <1>4 DEF RowMatches, TERMINAL
<1>6. total \in Nat \ {0} /\ q - total \in Nat
  BY <1>1, <1>2, <1>3 DEF MayBecome
<1>7. /\ Target(f) \in {"FILLED", "PARTIALLY_FILLED"}
      /\ Target(f) = "FILLED" <=> q - total = 0
  BY <1>2, <1>6 DEF Target
<1>8. FilledOrder(f) = [state |-> Target(f), filled |-> total, reservation |-> "CONVERTED",
                        working |-> q - total, converted |-> total, released |-> 0]
  BY <1>5 DEF FilledOrder
<1>9. (q - total) + total + 0 = q /\ (q - total) + total <= row.working + row.converted
  BY <1>2, <1>3, <1>5, <1>6
<1> HIDE DEF o, row, q, total
<1>10. FilledOrder(f) \in OrderRow
  BY <1>6, <1>7, <1>8, Lifecycle DEF OrderRow
<1>11. RowMatches(f.order, FilledOrder(f))
  BY <1>6, <1>7, <1>8, <1>9 DEF RowMatches, TERMINAL, q, o
<1> QED
  BY <1>8, <1>9, <1>10, <1>11 DEF o, row, total

\* record_fill stores the fill, the replayed position, the cash entry, the
\* order and its reservation under one lock.
LEMMA RecordStep ==
    ASSUME Inv, NEW w \in Workers, record_fill(w)
    PROVE  Inv'
<1>1. PICK f \in Fill : f = worker[w].fill /\ f.order \in Placed
  BY DEF Inv, Callers, record_fill
<1> DEFINE o == f.order
           r == OrderSpec[o].run
           i == OrderSpec[o].instrument
<1>2. /\ worker[w].phase = "waiting"
      /\ worker' = [worker EXCEPT ![w].phase = "simulated", ![w].started = 0]
      /\ Admissible(f)
      /\ MayBecome(o, Target(f), f.quantity)
      /\ fills' = fills \cup {f}
      /\ position' = [position EXCEPT ![<<r, i>>] = Replayed(LedgerOf(r, i)) + Signed(f)]
      /\ order' = [order EXCEPT ![o] = FilledOrder(f)]
      /\ UNCHANGED <<run, stops, latches, clock>>
  BY <1>1 DEF record_fill
<1>3. o \in Orders /\ r \in Runs /\ i \in Instruments /\ f.quantity \in Nat
  BY <1>1, SpecOf DEF Fill
<1>4. order[o] \in OrderRow /\ RowMatches(o, order[o])
  BY <1>1, RowOf DEF Inv
<1>5. /\ FilledOrder(f) \in OrderRow
      /\ RowMatches(o, FilledOrder(f))
      /\ FilledOrder(f).filled = order[o].filled + f.quantity
      /\ FilledOrder(f).working + FilledOrder(f).converted
           <= order[o].working + order[o].converted
  BY <1>2, <1>4, FilledRow
<1>6. order \in [Orders -> OrderRow \cup {NoOrder}]
  BY DEF Inv, TypeOK
<1>7. order' \in [Orders -> OrderRow \cup {NoOrder}]
  BY <1>2, <1>3, <1>5, <1>6
<1>8. order'[o] = FilledOrder(f) /\ \A p \in Orders : p # o => order'[p] = order[p]
  BY <1>2, <1>3, <1>6
<1>9. Placed' = Placed
  BY <1>1, <1>5, <1>8, NoOrderIsNoRow DEF Placed
<1>10. ASSUME NEW p \in Placed
       PROVE  /\ order'[p] \in OrderRow
              /\ RowMatches(p, order'[p])
              /\ order'[p].working + order'[p].converted <= order[p].working + order[p].converted
  <2>1. CASE p = o
    BY <1>5, <1>8, <2>1
  <2>2. CASE p # o
    <3>1. p \in Orders /\ order[p] \in OrderRow /\ RowMatches(p, order[p])
      BY RowOf DEF Inv
    <3>2. order[p].working + order[p].converted <= order[p].working + order[p].converted
      BY <3>1, RowAmounts
    <3> QED
      BY <1>8, <2>2, <3>1, <3>2
  <2> QED
    BY <2>1, <2>2
<1>11. \A g \in Fill : Signed(g) \in Int
  <2> SUFFICES ASSUME NEW g \in Fill PROVE OrderSpec[g.order].side * g.quantity \in Int
    BY DEF Signed
  <2>1. g.quantity \in Nat /\ g.order \in Orders
    BY DEF Fill
  <2>2. OrderSpec[g.order].side = 1 \/ OrderSpec[g.order].side = -1
    BY <2>1, SpecOf
  <2> QED
    BY ONLY <2>1, <2>2
<1>12. /\ position \in [Runs \X Instruments -> Int]
       /\ position[<<r, i>>] = Replayed(LedgerOf(r, i))
       /\ <<r, i>> \in Runs \X Instruments
  BY <1>3 DEF Inv, TypeOK, Ledger
<1>13. /\ position' \in [Runs \X Instruments -> Int]
       /\ position'[<<r, i>>] = position[<<r, i>>] + Signed(f)
       /\ \A x \in Runs, y \in Instruments :
             ~(x = r /\ y = i) => position'[<<x, y>>] = position[<<x, y>>]
  <2>1. PICK n \in Int : n = position[<<r, i>>] + Signed(f)
    BY <1>11, <1>12
  <2>2. position' = [position EXCEPT ![<<r, i>>] = n]
    BY <1>2, <1>12, <2>1
  <2> HIDE DEF r, i
  <2>3. \A x \in Runs, y \in Instruments :
            ~(x = r /\ y = i) => <<x, y>> # <<r, i>> /\ <<x, y>> \in Runs \X Instruments
    OBVIOUS
  <2> QED
    BY <1>12, <2>1, <2>2, <2>3
<1>14. f \notin fills
  BY <1>2 DEF Admissible, SameKey
<1>15. TypeOK'
  <2>1. worker[w].started \in 1..clock
    BY <1>2 DEF Inv, Callers
  <2>2. DOMAIN cash = Runs
    BY DEF Inv, Ledger
  <2>3. PICK entry : /\ cash' = [cash EXCEPT ![r] = @ \cup {entry}]
                     /\ entry.created_at = worker[w].started
    <3> DEFINE e == [order |-> o, time |-> f.time, created_at |-> worker[w].started,
                     delta |-> -Signed(f), balance_after |-> PriorCash(r) - Signed(f)]
    <3>1. cash' = [cash EXCEPT ![r] = @ \cup {e}]
      BY <1>1 DEF record_fill
    <3>2. e.created_at = worker[w].started
      OBVIOUS
    <3> HIDE DEF e
    <3> QED
      BY <3>1, <3>2
  <2>4. cash'[r] = cash[r] \cup {entry} /\ \A x \in Runs : x # r => cash'[x] = cash[x]
    BY <1>3, <2>2, <2>3
  <2>5. \A x \in Runs : \A e \in cash'[x] : e.created_at \in 1..clock'
    BY <1>2, <2>1, <2>3, <2>4 DEF Inv, TypeOK
  <2>6. \A v \in Workers : worker'[v].phase \in {"idle", "simulated", "waiting"}
    <3>1. worker \in [Workers -> Caller]
      BY DEF Inv, Callers, Caller
    <3> QED
      BY <1>2, <3>1 DEF Inv, TypeOK, Caller
  <2> QED
    BY <1>2, <1>7, <1>13, <2>5, <2>6 DEF Inv, TypeOK
<1>16. Callers'
  <2>1. worker \in [Workers -> Caller]
    BY DEF Inv, Callers, Caller
  <2>2. PICK a \in Caller : a = worker[w]
    BY <2>1
  <2> DEFINE c == [phase |-> "simulated", fill |-> a.fill, started |-> 0]
             e == [worker[w] EXCEPT !.phase = "simulated", !.started = 0]
  <2>3. worker' = [worker EXCEPT ![w] = e]
    BY <1>2, <2>1
  <2>4. e = [a EXCEPT !.phase = "simulated", !.started = 0]
    BY <2>2
  <2> HIDE DEF e
  <2>5. e = c
    BY <2>2, <2>4 DEF Caller
  <2>6. e \in Caller /\ e.phase = "simulated" /\ e.fill = f
    BY <1>1, <2>2, <2>5 DEF Caller
  <2>7. worker' \in [Workers -> Caller]
    BY <2>1, <2>3, <2>6
  <2>8. \A v \in Workers : worker'[v] = IF v = w THEN e ELSE worker[v]
    BY <2>1, <2>3
  <2> QED
    BY <1>1, <1>2, <1>9, <2>6, <2>7, <2>8 DEF Inv, Callers, Caller
<1>17. ReservationMatchesOrder'
  BY <1>9, <1>10 DEF ReservationMatchesOrder, RowMatches
<1>18. PoolLimit'
  BY <1>9, <1>10, RiskShrinks
<1>19. Ledger'
  <2>1. fills' \subseteq Fill /\ IsFiniteSet(fills')
    BY <1>1, <1>2, FS_AddElement DEF Inv, Ledger
  <2>2. DOMAIN cash' = Runs
    BY DEF record_fill, Inv, Ledger
  <2>3. ASSUME NEW x \in Runs, NEW y \in Instruments
        PROVE  position'[<<x, y>>] = Replayed(LedgerOf(x, y)')
    <3>1. position[<<x, y>>] = Replayed(LedgerOf(x, y))
      BY DEF Inv, Ledger
    <3>2. CASE x = r /\ y = i
      <4>1. LedgerOf(x, y)' = LedgerOf(x, y) \cup {f}
        BY <1>2, <3>2 DEF LedgerOf
      <4>2. /\ LedgerOf(x, y) \subseteq fills
            /\ f \notin LedgerOf(x, y)
            /\ \A g \in LedgerOf(x, y) \cup {f} : Signed(g) \in Int
        BY <1>1, <1>11, <1>14 DEF LedgerOf, Inv, Ledger
      <4>3. IsFiniteSet(LedgerOf(x, y))
        BY <4>2, FS_Subset DEF Inv, Ledger
      <4>4. Replayed(LedgerOf(x, y) \cup {f}) = Replayed(LedgerOf(x, y)) + Signed(f)
        BY <4>2, <4>3, ReplayedAdds
      <4> QED
        BY <1>13, <3>1, <3>2, <4>1, <4>4
    <3>3. CASE ~(x = r /\ y = i)
      <4>1. LedgerOf(x, y)' = LedgerOf(x, y)
        BY <1>2, <3>3 DEF LedgerOf
      <4> QED
        BY <1>13, <3>1, <3>3, <4>1
    <3> QED
      BY <3>2, <3>3
  <2>4. IsFiniteSet(Placed')
    BY <1>9 DEF Inv, Ledger
  <2> QED
    BY <2>1, <2>2, <2>3, <2>4 DEF Ledger
<1>20. PositionMatchesOrders'
  <2> SUFFICES ASSUME NEW x \in Runs, NEW y \in Instruments
               PROVE  position'[<<x, y>>] = Filled(order', InBook(x, y)')
    BY DEF PositionMatchesOrders, InBook
  <2> DEFINE S == InBook(x, y)
  <2>1. S \subseteq Placed /\ IsFiniteSet(S)
    BY FiniteBooks DEF Inv
  <2>2. InBook(x, y)' = S
    BY <1>9 DEF InBook
  <2>3. position[<<x, y>>] = Filled(order, S)
    BY DEF Inv, PositionMatchesOrders, InBook
  <2>4. \A p \in S : /\ OrderSpec[p].side * order[p].filled \in Int
                     /\ OrderSpec[p].side * order'[p].filled \in Int
                     /\ p # o => order'[p] = order[p]
    BY <1>8, <1>10, <2>1, RowOf, RowAmounts DEF Inv
  <2>5. CASE x = r /\ y = i
    <3>1. o \in S
      BY <1>1, <2>5 DEF InBook
    <3> HIDE DEF S
    <3>2. Filled(order', S) = Filled(order, S) - OrderSpec[o].side * order[o].filled
                                               + OrderSpec[o].side * order'[o].filled
      BY <2>1, <2>4, <3>1, FilledChanges
    <3>3. OrderSpec[o].side * order'[o].filled - OrderSpec[o].side * order[o].filled = Signed(f)
      <4>1. OrderSpec[o].side = 1 \/ OrderSpec[o].side = -1
        BY <1>3, SpecOf
      <4>2. order[o].filled \in Nat /\ order'[o].filled = order[o].filled + f.quantity
        BY <1>3, <1>4, <1>5, <1>8, RowAmounts
      <4>3. OrderSpec[o].side * (order[o].filled + f.quantity) - OrderSpec[o].side * order[o].filled
              = OrderSpec[o].side * f.quantity
        BY ONLY <1>3, <4>1, <4>2
      <4> QED
        BY <4>2, <4>3 DEF Signed
    <3>4. /\ OrderSpec[o].side * order[o].filled \in Int
          /\ OrderSpec[o].side * order'[o].filled \in Int
          /\ Filled(order, S) \in Int
      BY <1>12, <2>3, <2>4, <2>5, <3>1
    <3>5. position'[<<x, y>>] = Filled(order, S) + Signed(f)
      BY <1>13, <2>3, <2>5
    <3> QED
      BY <2>2, <3>2, <3>3, <3>4, <3>5
  <2>6. CASE ~(x = r /\ y = i)
    <3>1. o \notin S
      BY <2>6 DEF InBook
    <3> HIDE DEF S
    <3>2. Filled(order', S) = Filled(order, S)
      BY <2>1, <2>4, <3>1, FilledSame
    <3> QED
      BY <1>13, <2>2, <2>3, <2>6, <3>2
  <2> QED
    BY <2>5, <2>6
<1>21. NoActiveRunUnderGlobalLatch'
  BY <1>2 DEF Inv, NoActiveRunUnderGlobalLatch
<1> QED
  BY <1>15, <1>16, <1>17, <1>18, <1>19, <1>20, <1>21 DEF Inv

-------------------------------------------------------------------------------
(* The theorems.                                                           *)

\* The invariant holds in every state the paper service can reach.
THEOREM Invariance == Spec => []Inv
<1>1. Init => Inv
  <2> SUFFICES ASSUME Init PROVE Inv
    OBVIOUS
  <2>1. Placed = {} /\ \A o \in Orders : order[o] = NoOrder
    BY DEF Init, Placed
  <2>2. TypeOK
    <3>1. MaxStarts \in Nat
      BY PaperConstants DEF PaperConstants
    <3> QED
      BY <3>1 DEF Init, TypeOK
  <2>3. Callers
    <3>1. [phase |-> "idle", fill |-> NoFill, started |-> 0]
            \in [phase: {"idle", "simulated", "waiting"}, fill: Fill \cup {NoFill}, started: Nat]
      OBVIOUS
    <3> QED
      BY <3>1 DEF Init, Callers
  <2>4. Ledger
    <3>1. \A r, i : LedgerOf(r, i) = {}
      BY DEF Init, LedgerOf
    <3>2. IsFiniteSet(Placed) /\ IsFiniteSet(fills) /\ fills \subseteq Fill /\ DOMAIN cash = Runs
      BY <2>1, FS_EmptySet DEF Init
    <3>3. \A r \in Runs, i \in Instruments : position[<<r, i>>] = 0
      BY DEF Init
    <3> QED
      BY <3>1, <3>2, <3>3, EmptyBooks DEF Ledger
  <2>5. ReservationMatchesOrder
    BY <2>1 DEF ReservationMatchesOrder
  <2>6. PoolLimit
    <3> SUFFICES ASSUME NEW r \in Runs, NEW pool \in Pools
                 PROVE  AtRisk(order, InPool(r, pool)) <= MaxPortfolio
      BY DEF PoolLimit, InPool
    <3>1. InPool(r, pool) = {}
      BY <2>1 DEF InPool
    <3>2. MaxPortfolio \in Nat
      BY PaperConstants DEF PaperConstants
    <3> QED
      BY <3>1, <3>2, EmptyBooks
  <2>7. PositionMatchesOrders
    <3> SUFFICES ASSUME NEW r \in Runs, NEW i \in Instruments
                 PROVE  position[<<r, i>>] = Filled(order, InBook(r, i))
      BY DEF PositionMatchesOrders, InBook
    <3>1. InBook(r, i) = {}
      BY <2>1 DEF InBook
    <3>2. position[<<r, i>>] = 0
      BY DEF Init
    <3> QED
      BY <3>1, <3>2, EmptyBooks
  <2>8. NoActiveRunUnderGlobalLatch
    BY DEF Init, NoActiveRunUnderGlobalLatch
  <2> QED
    BY <2>2, <2>3, <2>4, <2>5, <2>6, <2>7, <2>8 DEF Inv
<1>2. Inv /\ [Next]_vars => Inv'
  <2> SUFFICES ASSUME Inv, [Next]_vars PROVE Inv'
    OBVIOUS
  <2>1. ASSUME NEW r \in Runs, RunStep(r) PROVE Inv'
    BY <2>1, RunSteps
  <2>2. ASSUME NEW o \in Orders, OrderStep(o) PROVE Inv'
    BY <2>2, SubmitStep, RewriteSteps DEF OrderStep
  <2>3. ASSUME NEW w \in Workers, FillStep(w) PROVE Inv'
    BY <2>3, CallerSteps, RecordStep DEF FillStep
  <2>4. ASSUME NEW scope \in LatchScopes, LatchStep(scope) PROVE Inv'
    BY <2>4, LatchSteps
  <2>5. CASE UNCHANGED vars
    <3>1. UNCHANGED <<run, order, fills, position, cash, stops, latches, worker, clock>>
      BY <2>5 DEF vars
    <3>2. TypeOK' /\ NoActiveRunUnderGlobalLatch'
      BY <3>1 DEF Inv, TypeOK, NoActiveRunUnderGlobalLatch
    <3>3. Placed \subseteq Placed'
      BY <3>1 DEF Placed
    <3> QED
      BY <3>1, <3>2, <3>3, BooksUntouched, CallersUntouched DEF Inv
  <2> QED
    BY <2>1, <2>2, <2>3, <2>4, <2>5 DEF Next
<1> QED
  BY <1>1, <1>2, PTL DEF Spec

\* The tables of the paper service keep their shape.
THEOREM TypeCorrect == Spec => []TypeOK
<1>1. Inv => TypeOK
  BY DEF Inv
<1> QED
  BY <1>1, Invariance, PTL

\* Whatever fills, cancels and stops interleave, a reservation's working,
\* converted and released parts add up to the order and its status is the one
\* the order's state calls for.
THEOREM ReservationsMatchOrders == Spec => []ReservationMatchesOrder
<1>1. Inv => ReservationMatchesOrder
  BY DEF Inv
<1> QED
  BY <1>1, Invariance, PTL

\* submit's check of the pool holds afterwards too: no interleaving of submits,
\* fills, cancels and stops holds more of a pool than the portfolio limit.
THEOREM PoolsWithinLimit == Spec => []PoolLimit
<1>1. Inv => PoolLimit
  BY DEF Inv
<1> QED
  BY <1>1, Invariance, PTL

\* Under a GLOBAL latch no run is ACTIVE, however start_run, restart and
\* reconcile interleave with emergency_stop.
THEOREM LatchStopsRuns == Spec => []NoActiveRunUnderGlobalLatch
<1>1. Inv => NoActiveRunUnderGlobalLatch
  BY DEF Inv
<1> QED
  BY <1>1, Invariance, PTL

\* No operation changes an order that has ended: a fill simulated before a
\* cancel or a stop finds no transition when it is recorded.
THEOREM EndedOrdersNeverChange == Spec => EndedOrdersStay
<1> DEFINE Stay == \A o \in Placed : order[o].state \in TERMINAL => order'[o] = order[o]
<1>1. Inv /\ [Next]_vars => [Stay]_order
  <2> SUFFICES ASSUME Inv, [Next]_vars, order' # order,
                      NEW o \in Placed, order[o].state \in TERMINAL
               PROVE  order'[o] = order[o]
    OBVIOUS
  <2>1. o \in Orders /\ order[o] \in OrderRow /\ order[o].state \in DOMAIN TRANSITIONS
    BY RowOf DEF Inv, OrderRow
  <2>2. \A s : s \notin TRANSITIONS[order[o].state]
    BY <2>1, Lifecycle
  <2>3. order \in [Orders -> OrderRow \cup {NoOrder}]
    BY DEF Inv, TypeOK
  <2>4. ASSUME NEW p \in Orders, OrderStep(p) PROVE order'[o] = order[o]
    <3>1. p # o
      BY <2>2, <2>4, SMTT(30) DEF OrderStep, submit, mark_unknown, cancel, MayBecome, Placed
    <3> QED
      BY <2>1, <2>3, <2>4, <3>1 DEF OrderStep, submit, mark_unknown, cancel
  <2>5. ASSUME NEW w \in Workers, FillStep(w) PROVE order'[o] = order[o]
    <3>1. CASE record_fill(w)
      <4>1. worker[w].fill.order # o
        BY <2>2, <3>1, Zenon DEF record_fill, MayBecome
      <4> QED
        BY <2>1, <2>3, <3>1, <4>1 DEF record_fill
    <3>2. CASE ~record_fill(w)
      BY <2>5, <3>2 DEF FillStep, simulate_order, OpenFill, Leave
    <3> QED
      BY <3>1, <3>2
  <2>6. ASSUME NEW scope \in LatchScopes, LatchStep(scope) PROVE order'[o] = order[o]
    <3>1. o \notin Cancellable(scope)
      BY DEF Cancellable, TERMINAL
    <3> QED
      BY <2>1, <2>6, <3>1 DEF LatchStep, emergency_stop, release_emergency_stop
  <2>7. ASSUME NEW r \in Runs, RunStep(r) PROVE FALSE
    BY <2>7 DEF RunStep, start_run, reconcile, restart, stop
  <2> QED
    BY <2>4, <2>5, <2>6, <2>7 DEF Next, vars
<1> QED
  BY <1>1, Invariance, PTL DEF Spec, EndedOrdersStay

-------------------------------------------------------------------------------
(* Fills, orders and the cash ledger.                                      *)

OfRun(r) == {g \in fills : OrderSpec[g.order].run = r}
Deltas(S) == MapThenSumSet(LAMBDA e : e.delta, S)

\* The entries of paper_cash_ledger add up to the fills of their run, in
\* whatever order record_fill got the lock.
CashMatchesFills == \A r \in Runs : Balance(r) = -Replayed(OfRun(r))

\* Every fill is one of a stored order and every cash entry that of a stored
\* fill, so that a fill with a new key adds a new entry.
Traceable ==
    /\ \A g \in fills : g.order \in Placed
    /\ \A r \in Runs :
          /\ IsFiniteSet(cash[r])
          /\ \A e \in cash[r] : /\ e.delta \in Int
                                /\ \E g \in fills : g.order = e.order /\ g.time = e.time

Booked == Traceable /\ FillsAddUp /\ CashMatchesFills

\* What an order's fills filled is a sum of amounts.
LEMMA QuantityIs ==
    ASSUME NEW T, IsFiniteSet(T)
    PROVE  Quantity(T) = SumOver([g \in T |-> g.quantity], T)
<1> DEFINE f == [g \in T |-> g.quantity]
           Def(g) == g = [s \in SUBSET T |-> IF s = {} THEN 0
                             ELSE Pick(s).quantity + g[s \ {Pick(s)}]]
           h == CHOOSE g : Def(g)
<1>1. ASSUME NEW g PROVE Sums(f, g, T) <=> Def(g)
  <2>1. \A s \in SUBSET T : s # {} => f[Pick(s)] = Pick(s).quantity
    BY DEF Pick
  <2> QED
    BY <2>1 DEF Sums
<1>2. Quantity(T) = h[T]
  BY DEF Quantity, MapThenSumSet, MapThenFoldSet, Pick
<1>3. Sums(f, h, T)
  <2>1. \E g : Def(g)
    BY <1>1, SumsExist
  <2> QED
    BY <1>1, <2>1
<1>4. PICK g : Sums(f, g, T) /\ SumOver(f, T) = g[T]
  BY SumIs
<1>5. h[T] = g[T]
  BY <1>3, <1>4, SumsAgree
<1> QED
  BY <1>2, <1>4, <1>5

\* The balance of a cash ledger is a sum of amounts.
LEMMA DeltasIs ==
    ASSUME NEW T, IsFiniteSet(T)
    PROVE  Deltas(T) = SumOver([e \in T |-> e.delta], T)
<1> DEFINE f == [e \in T |-> e.delta]
           Def(g) == g = [s \in SUBSET T |-> IF s = {} THEN 0
                             ELSE Pick(s).delta + g[s \ {Pick(s)}]]
           h == CHOOSE g : Def(g)
<1>1. ASSUME NEW g PROVE Sums(f, g, T) <=> Def(g)
  <2>1. \A s \in SUBSET T : s # {} => f[Pick(s)] = Pick(s).delta
    BY DEF Pick
  <2> QED
    BY <2>1 DEF Sums
<1>2. Deltas(T) = h[T]
  BY DEF Deltas, MapThenSumSet, MapThenFoldSet, Pick
<1>3. Sums(f, h, T)
  <2>1. \E g : Def(g)
    BY <1>1, SumsExist
  <2> QED
    BY <1>1, <2>1
<1>4. PICK g : Sums(f, g, T) /\ SumOver(f, T) = g[T]
  BY SumIs
<1>5. h[T] = g[T]
  BY <1>3, <1>4, SumsAgree
<1> QED
  BY <1>2, <1>4, <1>5

\* One more fill of an order adds its quantity.
LEMMA QuantityAdds ==
    ASSUME NEW S, IsFiniteSet(S), NEW y, y \notin S, \A g \in S \cup {y} : g.quantity \in Int
    PROVE  Quantity(S \cup {y}) = Quantity(S) + y.quantity
<1> DEFINE T == S \cup {y}
           f == [g \in S |-> g.quantity]
           e == [g \in T |-> g.quantity]
<1>1. IsFiniteSet(T)
  BY FS_AddElement
<1>2. Summable(e, T) /\ (\A x \in S : e[x] = f[x]) /\ e[y] = y.quantity
  BY DEF Summable
<1>3. Quantity(S) = SumOver(f, S) /\ Quantity(T) = SumOver(e, T)
  BY <1>1, QuantityIs
<1> HIDE DEF f, e
<1>4. SumOver(e, S) = SumOver(f, S)
  BY <1>2, SumSame
<1>5. SumOver(e, T) = SumOver(e, S) + e[y]
  BY <1>2, SumAdd
<1> QED
  BY <1>2, <1>3, <1>4, <1>5

\* One more entry moves the balance by its delta.
LEMMA DeltasAdds ==
    ASSUME NEW S, IsFiniteSet(S), NEW y, y \notin S, \A e \in S \cup {y} : e.delta \in Int
    PROVE  Deltas(S \cup {y}) = Deltas(S) + y.delta /\ Deltas(S) \in Int
<1> DEFINE T == S \cup {y}
           f == [d \in S |-> d.delta]
           e == [d \in T |-> d.delta]
<1>1. IsFiniteSet(T)
  BY FS_AddElement
<1>2. /\ Summable(f, S) /\ Summable(e, T)
      /\ \A x \in S : e[x] = f[x]
      /\ e[y] = y.delta
  BY DEF Summable
<1>3. Deltas(S) = SumOver(f, S) /\ Deltas(T) = SumOver(e, T)
  BY <1>1, DeltasIs
<1> HIDE DEF f, e
<1>4. SumOver(e, S) = SumOver(f, S)
  BY <1>2, SumSame
<1>5. SumOver(e, T) = SumOver(e, S) + e[y]
  BY <1>2, SumAdd
<1>6. SumOver(f, S) \in Int
  BY <1>2, SumInt
<1> QED
  BY <1>2, <1>3, <1>4, <1>5, <1>6

\* No fills, no entries: nothing filled and no balance.
LEMMA EmptyLedgers == Quantity({}) = 0 /\ Deltas({}) = 0
BY QuantityIs, DeltasIs, SumEmpty, FS_EmptySet

\* The balance of a run is the sum of its entries.
LEMMA BalanceIs == \A r : Balance(r) = Deltas(cash[r]) /\ Balance(r)' = Deltas(cash'[r])
BY DEF Balance, Deltas, MapThenSumSet, MapThenFoldSet

\* The replay of a run's fills is an amount.
LEMMA ReplayedInt ==
    ASSUME NEW T, IsFiniteSet(T), \A g \in T : Signed(g) \in Int
    PROVE  Replayed(T) \in Int
<1> DEFINE f == [g \in T |-> Signed(g)]
<1>1. Summable(f, T)
  BY DEF Summable
<1>2. Replayed(T) = SumOver(f, T)
  BY ReplayedIs
<1> HIDE DEF f
<1> QED
  BY <1>1, <1>2, SumInt

\* A fill's signed quantity is an amount.
LEMMA SignedInt == \A g \in Fill : Signed(g) \in Int
<1> SUFFICES ASSUME NEW g \in Fill PROVE OrderSpec[g.order].side * g.quantity \in Int
  BY DEF Signed
<1>1. g.quantity \in Nat /\ g.order \in Orders
  BY DEF Fill
<1>2. OrderSpec[g.order].side = 1 \/ OrderSpec[g.order].side = -1
  BY <1>1, SpecOf
<1> QED
  BY ONLY <1>1, <1>2

\* Whatever is not record_fill stores no fill and no entry, and fills nothing.
LEMMA OtherSteps ==
    ASSUME Inv, [Next]_vars, \A w \in Workers : ~record_fill(w)
    PROVE  /\ UNCHANGED <<fills, cash>>
           /\ \A o \in Placed : o \in Placed' /\ order'[o].filled = order[o].filled
           /\ \A o \in Placed' : o \in Placed \/ order'[o].filled = 0
<1> DEFINE Goal == /\ UNCHANGED <<fills, cash>>
                   /\ \A o \in Placed : o \in Placed' /\ order'[o].filled = order[o].filled
                   /\ \A o \in Placed' : o \in Placed \/ order'[o].filled = 0
<1>1. ASSUME UNCHANGED <<order, fills, cash>> PROVE Goal
  BY <1>1 DEF Placed
<1>2. order \in [Orders -> OrderRow \cup {NoOrder}]
  BY DEF Inv, TypeOK
<1>3. ASSUME NEW r \in Runs, RunStep(r) PROVE Goal
  <2>1. UNCHANGED <<order, fills, cash>>
    BY <1>3 DEF RunStep, start_run, reconcile, restart, stop
  <2> QED
    BY <1>1, <2>1
<1>4. ASSUME NEW w \in Workers, FillStep(w) PROVE Goal
  <2>1. UNCHANGED <<order, fills, cash>>
    BY <1>4 DEF FillStep, simulate_order, OpenFill, Leave
  <2> QED
    BY <1>1, <2>1
<1>5. ASSUME NEW o \in Orders, OrderStep(o) PROVE Goal
  <2>1. UNCHANGED <<fills, cash>>
    BY <1>5 DEF OrderStep, submit, mark_unknown, cancel
  <2>2. CASE submit(o)
    <3>1. PICK row \in OrderRow : order' = [order EXCEPT ![o] = row] /\ row.filled = 0
      <4> DEFINE row == [state |-> "ACKNOWLEDGED", filled |-> 0, reservation |-> "HELD",
                         working |-> OrderSpec[o].quantity, converted |-> 0, released |-> 0]
      <4>1. row \in OrderRow /\ row.filled = 0
        BY SpecOf, Lifecycle DEF OrderRow
      <4>2. order' = [order EXCEPT ![o] = row]
        BY <2>2 DEF submit
      <4> HIDE DEF row
      <4> QED
        BY <4>1, <4>2
    <3>2. o \notin Placed
      BY <2>2 DEF submit, Placed
    <3>3. order'[o] = row /\ \A p \in Orders : p # o => order'[p] = order[p]
      BY <1>2, <3>1
    <3> QED
      BY <2>1, <3>1, <3>2, <3>3, NoOrderIsNoRow DEF Placed
  <2>3. CASE mark_unknown(o) \/ cancel(o)
    <3>1. o \in Placed /\ order[o] \in OrderRow
      BY <2>3, RowOf DEF Inv, mark_unknown, cancel
    <3>2. PICK row : /\ order' = [order EXCEPT ![o] = row]
                     /\ row.filled = order[o].filled
                     /\ row \in OrderRow
      <4>1. RowMatches(o, order[o]) /\ order[o].state \in DOMAIN TRANSITIONS
        BY <3>1, RowOf DEF Inv, OrderRow
      <4>2. CASE cancel(o)
        <5>1. order[o].state \notin TERMINAL
          BY <4>1, <4>2, Lifecycle DEF cancel, MayBecome
        <5> QED
          BY <3>1, <4>1, <4>2, <5>1, CancelledRow DEF cancel
      <4>3. CASE mark_unknown(o)
        <5> DEFINE row == [order[o] EXCEPT !.state = "UNKNOWN_RECONCILING",
                                           !.reservation = "UNRECONCILED"]
        <5>1. order' = [order EXCEPT ![o] = row]
          BY <1>2, <4>3 DEF mark_unknown
        <5>2. row = [order[o] EXCEPT !.state = "UNKNOWN_RECONCILING",
                                     !.reservation = "UNRECONCILED"]
          OBVIOUS
        <5> HIDE DEF row
        <5>3. row.filled = order[o].filled /\ row \in OrderRow
          BY <3>1, <5>2, Lifecycle DEF OrderRow
        <5> QED
          BY <5>1, <5>3
      <4> QED
        BY <2>3, <4>2, <4>3
    <3>3. order'[o] = row /\ \A p \in Orders : p # o => order'[p] = order[p]
      BY <1>2, <3>2
    <3>4. Placed' = Placed
      BY <3>1, <3>2, <3>3, NoOrderIsNoRow DEF Placed
    <3> QED
      BY <2>1, <3>2, <3>3, <3>4 DEF Placed
  <2> QED
    BY <1>5, <2>2, <2>3 DEF OrderStep
<1>6. ASSUME NEW scope \in LatchScopes, LatchStep(scope) PROVE Goal
  <2>1. CASE release_emergency_stop(scope)
    <3>1. UNCHANGED <<order, fills, cash>>
      BY <2>1 DEF release_emergency_stop
    <3> QED
      BY <1>1, <3>1
  <2>2. CASE emergency_stop(scope)
    <3>1. UNCHANGED <<fills, cash>>
      BY <2>2 DEF emergency_stop
    <3>2. ASSUME NEW o \in Placed
          PROVE  order'[o] \in OrderRow /\ order'[o].filled = order[o].filled
      <4>1. o \in Orders /\ order[o] \in OrderRow /\ RowMatches(o, order[o])
        BY RowOf DEF Inv
      <4>2. CASE o \in Cancellable(scope)
        <5>1. order[o].state \notin TERMINAL /\ order'[o] = CancelledOrder(o)
          BY <2>2, <4>1, <4>2 DEF emergency_stop, Cancellable, TERMINAL
        <5> QED
          BY <4>1, <5>1, CancelledRow
      <4>3. CASE o \notin Cancellable(scope)
        BY <2>2, <4>1, <4>3 DEF emergency_stop
      <4> QED
        BY <4>2, <4>3
    <3>3. \A o \in Orders : o \notin Placed => order'[o] = NoOrder
      BY <2>2 DEF emergency_stop, Cancellable, Placed
    <3>4. Placed' = Placed
      BY <3>2, <3>3, NoOrderIsNoRow DEF Placed
    <3> QED
      BY <3>1, <3>2, <3>4
  <2> QED
    BY <1>6, <2>1, <2>2 DEF LatchStep
<1>7. CASE UNCHANGED vars
  BY <1>1, <1>7 DEF vars
<1> QED
  BY <1>3, <1>4, <1>5, <1>6, <1>7 DEF Next

\* What record_fill stores: one new fill under a new key, one cash entry of its
\* run, and the total of its order.
LEMMA FillRecorded ==
    ASSUME Inv, NEW w \in Workers, record_fill(w)
    PROVE  \E f, e :
              LET r == OrderSpec[f.order].run IN
              /\ f \in Fill /\ f = worker[w].fill /\ f.order \in Placed
              /\ \A g \in fills : ~SameKey(f, g)
              /\ fills' = fills \cup {f}
              /\ Placed' = Placed
              /\ order'[f.order].filled = order[f.order].filled + f.quantity
              /\ \A p \in Placed : p # f.order => order'[p] = order[p]
              /\ cash' = [cash EXCEPT ![r] = cash[r] \cup {e}]
              /\ e.order = f.order /\ e.time = f.time
              /\ e.created_at = worker[w].started
              /\ e.delta = -Signed(f)
              /\ e.balance_after = PriorCash(r) - Signed(f)
<1>1. PICK f \in Fill : f = worker[w].fill /\ f.order \in Placed
  BY DEF Inv, Callers, record_fill
<1> DEFINE o == f.order
           r == OrderSpec[o].run
           e == [order |-> o, time |-> f.time, created_at |-> worker[w].started,
                 delta |-> -Signed(f), balance_after |-> PriorCash(r) - Signed(f)]
<1>2. /\ Admissible(f)
      /\ MayBecome(o, Target(f), f.quantity)
      /\ fills' = fills \cup {f}
      /\ order' = [order EXCEPT ![o] = FilledOrder(f)]
  BY <1>1 DEF record_fill
<1>3. cash' = [cash EXCEPT ![r] = cash[r] \cup {e}]
  BY <1>1 DEF record_fill
<1>4. o \in Orders /\ order[o] \in OrderRow /\ RowMatches(o, order[o])
  BY <1>1, RowOf DEF Inv
<1>5. FilledOrder(f) \in OrderRow /\ FilledOrder(f).filled = order[o].filled + f.quantity
  BY <1>2, <1>4, FilledRow
<1>6. order'[o] = FilledOrder(f) /\ \A p \in Orders : p # o => order'[p] = order[p]
  BY <1>2, <1>4 DEF Inv, TypeOK
<1>7. Placed' = Placed
  BY <1>1, <1>5, <1>6, NoOrderIsNoRow DEF Placed
<1>8. \A g \in fills : ~SameKey(f, g)
  BY <1>2 DEF Admissible
<1>9. /\ e.order = o /\ e.time = f.time
      /\ e.created_at = worker[w].started
      /\ e.delta = -Signed(f)
      /\ e.balance_after = PriorCash(r) - Signed(f)
  OBVIOUS
<1>10. \A p \in Placed : p # o => order'[p] = order[p]
  BY <1>6 DEF Placed
<1>11. order'[o].filled = order[o].filled + f.quantity
  BY <1>5, <1>6
<1> HIDE DEF e
<1> QED
  BY <1>1, <1>2, <1>3, <1>7, <1>8, <1>9, <1>10, <1>11

\* Recording a fill keeps fills, orders and cash entries in agreement.
LEMMA BookedByFill ==
    ASSUME Inv, Booked, NEW w \in Workers, record_fill(w)
    PROVE  Booked'
<1>1. PICK f, e :
         LET r == OrderSpec[f.order].run IN
         /\ f \in Fill /\ f = worker[w].fill /\ f.order \in Placed
         /\ \A g \in fills : ~SameKey(f, g)
         /\ fills' = fills \cup {f}
         /\ Placed' = Placed
         /\ order'[f.order].filled = order[f.order].filled + f.quantity
         /\ \A p \in Placed : p # f.order => order'[p] = order[p]
         /\ cash' = [cash EXCEPT ![r] = cash[r] \cup {e}]
         /\ e.order = f.order /\ e.time = f.time
         /\ e.created_at = worker[w].started
         /\ e.delta = -Signed(f)
         /\ e.balance_after = PriorCash(r) - Signed(f)
  BY FillRecorded
<1> DEFINE o == f.order
           r == OrderSpec[o].run
<1>2. f.order \in Orders /\ r \in Runs /\ f.quantity \in Nat /\ Signed(f) \in Int
  BY <1>1, SpecOf, SignedInt DEF Fill
<1>3. f \notin fills
  BY <1>1 DEF SameKey
<1>4. e \notin cash[r]
  <2>1. ASSUME e \in cash[r] PROVE FALSE
    <3>1. PICK g \in fills : g.order = e.order /\ g.time = e.time
      BY <1>2, <2>1 DEF Booked, Traceable
    <3> QED
      BY <1>1, <3>1 DEF SameKey
  <2> QED
    BY <2>1
<1>5. /\ cash'[r] = cash[r] \cup {e}
      /\ \A x \in Runs : x # r => cash'[x] = cash[x]
  <2>1. DOMAIN cash = Runs
    BY DEF Inv, Ledger
  <2> HIDE DEF r
  <2> QED
    BY <1>1, <1>2, <2>1 DEF r
<1>6. fills \subseteq Fill /\ IsFiniteSet(fills)
  BY DEF Inv, Ledger
<1>7. Traceable'
  <2>1. \A g \in fills' : g.order \in Placed'
    BY <1>1 DEF Booked, Traceable
  <2>2. ASSUME NEW x \in Runs
        PROVE  /\ IsFiniteSet(cash'[x])
               /\ \A d \in cash'[x] : /\ d.delta \in Int
                                      /\ \E g \in fills' : g.order = d.order /\ g.time = d.time
    <3>1. /\ IsFiniteSet(cash[x])
          /\ \A d \in cash[x] : /\ d.delta \in Int
                                /\ \E g \in fills' : g.order = d.order /\ g.time = d.time
      BY <1>1 DEF Booked, Traceable
    <3>2. CASE x = r
      <4>1. IsFiniteSet(cash'[x])
        BY <1>5, <3>1, <3>2, FS_AddElement
      <4>2. e.delta \in Int /\ \E g \in fills' : g.order = e.order /\ g.time = e.time
        BY <1>1, <1>2
      <4> QED
        BY <1>5, <3>1, <3>2, <4>1, <4>2
    <3>3. CASE x # r
      BY <1>5, <3>1, <3>3
    <3> QED
      BY <3>2, <3>3
  <2> QED
    BY <2>1, <2>2 DEF Traceable
<1>8. FillsAddUp'
  <2> SUFFICES ASSUME NEW p \in Placed' PROVE order'[p].filled = Quantity(FillsOf(p)')
    BY DEF FillsAddUp
  <2>1. p \in Placed /\ order[p].filled = Quantity(FillsOf(p))
    BY <1>1 DEF Booked, FillsAddUp
  <2>2. CASE p = o
    <3>1. FillsOf(p)' = FillsOf(p) \cup {f} /\ FillsOf(p) \subseteq fills
      BY <1>1, <2>2 DEF FillsOf
    <3>2. IsFiniteSet(FillsOf(p))
      BY <1>6, <3>1, FS_Subset
    <3>3. \A g \in FillsOf(p) \cup {f} : g.quantity \in Int
      BY <1>1, <1>6, <3>1 DEF Fill
    <3>4. Quantity(FillsOf(p) \cup {f}) = Quantity(FillsOf(p)) + f.quantity
      BY <1>3, <3>1, <3>2, <3>3, QuantityAdds
    <3> QED
      BY <1>1, <2>1, <2>2, <3>1, <3>4
  <2>3. CASE p # o
    <3>1. FillsOf(p)' = FillsOf(p)
      BY <1>1, <2>3 DEF FillsOf
    <3> QED
      BY <1>1, <2>1, <2>3, <3>1
  <2> QED
    BY <2>2, <2>3
<1>9. CashMatchesFills'
  <2> SUFFICES ASSUME NEW x \in Runs PROVE Balance(x)' = -Replayed(OfRun(x)')
    BY DEF CashMatchesFills
  <2>1. Balance(x) = -Replayed(OfRun(x))
    BY DEF Booked, CashMatchesFills
  <2>2. Balance(x) = Deltas(cash[x]) /\ Balance(x)' = Deltas(cash'[x])
    BY BalanceIs
  <2>3. OfRun(x) \subseteq fills /\ IsFiniteSet(OfRun(x)) /\ \A g \in OfRun(x) \cup {f} : Signed(g) \in Int
    <3>1. OfRun(x) \subseteq fills
      BY DEF OfRun
    <3> QED
      BY <1>2, <1>6, <3>1, FS_Subset, SignedInt
  <2>4. CASE x = r
    <3>1. OfRun(x)' = OfRun(x) \cup {f} /\ f \notin OfRun(x)
      BY <1>1, <1>3, <2>3, <2>4 DEF OfRun
    <3>2. Replayed(OfRun(x) \cup {f}) = Replayed(OfRun(x)) + Signed(f)
      BY <2>3, <3>1, ReplayedAdds
    <3>3. IsFiniteSet(cash[x]) /\ \A d \in cash[x] \cup {e} : d.delta \in Int
      BY <1>1, <1>2 DEF Booked, Traceable
    <3>4. Deltas(cash[x] \cup {e}) = Deltas(cash[x]) + e.delta
      BY <1>4, <2>4, <3>3, DeltasAdds
    <3>5. Replayed(OfRun(x)) \in Int
      BY <2>3, ReplayedInt
    <3>6. cash'[x] = cash[x] \cup {e} /\ e.delta = -Signed(f)
      BY <1>1, <1>5, <2>4
    <3> QED
      BY <1>2, <2>1, <2>2, <3>1, <3>2, <3>4, <3>5, <3>6
  <2>5. CASE x # r
    <3>1. OfRun(x)' = OfRun(x)
      BY <1>1, <2>5 DEF OfRun
    <3> QED
      BY <1>5, <2>1, <2>2, <2>5, <3>1
  <2> QED
    BY <2>4, <2>5
<1> QED
  BY <1>7, <1>8, <1>9 DEF Booked

\* Fills, orders and cash entries agree in every state the service can reach.
LEMMA BooksInvariance == Spec => []Booked
<1>1. Init => Booked
  <2> SUFFICES ASSUME Init PROVE Booked
    OBVIOUS
  <2>1. Placed = {} /\ fills = {} /\ (\A r \in Runs : cash[r] = {}) /\ \A r : OfRun(r) = {}
    BY DEF Init, Placed, OfRun
  <2>2. CashMatchesFills
    BY <2>1, EmptyBooks, EmptyLedgers, BalanceIs DEF CashMatchesFills
  <2> QED
    BY <2>1, <2>2, FS_EmptySet DEF Booked, Traceable, FillsAddUp
<1>2. Inv /\ Booked /\ [Next]_vars => Booked'
  <2> SUFFICES ASSUME Inv, Booked, [Next]_vars PROVE Booked'
    OBVIOUS
  <2>1. CASE \E w \in Workers : record_fill(w)
    BY <2>1, BookedByFill
  <2>2. CASE \A w \in Workers : ~record_fill(w)
    <3>1. /\ UNCHANGED <<fills, cash>>
          /\ \A o \in Placed : o \in Placed' /\ order'[o].filled = order[o].filled
          /\ \A o \in Placed' : o \in Placed \/ order'[o].filled = 0
      BY <2>2, OtherSteps
    <3>2. Traceable'
      BY <3>1 DEF Booked, Traceable
    <3>3. FillsAddUp'
      <4> SUFFICES ASSUME NEW o \in Placed' PROVE order'[o].filled = Quantity(FillsOf(o)')
        BY DEF FillsAddUp
      <4>1. FillsOf(o)' = FillsOf(o)
        BY <3>1 DEF FillsOf
      <4>2. o \notin Placed => FillsOf(o) = {}
        BY DEF Booked, Traceable, FillsOf
      <4> QED
        BY <3>1, <4>1, <4>2, EmptyLedgers DEF Booked, FillsAddUp
    <3>4. CashMatchesFills'
      <4> SUFFICES ASSUME NEW r \in Runs PROVE Balance(r)' = -Replayed(OfRun(r)')
        BY DEF CashMatchesFills
      <4>1. OfRun(r)' = OfRun(r)
        BY <3>1 DEF OfRun
      <4>2. Balance(r) = -Replayed(OfRun(r))
        BY DEF Booked, CashMatchesFills
      <4> QED
        BY <3>1, <4>1, <4>2, BalanceIs
    <3> QED
      BY <3>2, <3>3, <3>4 DEF Booked
  <2> QED
    BY <2>1, <2>2
<1> QED
  BY <1>1, <1>2, Invariance, PTL DEF Spec

\* Whoever simulated an order, and however often, its filled quantity is the sum
\* of the fills stored for it, and the position record_fill replays from the fills
\* is what the orders of its book say was filled: no fill is counted twice and none
\* is lost.
THEOREM BooksStayInAgreement == Spec => []BooksAgree
<1>1. Inv /\ Booked => BooksAgree
  BY DEF Inv, Booked, BooksAgree
<1> QED
  BY <1>1, Invariance, BooksInvariance, PTL

\* The entries of a run's cash ledger add up to its fills also when callers get
\* the lock in another order than they started in: what such a race damages is
\* the running balance alone.
THEOREM CashEntriesMatchFills == Spec => []CashMatchesFills
<1>1. Booked => CashMatchesFills
  BY DEF Booked
<1> QED
  BY <1>1, BooksInvariance, PTL

-------------------------------------------------------------------------------
(* The running balance, when no two record_fill transactions of a run      *)
(* overlap.                                                                *)

FillRun(w) == OrderSpec[worker[w].fill.order].run

\* At most one caller at a time has a transaction of record_fill open in a run.
OneAtATime ==
    \A v, w \in Workers :
        worker[v].phase = "waiting" /\ worker[w].phase = "waiting" /\ FillRun(v) = FillRun(w)
        => v = w

\* A caller that waits for the lock started after every entry of its run.
StartedLast ==
    \A w \in Workers : worker[w].phase = "waiting" =>
        \A e \in cash[FillRun(w)] : e.created_at < worker[w].started

\* The entry with the latest created_at is the one the balance continues from.
LEMMA LatestEntry ==
    ASSUME NEW S, NEW e, e.created_at \in Int,
           \A d \in S : d.created_at \in Int /\ d.created_at < e.created_at
    PROVE  (CHOOSE x \in S \cup {e} : \A d \in S \cup {e} : d.created_at <= x.created_at) = e
<1> DEFINE Latest(x) == \A d \in S \cup {e} : d.created_at <= x.created_at
           c == CHOOSE x \in S \cup {e} : Latest(x)
<1>1. Latest(e)
  OBVIOUS
<1>2. c \in S \cup {e} /\ Latest(c)
  BY <1>1
<1>3. \A x \in S : ~Latest(x)
  OBVIOUS
<1> HIDE DEF c, Latest
<1>4. c = e
  BY <1>2, <1>3
<1> QED
  BY <1>4 DEF c, Latest

\* Recording a fill while no other transaction of its run is open.
LEMMA ReconciledByFill ==
    ASSUME Inv, Booked, OneAtATime, StartedLast, CashReconciles,
           NEW w \in Workers, record_fill(w)
    PROVE  StartedLast' /\ CashReconciles'
<1>1. PICK f, e :
         LET r == OrderSpec[f.order].run IN
         /\ f \in Fill /\ f = worker[w].fill /\ f.order \in Placed
         /\ \A g \in fills : ~SameKey(f, g)
         /\ fills' = fills \cup {f}
         /\ Placed' = Placed
         /\ order'[f.order].filled = order[f.order].filled + f.quantity
         /\ \A p \in Placed : p # f.order => order'[p] = order[p]
         /\ cash' = [cash EXCEPT ![r] = cash[r] \cup {e}]
         /\ e.order = f.order /\ e.time = f.time
         /\ e.created_at = worker[w].started
         /\ e.delta = -Signed(f)
         /\ e.balance_after = PriorCash(r) - Signed(f)
  BY FillRecorded
<1> DEFINE r == OrderSpec[f.order].run
<1>2. r \in Runs /\ Signed(f) \in Int
  BY <1>1, SpecOf, SignedInt DEF Fill
<1>3. worker[w].phase = "waiting" /\ FillRun(w) = r
  BY <1>1 DEF record_fill, FillRun
<1>4. worker \in [Workers -> Caller] /\ worker[w].started \in 1..clock /\ clock \in Nat
  <2>1. MaxStarts \in Nat
    BY PaperConstants DEF PaperConstants
  <2> QED
    BY <1>3, <2>1 DEF Inv, Callers, Caller, TypeOK
<1>5. /\ cash'[r] = cash[r] \cup {e}
      /\ \A x \in Runs : x # r => cash'[x] = cash[x]
  <2>1. DOMAIN cash = Runs
    BY DEF Inv, Ledger
  <2> HIDE DEF r
  <2> QED
    BY <1>1, <1>2, <2>1 DEF r
<1>6. \A d \in cash[r] : d.created_at \in Int /\ d.created_at < e.created_at
  <2>1. \A d \in cash[r] : d.created_at < worker[w].started
    BY <1>3 DEF StartedLast
  <2>2. \A d \in cash[r] : d.created_at \in 1..clock
    BY <1>2 DEF Inv, TypeOK
  <2> QED
    BY <1>1, <1>4, <2>1, <2>2
<1>7. StartedLast'
  <2> SUFFICES ASSUME NEW v \in Workers, worker'[v].phase = "waiting"
               PROVE  \A d \in cash'[FillRun(v)'] : d.created_at < worker'[v].started
    BY DEF StartedLast
  <2>1. v # w /\ worker'[v] = worker[v]
    <3>1. worker' = [worker EXCEPT ![w].phase = "simulated", ![w].started = 0]
      BY DEF record_fill
    <3>2. worker'[w].phase = "simulated"
      BY <1>4, <3>1 DEF Caller
    <3>3. v # w
      BY <3>2
    <3> QED
      BY <1>4, <3>1, <3>3
  <2>2. FillRun(v)' = FillRun(v) /\ FillRun(v) # r
    BY <1>3, <2>1 DEF OneAtATime, FillRun
  <2>3. FillRun(v) \in Runs
    <3>1. worker[v].fill \in Fill
      BY <2>1 DEF Inv, Callers
    <3> QED
      BY <3>1, SpecOf DEF FillRun, Fill
  <2>4. cash'[FillRun(v)] = cash[FillRun(v)]
    BY <1>5, <2>2, <2>3
  <2> QED
    BY <2>1, <2>2, <2>4 DEF StartedLast
<1>8. CashReconciles'
  <2> SUFFICES ASSUME NEW x \in Runs PROVE PriorCash(x)' = Balance(x)'
    BY DEF CashReconciles
  <2>1. PriorCash(x) = Balance(x)
    BY DEF CashReconciles
  <2>2. Balance(x) = Deltas(cash[x]) /\ Balance(x)' = Deltas(cash'[x])
    BY BalanceIs
  <2>3. CASE x # r
    <3>1. cash'[x] = cash[x]
      BY <1>5, <2>3
    <3>2. PriorCash(x)' = PriorCash(x)
      BY ONLY <3>1 DEF PriorCash
    <3> QED
      BY <2>1, <2>2, <3>1, <3>2
  <2>4. CASE x = r
    <3>1. e.created_at \in Int /\ e \notin cash[r]
      BY <1>1, <1>4, <1>6
    <3>2. PriorCash(x)' = e.balance_after
      <4>1. (CHOOSE y \in cash[r] \cup {e} : \A d \in cash[r] \cup {e} : d.created_at <= y.created_at) = e
        BY <1>6, <3>1, LatestEntry
      <4>2. cash'[x] = cash[r] \cup {e} /\ cash'[x] # {}
        BY <1>5, <2>4
      <4>3. PriorCash(x)' = (CHOOSE y \in cash'[x] :
                                \A d \in cash'[x] : d.created_at <= y.created_at).balance_after
        BY <4>2 DEF PriorCash
      <4> QED
        BY <4>1, <4>2, <4>3
    <3>3. IsFiniteSet(cash[r]) /\ \A d \in cash[r] \cup {e} : d.delta \in Int
      BY <1>1, <1>2 DEF Booked, Traceable
    <3>4. Deltas(cash[r] \cup {e}) = Deltas(cash[r]) + e.delta /\ Deltas(cash[r]) \in Int
      BY <3>1, <3>3, DeltasAdds
    <3>5. e.balance_after = PriorCash(r) - Signed(f) /\ e.delta = -Signed(f)
      BY <1>1
    <3> HIDE DEF r
    <3> QED
      BY <1>2, <1>5, <2>1, <2>2, <2>4, <3>2, <3>4, <3>5
  <2> QED
    BY <2>3, <2>4
<1> QED
  BY <1>7, <1>8

\* A transaction opened now starts after every entry; whatever else happens, no
\* entry is added.
LEMMA ReconciledOtherwise ==
    ASSUME Inv, StartedLast, CashReconciles, [Next]_vars, \A w \in Workers : ~record_fill(w)
    PROVE  StartedLast' /\ CashReconciles'
<1>1. cash' = cash
  BY OtherSteps
<1>2. CashReconciles'
  <2>1. \A r : PriorCash(r)' = PriorCash(r) /\ Balance(r)' = Balance(r)
    BY <1>1, BalanceIs DEF PriorCash
  <2> QED
    BY <2>1 DEF CashReconciles
<1>3. worker \in [Workers -> Caller] /\ clock \in Nat
  <2>1. MaxStarts \in Nat
    BY PaperConstants DEF PaperConstants
  <2> QED
    BY <2>1 DEF Inv, Callers, Caller, TypeOK
<1>4. ASSUME NEW v \in Workers, worker'[v].phase = "waiting"
      PROVE  /\ worker'[v].fill = worker[v].fill
             /\ \/ worker'[v] = worker[v]
                \/ worker[v].phase = "simulated" /\ worker'[v].started = clock + 1
  <2>1. CASE UNCHANGED worker
    BY <2>1
  <2>2. CASE worker' # worker
    <3>1. PICK w \in Workers : FillStep(w)
      BY <2>2 DEF Next, vars, RunStep, start_run, reconcile, restart, stop,
                  OrderStep, submit, mark_unknown, cancel,
                  LatchStep, emergency_stop, release_emergency_stop
    <3>2. CASE OpenFill(w)
      <4>1. worker' = [worker EXCEPT ![w].phase = "waiting", ![w].started = clock + 1]
        BY <3>2 DEF OpenFill
      <4>2. CASE v # w
        BY <1>3, <4>1, <4>2
      <4>3. CASE v = w
        <5>1. worker[w].phase = "simulated"
          BY <3>2 DEF OpenFill
        <5>2. worker'[w].started = clock + 1 /\ worker'[w].fill = worker[w].fill
          BY <1>3, <4>1 DEF Caller
        <5> QED
          BY <4>3, <5>1, <5>2
      <4> QED
        BY <4>2, <4>3
    <3>3. CASE ~OpenFill(w)
      <4>1. v # w /\ worker'[v] = worker[v]
        BY <1>3, <1>4, <3>1, <3>3 DEF FillStep, simulate_order, Leave
      <4> QED
        BY <4>1
    <3> QED
      BY <3>2, <3>3
  <2> QED
    BY <2>1, <2>2
<1>5. StartedLast'
  <2> SUFFICES ASSUME NEW v \in Workers, worker'[v].phase = "waiting",
                      NEW e \in cash'[FillRun(v)']
               PROVE  e.created_at < worker'[v].started
    BY DEF StartedLast
  <2>1. FillRun(v)' = FillRun(v) /\ e \in cash[FillRun(v)]
    BY <1>1, <1>4 DEF FillRun
  <2>2. CASE worker'[v] = worker[v]
    BY <2>1, <2>2 DEF StartedLast
  <2>3. CASE worker[v].phase = "simulated" /\ worker'[v].started = clock + 1
    <3>1. FillRun(v) \in Runs
      <4>1. worker[v].fill \in Fill
        BY <2>3 DEF Inv, Callers
      <4> QED
        BY <4>1, SpecOf DEF FillRun, Fill
    <3>2. e.created_at \in 1..clock
      BY <2>1, <3>1 DEF Inv, TypeOK
    <3> QED
      BY <1>3, <2>3, <3>2
  <2> QED
    BY <1>4, <2>2, <2>3
<1> QED
  BY <1>2, <1>5

\* The running balance that record_fill continues from is the sum of the
\* entries in every behaviour in which no two transactions of record_fill are
\* open in one run at the same time: two overlapping transactions are the only
\* way to lose a fill from the balance.
THEOREM CashReconcilesUnraced == Spec /\ []OneAtATime => []CashReconciles
<1>1. Init => StartedLast /\ CashReconciles
  <2> SUFFICES ASSUME Init PROVE StartedLast /\ CashReconciles
    OBVIOUS
  <2>1. StartedLast
    BY DEF Init, StartedLast
  <2>2. \A r \in Runs : cash[r] = {}
    BY DEF Init
  <2> QED
    BY <2>1, <2>2, EmptyLedgers, BalanceIs DEF CashReconciles, PriorCash
<1>2. Inv /\ Booked /\ OneAtATime /\ StartedLast /\ CashReconciles /\ [Next]_vars
      => StartedLast' /\ CashReconciles'
  BY ReconciledByFill, ReconciledOtherwise
<1> QED
  BY <1>1, <1>2, Invariance, BooksInvariance, PTL DEF Spec

-------------------------------------------------------------------------------
(* How large a position can become.                                        *)

\* The pools that the orders of a run in an instrument draw on.
PoolsOf(r, i) == {OrderSpec[o].pool : o \in InBook(r, i)}

\* A position is never larger than what the pools of its orders may hold.
PositionWithinPools ==
    \A r \in Runs, i \in Instruments :
        Abs(position[<<r, i>>]) <= Cardinality(PoolsOf(r, i)) * MaxPortfolio

\* What the orders of a book filled, on either side, is at most the risk they
\* hold or have turned into positions.
LEMMA FilledWithinRisk ==
    ASSUME Inv, NEW r \in Runs, NEW i \in Instruments
    PROVE  Abs(position[<<r, i>>]) <= AtRisk(order, InBook(r, i))
<1> DEFINE S == InBook(r, i)
           f == [o \in S |-> OrderSpec[o].side * order[o].filled]
           g == [o \in S |-> -(OrderSpec[o].side * order[o].filled)]
           k == [o \in S |-> order[o].working + order[o].converted]
<1>1. S \subseteq Placed /\ IsFiniteSet(S)
  BY FiniteBooks DEF Inv
<1>2. ASSUME NEW o \in S
      PROVE  /\ OrderSpec[o].side * order[o].filled \in Int
             /\ order[o].working + order[o].converted \in Int
             /\ OrderSpec[o].side * order[o].filled <= order[o].working + order[o].converted
             /\ -(OrderSpec[o].side * order[o].filled) <= order[o].working + order[o].converted
  <2>1. o \in Orders /\ order[o] \in OrderRow /\ RowMatches(o, order[o])
    BY <1>1, RowOf DEF Inv
  <2>2. /\ order[o].filled \in Nat /\ order[o].working \in Nat
        /\ order[o].converted = order[o].filled
    BY <2>1, RowAmounts DEF RowMatches
  <2>3. OrderSpec[o].side = 1 \/ OrderSpec[o].side = -1
    BY <2>1, SpecOf
  <2> QED
    BY ONLY <2>2, <2>3
<1>3. /\ Summable(f, S) /\ Summable(g, S) /\ Summable(k, S)
      /\ \A o \in S : f[o] <= k[o] /\ g[o] <= k[o] /\ g[o] = -f[o]
  BY <1>2 DEF Summable
<1>4. position[<<r, i>>] = SumOver(f, S)
  <2>1. position[<<r, i>>] = Filled(order, S)
    BY DEF Inv, PositionMatchesOrders, InBook
  <2> QED
    BY <1>1, <2>1, FilledIs
<1>5. AtRisk(order, S) = SumOver(k, S)
  BY <1>1, AtRiskIs
<1> HIDE DEF S, f, g, k
<1>6. SumOver(f, S) <= SumOver(k, S) /\ SumOver(g, S) <= SumOver(k, S)
  BY <1>1, <1>3, SumMonotone
<1>7. SumOver(g, S) = -SumOver(f, S)
  BY <1>1, <1>3, SumNegate
<1>8. SumOver(f, S) \in Int /\ SumOver(k, S) \in Int
  BY <1>1, <1>3, SumInt
<1>9. Abs(position[<<r, i>>]) <= AtRisk(order, S)
  BY <1>4, <1>5, <1>6, <1>7, <1>8 DEF Abs
<1> QED
  BY <1>9 DEF S

\* A book has finitely many pools.
LEMMA FinitePools ==
    ASSUME Inv, NEW r \in Runs, NEW i \in Instruments
    PROVE  IsFiniteSet(PoolsOf(r, i))
<1> DEFINE S == InBook(r, i)
           f == [o \in S |-> OrderSpec[o].pool]
<1>1. IsFiniteSet(S)
  BY FiniteBooks DEF Inv
<1>2. f \in Surjection(S, PoolsOf(r, i))
  BY DEF Surjection, PoolsOf
<1> QED
  BY <1>1, <1>2, FS_Surjection

\* The orders of a book that draw on some pools hold at most the limit of each.
LEMMA RiskOfPools ==
    ASSUME Inv, NEW r \in Runs, NEW i \in Instruments
    PROVE  AtRisk(order, InBook(r, i)) <= Cardinality(PoolsOf(r, i)) * MaxPortfolio
<1> DEFINE S == InBook(r, i)
           P == PoolsOf(r, i)
           k == [o \in S |-> order[o].working + order[o].converted]
           Of(Q) == {o \in S : OrderSpec[o].pool \in Q}
           W == {Q \in SUBSET P : ~(SumOver(k, Of(Q)) <= Cardinality(Q) * MaxPortfolio)}
<1>1. S \subseteq Placed /\ IsFiniteSet(S) /\ S \subseteq Orders
  BY FiniteBooks DEF Inv, Placed
<1>2. \A o \in S : k[o] \in Nat
  BY <1>1, RowOf, RowAmounts DEF Inv
<1>3. IsFiniteSet(P) /\ MaxPortfolio \in Nat
  BY FinitePools, PaperConstants DEF PaperConstants
<1>4. AtRisk(order, S) = SumOver(k, S) /\ Of(P) = S
  BY <1>1, AtRiskIs DEF PoolsOf
<1>5. ASSUME NEW p \in P
      PROVE  SumOver(k, Of({p})) <= MaxPortfolio /\ SumOver(k, Of({p})) \in Int
  <2> DEFINE T == InPool(r, p)
             B == Of({p})
             e == [o \in T |-> order[o].working + order[o].converted]
  <2>1. p \in Pools /\ B \in SUBSET T /\ B \in SUBSET S
    BY <1>1, <1>5 DEF PoolsOf, InBook, InPool, Pools
  <2>2. T \subseteq Placed /\ IsFiniteSet(T) /\ IsFiniteSet(B)
    BY <1>1, <2>1, FiniteBooks, FS_Subset DEF Inv
  <2>3. \A o \in T : e[o] \in Nat
    BY <2>2, RowOf, RowAmounts DEF Inv
  <2>4. AtRisk(order, T) = SumOver(e, T)
    BY <2>2, AtRiskIs
  <2>5. AtRisk(order, T) <= MaxPortfolio
    BY <2>1 DEF Inv, PoolLimit, InPool
  <2>6. \A o \in B : e[o] = k[o]
    BY <2>1
  <2> HIDE DEF S, T, B, k, e
  <2>7. Summable(e, T) /\ (\A o \in T : e[o] >= 0) /\ Summable(k, B)
    BY <1>2, <2>1, <2>3 DEF Summable
  <2>8. SumOver(e, B) <= SumOver(e, T)
    BY <2>1, <2>2, <2>7, SumOfFewer
  <2>9. SumOver(e, B) = SumOver(k, B)
    BY <2>2, <2>6, SumSame
  <2>10. SumOver(k, B) \in Int /\ SumOver(e, T) \in Int
    BY <2>2, <2>7, SumInt
  <2>11. SumOver(k, B) <= MaxPortfolio
    BY <1>3, <2>4, <2>5, <2>8, <2>9, <2>10
  <2> QED
    BY <2>10, <2>11 DEF B
<1>6. W = {}
  <2> SUFFICES ASSUME W # {} PROVE FALSE
    OBVIOUS
  <2>1. PICK Q \in W : \A U \in W : U \subseteq Q => U = Q
    <3>1. W \subseteq SUBSET P
      OBVIOUS
    <3> HIDE DEF W
    <3> QED
      BY <1>3, <3>1, SmallestSet
  <2>2. Q \in SUBSET P /\ IsFiniteSet(Q)
    BY <1>3, <2>1, FS_Subset
  <2>3. Q # {}
    <3>1. Of({}) = {} /\ Cardinality({}) = 0
      BY FS_EmptySet
    <3>2. SumOver(k, Of({})) = 0
      BY <3>1, SumEmpty
    <3>3. {} \notin W
      BY <1>3, <3>1, <3>2
    <3> QED
      BY <2>1, <3>3
  <2>4. PICK p \in Q : TRUE
    BY <2>3
  <2> DEFINE R == Q \ {p}
  <2>5. SumOver(k, Of(R)) <= Cardinality(R) * MaxPortfolio
    <3>1. R \in SUBSET P /\ R \subseteq Q /\ R # Q
      BY <2>2, <2>4
    <3> QED
      BY <2>1, <3>1
  <2>6. IsFiniteSet(R) /\ Cardinality(Q) = Cardinality(R) + 1 /\ Cardinality(R) \in Nat
    <3>1. IsFiniteSet(R) /\ Cardinality(R) = Cardinality(Q) - 1
      BY <2>2, <2>4, FS_RemoveElement
    <3>2. Cardinality(Q) \in Nat /\ Cardinality(R) \in Nat
      BY <2>2, <3>1, FS_CardinalityType
    <3> QED
      BY <3>1, <3>2
  <2>7. /\ Of({p}) \in SUBSET Of(Q) /\ Of(Q) \ Of({p}) = Of(R)
        /\ IsFiniteSet(Of(Q)) /\ Summable(k, Of(Q)) /\ Summable(k, Of(R)) /\ IsFiniteSet(Of(R))
    <3>1. Of(Q) \in SUBSET S /\ Of(R) \in SUBSET S
      OBVIOUS
    <3>2. IsFiniteSet(Of(Q)) /\ IsFiniteSet(Of(R))
      BY <1>1, <3>1, FS_Subset
    <3>3. Of({p}) \in SUBSET Of(Q) /\ Of(Q) \ Of({p}) = Of(R)
      BY <2>4
    <3> HIDE DEF k
    <3> QED
      BY <1>2, <3>1, <3>2, <3>3 DEF Summable
  <2>8. SumOver(k, Of({p})) <= MaxPortfolio /\ SumOver(k, Of({p})) \in Int
    BY <1>5, <2>2, <2>4
  <2>9. ~(SumOver(k, Of(Q)) <= Cardinality(Q) * MaxPortfolio)
    BY <2>1
  <2> HIDE DEF Of, k, R, W
  <2>10. SumOver(k, Of(Q)) = SumOver(k, Of({p})) + SumOver(k, Of(R)) /\ SumOver(k, Of(R)) \in Int
    <3>1. SumOver(k, Of(Q)) = SumOver(k, Of({p})) + SumOver(k, Of(Q) \ Of({p}))
      BY <2>7, SumOfParts
    <3>2. SumOver(k, Of(R)) \in Int
      BY <2>7, SumInt
    <3> QED
      BY <2>7, <3>1, <3>2
  <2>11. Cardinality(Q) * MaxPortfolio = Cardinality(R) * MaxPortfolio + MaxPortfolio
         /\ Cardinality(R) * MaxPortfolio \in Int
    BY <1>3, <2>6
  <2> QED
    BY <1>3, <2>5, <2>8, <2>9, <2>10, <2>11
<1>7. SumOver(k, Of(P)) <= Cardinality(P) * MaxPortfolio
  BY <1>6
<1> QED
  BY <1>4, <1>7

\* pretrade_check compares the position limit with what is filled and lets
\* working orders overtake it; what still bounds a position is the portfolio
\* limit, once for every pool that the orders of its run and instrument name:
\* nothing in submit ties a book to one pool.
THEOREM PositionsBounded == Spec => []PositionWithinPools
<1>1. Inv => PositionWithinPools
  <2> SUFFICES ASSUME Inv, NEW r \in Runs, NEW i \in Instruments
               PROVE  Abs(position[<<r, i>>]) <= Cardinality(PoolsOf(r, i)) * MaxPortfolio
    BY DEF PositionWithinPools
  <2>1. Abs(position[<<r, i>>]) <= AtRisk(order, InBook(r, i))
    BY FilledWithinRisk
  <2>2. AtRisk(order, InBook(r, i)) <= Cardinality(PoolsOf(r, i)) * MaxPortfolio
    BY RiskOfPools
  <2>3. position[<<r, i>>] \in Int
    BY DEF Inv, TypeOK
  <2>4. Abs(position[<<r, i>>]) \in Int
    BY <2>3 DEF Abs
  <2>5. AtRisk(order, InBook(r, i)) \in Int /\ Cardinality(PoolsOf(r, i)) * MaxPortfolio \in Int
    <3> DEFINE S == InBook(r, i)
               k == [o \in S |-> order[o].working + order[o].converted]
    <3>1. S \subseteq Placed /\ IsFiniteSet(S)
      BY FiniteBooks DEF Inv
    <3>2. \A o \in S : k[o] \in Int
      BY <3>1, RowOf, RowAmounts DEF Inv
    <3>3. AtRisk(order, S) = SumOver(k, S)
      BY <3>1, AtRiskIs
    <3>4. IsFiniteSet(PoolsOf(r, i)) /\ MaxPortfolio \in Nat
      BY FinitePools, PaperConstants DEF PaperConstants
    <3>5. Cardinality(PoolsOf(r, i)) \in Nat
      BY <3>4, FS_CardinalityType
    <3> HIDE DEF k
    <3>6. SumOver(k, S) \in Int
      BY <3>1, <3>2, SumInt DEF Summable
    <3> QED
      BY <3>3, <3>4, <3>5, <3>6
  <2> QED
    BY <2>1, <2>2, <2>4, <2>5
<1> QED
  BY <1>1, Invariance, PTL
===============================================================================
