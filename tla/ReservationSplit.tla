--------------------------- MODULE ReservationSplit ---------------------------
(***************************************************************************)
(* The arithmetic of a partial fill.  record_fill (liki/paper_service.py)  *)
(* splits a reservation with Decimal, which rounds every result to the     *)
(* context's precision; PostgreSQL then adds the two parts exactly in the  *)
(* CHECK of migration 007 and rejects the row if they do not give the      *)
(* original amount.  The default precision is 28 digits; a smaller one     *)
(* rounds in the same places and keeps TLC's integers small.               *)
(***************************************************************************)
EXTENDS Naturals

CONSTANTS
    Precision,      \* digits of the decimal context
    Amounts,        \* original amounts of the reservation
    Quantities      \* order quantities, in lots

ASSUME SplitConstants ==
    /\ Precision \in Nat \ {0}
    /\ Amounts \subseteq Nat \ {0}
    /\ Quantities \subseteq Nat \ {0}

VARIABLES
    original, quantity,     \* fixed when the order is accepted
    filled,                 \* filled_quantity, in lots
    working, converted,     \* working_amount and position_amount
    refused                 \* the CHECK rejected an admissible fill

vars == <<original, quantity, filled, working, converted, refused>>

-------------------------------------------------------------------------------
(* Decimals: coefficient c and scale s stand for c / 10^s.                 *)

Pow10[n \in Nat] == IF n = 0 THEN 1 ELSE 10 * Pow10[n - 1]

\* The amount reserved is itself the result of a Decimal product (pretrade_check).
ASSUME AmountsFit == \A amount \in Amounts : amount < Pow10[Precision]

Least(S) == CHOOSE n \in S : \A m \in S : n <= m

\* n / d to the nearest integer, ties to the even one (ROUND_HALF_EVEN).
RoundedQuotient(n, d) ==
    LET down == n \div d
        rest == 2 * (n % d)
    IN  IF rest > d \/ (rest = d /\ down % 2 = 1) THEN down + 1 ELSE down

MaxScale == 2 * Precision

\* A Decimal result has at most Precision digits.
Rounded(x) ==
    LET drop == Least({k \in 0..MaxScale :
                          RoundedQuotient(x.c, Pow10[k]) < Pow10[Precision] /\ k <= x.s})
    IN  [c |-> RoundedQuotient(x.c, Pow10[drop]), s |-> x.s - drop]

\* a / b for 0 < a <= b: as many digits as the precision allows.
Quotient(a, b) ==
    LET scale == Least({k \in 0..MaxScale : a * Pow10[k + 1] >= b * Pow10[Precision]})
    IN  Rounded([c |-> RoundedQuotient(a * Pow10[scale], b), s |-> scale])

Times(a, x) == Rounded([c |-> a * x.c, s |-> x.s])
Minus(a, x) == Rounded([c |-> a * Pow10[x.s] - x.c, s |-> x.s])

\* PostgreSQL's numeric adds and compares without rounding.
AddsUp(x, y, a) == x.c * Pow10[y.s] + y.c * Pow10[x.s] = a * Pow10[x.s + y.s]

-------------------------------------------------------------------------------

Zero == [c |-> 0, s |-> 0]

Init ==
    /\ original \in Amounts
    /\ quantity \in Quantities
    /\ filled = 0
    /\ working = [c |-> original, s |-> 0]
    /\ converted = Zero
    /\ refused = FALSE

\* original_amount * (filled_quantity / quantity).
PositionAmount_PerLot(total) ==     \* variant: rounds the share of one lot
    Times(total, Times(original, Quotient(1, quantity)))
PositionAmount(total) == Times(original, Quotient(total, quantity))

\* A fill of n lots: the row is updated, or the CHECK rolls everything back.
record_fill(n) ==
    LET part == PositionAmount(filled + n)
        rest == Minus(original, part)
    IN  /\ filled + n <= quantity
        /\ UNCHANGED <<original, quantity>>
        /\ IF AddsUp(rest, part, original)
           THEN /\ filled' = filled + n
                /\ converted' = part
                /\ working' = rest
                /\ UNCHANGED refused
           ELSE /\ refused' = TRUE
                /\ UNCHANGED <<filled, working, converted>>

Next == \E n \in 1..quantity : record_fill(n)

Spec == Init /\ [][Next]_vars

-------------------------------------------------------------------------------
(* Properties.                                                             *)

\* However the fills were cut, a filled order has all of its risk converted
\* and an order with room left keeps some working: rounding neither leaks
\* risk nor releases it early.
ConvertedWhenFilled ==
    /\ filled = quantity => converted.c = original * Pow10[converted.s] /\ working.c = 0
    /\ working.c = 0 => filled = quantity

\* "On partial fill, reserved risk is reconciled into realized position
\* exposure plus remaining working-order reservation" (SRS 18.29): a fill the
\* order has room for can be recorded.
PartialFillRecorded == ~refused
===============================================================================
