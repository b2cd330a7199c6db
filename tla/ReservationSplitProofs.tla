------------------------ MODULE ReservationSplitProofs ------------------------
(***************************************************************************)
(* Proofs about ReservationSplit, for any precision, amounts and orders.   *)
(*                                                                         *)
(* Every result of Decimal is a rounding of the exact one.  Two facts      *)
(* about it carry the theorems: it never passes a value that has few       *)
(* enough digits (RoundedBelow), and it leaves such a value as it is       *)
(* (RoundedExact).  An order that is not filled has a share below one by   *)
(* at least a unit of the last digit, so its amount stays below the        *)
(* original; a filled one has the share one, which is exact.               *)
(***************************************************************************)
EXTENDS ReservationSplit, FiniteSums

-------------------------------------------------------------------------------
(* Powers of ten.                                                          *)

\* g holds the powers up to n.
Powers(g, n) == g = [k \in 0..n |-> IF k = 0 THEN 1 ELSE 10 * g[k - 1]]

\* Two tables of powers agree where both have an entry.
LEMMA PowersAgree ==
    ASSUME NEW n \in Nat, NEW m \in Nat, NEW g, NEW h, Powers(g, n), Powers(h, m),
           NEW k \in Nat, k <= n, k <= m
    PROVE  g[k] = h[k]
<1> DEFINE W == {i \in 0..k : g[i] # h[i]}
<1> SUFFICES ASSUME W # {} PROVE FALSE
  OBVIOUS
<1>1. W \subseteq Nat
  OBVIOUS
<1>2. PICK i \in W : \A j \in W : i <= j
  <2> HIDE DEF W
  <2> QED
    BY <1>1, FirstPosition
<1>3. i \in 0..n /\ i \in 0..m /\ i \in 0..k /\ g[i] # h[i]
  BY <1>2
<1>4. /\ g[i] = IF i = 0 THEN 1 ELSE 10 * g[i - 1]
      /\ h[i] = IF i = 0 THEN 1 ELSE 10 * h[i - 1]
  BY <1>3 DEF Powers
<1>5. i # 0 /\ i - 1 \in 0..k
  BY <1>3, <1>4
<1>6. g[i - 1] = h[i - 1]
  BY <1>2, <1>3, <1>5
<1> QED
  BY <1>3, <1>4, <1>5, <1>6

\* There is a table of powers of every length.
LEMMA PowersExist ==
    ASSUME NEW n \in Nat
    PROVE  \E g : Powers(g, n)
<1> DEFINE W == {i \in Nat : ~ \E g : Powers(g, i)}
<1> SUFFICES ASSUME W # {} PROVE FALSE
  OBVIOUS
<1>1. W \subseteq Nat
  OBVIOUS
<1>2. PICK i \in W : \A j \in W : i <= j
  <2> HIDE DEF W
  <2> QED
    BY <1>1, FirstPosition
<1>3. i \in Nat /\ ~ \E g : Powers(g, i)
  BY <1>2
<1>4. CASE i = 0
  <2>1. Powers([k \in 0..0 |-> 1], 0)
    BY DEF Powers
  <2> QED
    BY <1>3, <1>4, <2>1
<1>5. CASE i # 0
  <2>1. i - 1 \in Nat /\ i - 1 \notin W
    BY <1>2, <1>3, <1>5
  <2>2. PICK g : Powers(g, i - 1)
    BY <2>1
  <2> DEFINE h == [k \in 0..i |-> IF k = 0 THEN 1 ELSE 10 * g[k - 1]]
  <2>3. \A k \in 0..(i - 1) : g[k] = IF k = 0 THEN 1 ELSE 10 * g[k - 1]
    BY <2>1, <2>2 DEF Powers
  <2>4. \A k \in 0..i : k # 0 => k - 1 \in 0..(i - 1) /\ h[k - 1] = g[k - 1]
    BY <1>3, <2>3
  <2>5. h = [k \in 0..i |-> IF k = 0 THEN 1 ELSE 10 * h[k - 1]]
    <3>1. \A k \in 0..i : h[k] = IF k = 0 THEN 1 ELSE 10 * h[k - 1]
      BY <2>4
    <3>2. h = [k \in 0..i |-> h[k]]
      OBVIOUS
    <3> HIDE DEF h
    <3> QED
      BY <3>1, <3>2
  <2>6. Powers(h, i)
    BY <2>5 DEF Powers
  <2> QED
    BY <1>3, <2>6
<1> QED
  BY <1>4, <1>5

\* Pow10 is what its definition says.
LEMMA Pow10Is ==
    Pow10 = [n \in Nat |-> IF n = 0 THEN 1 ELSE 10 * Pow10[n - 1]]
<1> DEFINE T(n) == CHOOSE g : Powers(g, n)
           new == [n \in Nat |-> T(n)[n]]
<1>1. \A n \in Nat : Powers(T(n), n)
  BY PowersExist
<1>2. \A n \in Nat : new[n] = IF n = 0 THEN 1 ELSE 10 * new[n - 1]
  <2> SUFFICES ASSUME NEW n \in Nat PROVE new[n] = IF n = 0 THEN 1 ELSE 10 * new[n - 1]
    OBVIOUS
  <2>1. new[n] = T(n)[n] /\ (n # 0 => n - 1 \in Nat /\ new[n - 1] = T(n - 1)[n - 1])
    OBVIOUS
  <2>2. T(n)[n] = IF n = 0 THEN 1 ELSE 10 * T(n)[n - 1]
    <3> HIDE DEF T
    <3> QED
      BY <1>1 DEF Powers
  <2>3. n # 0 => T(n)[n - 1] = T(n - 1)[n - 1]
    <3> SUFFICES ASSUME n # 0 PROVE T(n)[n - 1] = T(n - 1)[n - 1]
      OBVIOUS
    <3>1. n - 1 \in Nat /\ n - 1 <= n /\ Powers(T(n), n) /\ Powers(T(n - 1), n - 1)
      BY <1>1
    <3> HIDE DEF T
    <3> QED
      BY <3>1, PowersAgree
  <2> HIDE DEF new, T
  <2> QED
    BY <2>1, <2>2, <2>3
<1>3. new = [n \in Nat |-> IF n = 0 THEN 1 ELSE 10 * new[n - 1]]
  <2>1. new = [n \in Nat |-> new[n]]
    OBVIOUS
  <2> HIDE DEF new
  <2> QED
    BY <1>2, <2>1
<1> HIDE DEF new
<1> QED
  BY <1>3 DEF Pow10
\* Powers are positive, and the next one is ten times as large.
LEMMA Pow10Steps ==
    /\ Pow10[0] = 1
    /\ \A n \in Nat : Pow10[n] \in Nat \ {0} /\ Pow10[n + 1] = 10 * Pow10[n]
<1>1. Pow10[0] = 1
  BY Pow10Is
<1>2. \A n \in Nat : Pow10[n + 1] = 10 * Pow10[n]
  <2> SUFFICES ASSUME NEW n \in Nat PROVE Pow10[n + 1] = 10 * Pow10[n]
    OBVIOUS
  <2>1. n + 1 \in Nat /\ n + 1 # 0 /\ (n + 1) - 1 = n
    OBVIOUS
  <2> QED
    BY <2>1, Pow10Is
<1>3. \A n \in Nat : Pow10[n] \in Nat \ {0}
  <2> DEFINE W == {i \in Nat : Pow10[i] \notin Nat \ {0}}
  <2> SUFFICES ASSUME W # {} PROVE FALSE
    OBVIOUS
  <2>1. PICK i \in W : \A j \in W : i <= j
    <3>1. W \subseteq Nat
      OBVIOUS
    <3> HIDE DEF W
    <3> QED
      BY <3>1, FirstPosition
  <2>2. i \in Nat /\ Pow10[i] \notin Nat \ {0}
    BY <2>1
  <2>3. i # 0
    BY <1>1, <2>2
  <2>4. i - 1 \in Nat /\ Pow10[i - 1] \in Nat \ {0}
    BY <2>1, <2>2, <2>3
  <2>5. Pow10[i] = 10 * Pow10[i - 1]
    BY <1>2, <2>2, <2>3, <2>4
  <2> QED
    BY <2>2, <2>4, <2>5
<1> QED
  BY <1>1, <1>2, <1>3

\* The digits of a product.
LEMMA Pow10Adds ==
    ASSUME NEW a \in Nat, NEW b \in Nat
    PROVE  Pow10[a + b] = Pow10[a] * Pow10[b]
<1> DEFINE W == {i \in Nat : Pow10[a + i] # Pow10[a] * Pow10[i]}
<1> SUFFICES ASSUME W # {} PROVE FALSE
  OBVIOUS
<1>1. PICK i \in W : \A j \in W : i <= j
  <2>1. W \subseteq Nat
    OBVIOUS
  <2> HIDE DEF W
  <2> QED
    BY <2>1, FirstPosition
<1>2. i \in Nat /\ Pow10[a + i] # Pow10[a] * Pow10[i] /\ Pow10[a] \in Nat
  BY <1>1, Pow10Steps
<1>3. i # 0
  <2>1. Pow10[0] = 1 /\ a + 0 = a
    BY Pow10Steps
  <2> QED
    BY <1>2, <2>1
<1>4. i - 1 \in Nat /\ Pow10[a + (i - 1)] = Pow10[a] * Pow10[i - 1]
  BY <1>1, <1>2, <1>3
<1>5. Pow10[i - 1] \in Nat /\ Pow10[(i - 1) + 1] = 10 * Pow10[i - 1] /\ (i - 1) + 1 = i
  BY <1>4, Pow10Steps
<1>6. a + (i - 1) \in Nat /\ Pow10[(a + (i - 1)) + 1] = 10 * Pow10[a + (i - 1)]
      /\ (a + (i - 1)) + 1 = a + i
  BY <1>2, <1>4, Pow10Steps
<1>7. 10 * (Pow10[a] * Pow10[i - 1]) = Pow10[a] * (10 * Pow10[i - 1])
  BY <1>2, <1>5
<1> QED
  BY <1>2, <1>4, <1>5, <1>6, <1>7

\* More digits, larger power.
LEMMA Pow10Grows ==
    ASSUME NEW a \in Nat, NEW b \in Nat
    PROVE  /\ a <= b => Pow10[a] <= Pow10[b]
           /\ a < b => 10 * Pow10[a] <= Pow10[b]
<1>1. ASSUME NEW c \in Nat, NEW d \in Nat, c <= d PROVE Pow10[c] <= Pow10[d]
  <2>1. d - c \in Nat /\ c + (d - c) = d
    BY <1>1
  <2>2. Pow10[d] = Pow10[c] * Pow10[d - c]
    BY <2>1, Pow10Adds
  <2>3. Pow10[c] \in Nat \ {0} /\ Pow10[d - c] \in Nat \ {0}
    BY <2>1, Pow10Steps
  <2>4. ASSUME NEW x \in Nat \ {0}, NEW y \in Nat \ {0} PROVE x <= x * y
    OBVIOUS
  <2> QED
    BY <2>2, <2>3, <2>4
<1>2. a < b => Pow10[a + 1] <= Pow10[b]
  BY <1>1
<1> QED
  BY <1>1, <1>2, Pow10Steps

-------------------------------------------------------------------------------
(* Rounding.                                                               *)

\* A set of numbers of digits has a least one.
LEMMA LeastIs ==
    ASSUME NEW S \in SUBSET Nat, S # {}
    PROVE  Least(S) \in S /\ \A k \in S : Least(S) <= k
BY FirstPosition DEF Least

\* A quotient is not rounded past a whole number, and a whole one not at all.
LEMMA QuotientRounds ==
    ASSUME NEW n \in Nat, NEW d \in Nat \ {0}
    PROVE  /\ RoundedQuotient(n, d) \in Nat
           /\ \A m \in Nat : n <= m * d => RoundedQuotient(n, d) <= m
           /\ \A m \in Nat : n = m * d => RoundedQuotient(n, d) = m
<1> DEFINE down == n \div d
           rest == n % d
<1>1. down \in Nat /\ rest \in 0..(d - 1) /\ n = d * down + rest
  OBVIOUS
<1>2. /\ RoundedQuotient(n, d) \in {down, down + 1}
      /\ rest = 0 => RoundedQuotient(n, d) = down
  BY <1>1 DEF RoundedQuotient
<1> HIDE DEF down, rest
<1>3. ASSUME NEW m \in Nat, n <= m * d PROVE RoundedQuotient(n, d) <= m
  <2>1. down <= m
    <3> SUFFICES ASSUME down >= m + 1 PROVE FALSE
      BY <1>1
    <3>1. d * down >= d * (m + 1) /\ d * (m + 1) = m * d + d
      BY <1>1
    <3> QED
      BY <1>1, <1>3, <3>1
  <2>2. CASE down < m
    BY <1>1, <1>2, <2>2
  <2>3. CASE down = m
    <3>1. d * down = m * d
      BY <2>3
    <3>2. rest = 0
      BY <1>1, <1>3, <3>1
    <3> QED
      BY <1>1, <1>2, <2>3, <3>2
  <2> QED
    BY <1>1, <2>1, <2>2, <2>3
<1>4. ASSUME NEW m \in Nat, n = m * d PROVE RoundedQuotient(n, d) = m
  <2>1. down <= m
    <3> SUFFICES ASSUME down >= m + 1 PROVE FALSE
      BY <1>1
    <3>1. d * down >= d * (m + 1) /\ d * (m + 1) = m * d + d
      BY <1>1
    <3> QED
      BY <1>1, <1>4, <3>1
  <2>2. down >= m
    <3> SUFFICES ASSUME m >= down + 1 PROVE FALSE
      BY <1>1
    <3>1. m * d >= (down + 1) * d /\ (down + 1) * d = d * down + d
      BY <1>1
    <3> QED
      BY <1>1, <1>4, <3>1
  <2>3. down = m /\ d * down = m * d
    BY <1>1, <2>1, <2>2
  <2>4. rest = 0
    BY <1>1, <1>4, <2>3
  <2> QED
    BY <1>2, <2>3, <2>4
<1>5. RoundedQuotient(n, d) \in Nat
  BY <1>1, <1>2
<1> QED
  BY <1>3, <1>4, <1>5
Decimal(x) == x = [c |-> x.c, s |-> x.s] /\ x.c \in Nat /\ x.s \in 0..MaxScale

Fits(n) == n < Pow10[Precision]

\* MaxScale and the powers up to it are numbers.
LEMMA Scales ==
    /\ Precision \in Nat /\ Precision - 1 \in Nat /\ Precision >= 1
    /\ MaxScale \in Nat /\ MaxScale = 2 * Precision
    /\ Pow10[Precision] \in Nat \ {0} /\ Pow10[Precision - 1] \in Nat \ {0}
    /\ Pow10[Precision] = 10 * Pow10[Precision - 1]
<1>1. Precision \in Nat \ {0}
  BY SplitConstants DEF SplitConstants
<1>2. Precision - 1 \in Nat /\ (Precision - 1) + 1 = Precision
  BY <1>1
<1> QED
  BY <1>1, <1>2, Pow10Steps DEF MaxScale

\* Rounding drops the fewest digits that leave Precision of them.
LEMMA RoundedIs ==
    ASSUME NEW x, Decimal(x), \E k \in 0..x.s : Fits(RoundedQuotient(x.c, Pow10[k]))
    PROVE  \E d \in 0..x.s :
              /\ Rounded(x) = [c |-> RoundedQuotient(x.c, Pow10[d]), s |-> x.s - d]
              /\ Fits(RoundedQuotient(x.c, Pow10[d]))
              /\ \A k \in 0..x.s : Fits(RoundedQuotient(x.c, Pow10[k])) => d <= k
<1> DEFINE S == {k \in 0..MaxScale :
                     RoundedQuotient(x.c, Pow10[k]) < Pow10[Precision] /\ k <= x.s}
<1>1. x.s \in Nat /\ MaxScale \in Nat /\ x.s <= MaxScale
  BY Scales DEF Decimal
<1>2. \A k \in 0..x.s : k \in S <=> Fits(RoundedQuotient(x.c, Pow10[k]))
  BY <1>1 DEF Fits
<1>3. S \in SUBSET Nat /\ \A k \in S : k \in 0..x.s
  BY <1>1
<1>4. Rounded(x) = [c |-> RoundedQuotient(x.c, Pow10[Least(S)]), s |-> x.s - Least(S)]
  BY DEF Rounded
<1> HIDE DEF S
<1>5. Least(S) \in S /\ \A k \in S : Least(S) <= k
  BY <1>2, <1>3, LeastIs
<1> QED
  BY <1>2, <1>3, <1>4, <1>5

\* A decimal that needs no more than Precision digits is left as it is.
LEMMA RoundedExact ==
    ASSUME NEW x, Decimal(x), NEW e \in 0..x.s, NEW m \in Nat, x.c = m * Pow10[e], Fits(m)
    PROVE  /\ Decimal(Rounded(x)) /\ Rounded(x).s <= x.s /\ x.s - Rounded(x).s <= e
           /\ Rounded(x).c * Pow10[x.s - Rounded(x).s] = x.c
<1>1. e \in Nat /\ x.s \in Nat /\ x.c \in Nat /\ x.s <= MaxScale /\ MaxScale \in Nat
  BY Scales DEF Decimal
<1>2. Pow10[e] \in Nat \ {0}
  BY <1>1, Pow10Steps
<1>3. RoundedQuotient(x.c, Pow10[e]) = m
  BY <1>1, <1>2, QuotientRounds
<1>4. PICK d \in 0..x.s :
              /\ Rounded(x) = [c |-> RoundedQuotient(x.c, Pow10[d]), s |-> x.s - d]
              /\ Fits(RoundedQuotient(x.c, Pow10[d]))
              /\ \A k \in 0..x.s : Fits(RoundedQuotient(x.c, Pow10[k])) => d <= k
  BY <1>3, RoundedIs
<1>5. d <= e /\ d \in Nat /\ e - d \in Nat /\ d + (e - d) = e
  BY <1>1, <1>3, <1>4
<1>6. Pow10[e] = Pow10[d] * Pow10[e - d] /\ Pow10[d] \in Nat \ {0} /\ Pow10[e - d] \in Nat \ {0}
  <2>1. Pow10[d + (e - d)] = Pow10[d] * Pow10[e - d]
    BY <1>5, Pow10Adds
  <2>2. Pow10[d] \in Nat \ {0} /\ Pow10[e - d] \in Nat \ {0}
    BY <1>5, Pow10Steps
  <2> QED
    BY <1>5, <2>1, <2>2
<1>7. x.c = (m * Pow10[e - d]) * Pow10[d] /\ m * Pow10[e - d] \in Nat
  BY <1>6
<1>8. RoundedQuotient(x.c, Pow10[d]) = m * Pow10[e - d]
  BY <1>1, <1>6, <1>7, QuotientRounds
<1>9. Rounded(x).c = m * Pow10[e - d] /\ Rounded(x).s = x.s - d /\ x.s - (x.s - d) = d
  BY <1>1, <1>4, <1>5, <1>8
<1>10. Decimal(Rounded(x))
  BY <1>1, <1>4, <1>5, <1>7, <1>9 DEF Decimal
<1> QED
  BY <1>1, <1>5, <1>7, <1>9, <1>10

-------------------------------------------------------------------------------
(* The share of an order that is filled.                                   *)

\* No order has so many lots that the share without the last one rounds to one.
FewLots == \A q \in Quantities : q <= Pow10[Precision - 1]

\* A share has Precision digits after the point, or more when it is small.
LEMMA ShareScale ==
    ASSUME NEW q \in Nat \ {0}, q <= Pow10[Precision - 1], NEW t \in 1..q
    PROVE  \E k \in (Precision - 1)..MaxScale :
              /\ Quotient(t, q) = Rounded([c |-> RoundedQuotient(t * Pow10[k], q), s |-> k])
              /\ k # Precision - 1 => t * Pow10[k] < q * Pow10[Precision]
              /\ t * Pow10[k + 1] >= q * Pow10[Precision]
<1> DEFINE S == {k \in 0..MaxScale : t * Pow10[k + 1] >= q * Pow10[Precision]}
<1>1. MaxScale \in S
  <2>1. /\ Precision \in Nat /\ (Precision - 1) + Precision \in Nat /\ Precision - 1 \in Nat
        /\ MaxScale + 1 \in Nat /\ (Precision - 1) + Precision <= MaxScale + 1 /\ MaxScale \in Nat
    BY Scales
  <2>2. Pow10[(Precision - 1) + Precision] <= Pow10[MaxScale + 1]
    BY <2>1, Pow10Grows
  <2>3. Pow10[(Precision - 1) + Precision] = Pow10[Precision - 1] * Pow10[Precision]
    BY <2>1, Pow10Adds
  <2>4. Pow10[MaxScale + 1] \in Nat \ {0} /\ Pow10[Precision] \in Nat \ {0}
        /\ Pow10[Precision - 1] \in Nat \ {0}
    BY <2>1, Pow10Steps
  <2>5. ASSUME NEW a \in Nat, NEW b \in Nat, a <= b, NEW c \in Nat PROVE a * c <= b * c
    BY <2>5
  <2>6. q * Pow10[Precision] <= Pow10[Precision - 1] * Pow10[Precision]
    BY <2>4, <2>5
  <2>7. t \in Nat /\ 1 <= t /\ 1 * Pow10[MaxScale + 1] <= t * Pow10[MaxScale + 1]
    BY <2>4, <2>5
  <2> HIDE DEF MaxScale
  <2>8. q * Pow10[Precision] \in Nat /\ t * Pow10[MaxScale + 1] \in Nat
    BY <2>4, <2>7
  <2> QED
    BY <2>1, <2>2, <2>3, <2>4, <2>6, <2>7, <2>8
<1>2. S \in SUBSET Nat
  OBVIOUS
<1>3. Quotient(t, q) = Rounded([c |-> RoundedQuotient(t * Pow10[Least(S)], q), s |-> Least(S)])
  BY DEF Quotient
<1>4. Least(S) \in S /\ \A k \in S : Least(S) <= k
  <2> HIDE DEF S
  <2> QED
    BY <1>1, <1>2, LeastIs
<1>5. PICK k : k = Least(S)
  OBVIOUS
<1>6. /\ k \in 0..MaxScale /\ t * Pow10[k + 1] >= q * Pow10[Precision]
      /\ \A j \in 0..MaxScale : j < k => ~(t * Pow10[j + 1] >= q * Pow10[Precision])
  <2>1. MaxScale \in Nat
    BY Scales
  <2>2. k \in 0..MaxScale /\ t * Pow10[k + 1] >= q * Pow10[Precision]
    BY <1>4, <1>5
  <2>3. \A j \in S : k <= j
    BY <1>4, <1>5
  <2>4. ASSUME NEW j \in 0..MaxScale, j < k PROVE j \notin S
    <3> HIDE DEF S
    <3> QED
      BY <2>1, <2>2, <2>3, <2>4
  <2> QED
    BY <2>2, <2>4
<1>7. k >= Precision - 1
  <2> SUFFICES ASSUME k + 1 < Precision PROVE FALSE
    BY <1>6, Scales
  <2>1. k + 1 \in Nat /\ 10 * Pow10[k + 1] <= Pow10[Precision] /\ Pow10[k + 1] \in Nat \ {0}
    BY <1>6, Scales, Pow10Grows, Pow10Steps
  <2>2. ASSUME NEW a \in Nat \ {0}, NEW b \in Nat, 10 * a <= b PROVE ~(t * a >= q * b)
    <3>1. t \in Nat /\ t <= q /\ a + 1 <= b
      BY <2>2
    <3>2. t * a <= q * a
      BY <3>1
    <3>3. q * (a + 1) <= q * b /\ q * (a + 1) = q * a + q
      BY <3>1
    <3>4. q * a \in Nat /\ t * a \in Nat /\ q * b \in Nat
      BY <3>1
    <3> QED
      BY <3>2, <3>3, <3>4
  <2>3. Pow10[Precision] \in Nat
    BY Scales
  <2> QED
    BY <1>6, <2>1, <2>2, <2>3
<1>8. k # Precision - 1 => t * Pow10[k] < q * Pow10[Precision]
  <2> SUFFICES ASSUME k # Precision - 1 PROVE t * Pow10[k] < q * Pow10[Precision]
    OBVIOUS
  <2>1. k - 1 \in 0..MaxScale /\ k - 1 < k /\ (k - 1) + 1 = k /\ k \in Nat
    BY <1>6, <1>7, Scales
  <2>2. ~(t * Pow10[k] >= q * Pow10[Precision])
    BY <1>6, <2>1
  <2>3. Pow10[k] \in Nat /\ Pow10[Precision] \in Nat /\ t \in Nat
    BY <2>1, Pow10Steps, Scales
  <2>4. t * Pow10[k] \in Nat /\ q * Pow10[Precision] \in Nat
    BY <2>3
  <2> QED
    BY <2>2, <2>4
<1>9. k \in (Precision - 1)..MaxScale
  BY <1>6, <1>7, Scales
<1> HIDE DEF S
<1> QED
  BY <1>3, <1>5, <1>6, <1>8, <1>9
\* Products keep order.
LEMMA TimesMonotone ==
    ASSUME NEW a \in Nat, NEW b \in Nat, NEW c \in Nat
    PROVE  /\ a <= b => a * c <= b * c
           /\ c # 0 /\ a < b => a * c < b * c
           /\ c # 0 /\ a * c = b * c => a = b
           /\ a * c \in Nat
<1>1. a * c \in Nat /\ b * c \in Nat
  OBVIOUS
<1>2. ASSUME NEW x \in Nat, NEW y \in Nat, x <= y PROVE x * c <= y * c
  BY <1>2
<1>3. ASSUME NEW x \in Nat, NEW y \in Nat, c # 0, x < y PROVE x * c < y * c
  <2>1. (x + 1) * c <= y * c /\ (x + 1) * c = x * c + c /\ x * c \in Nat /\ y * c \in Nat
    BY <1>2, <1>3
  <2> QED
    BY <1>3, <2>1
<1>4. ASSUME c # 0, a * c = b * c PROVE a = b
  <2>1. ~(a < b)
    BY <1>1, <1>3, <1>4
  <2>2. ~(b < a)
    BY <1>1, <1>3, <1>4
  <2> QED
    BY <2>1, <2>2
<1> QED
  BY <1>1, <1>2, <1>3, <1>4

\* What is missing of a share is at least a unit of the digit before the last.
BelowOne(x) == x.c * Pow10[Precision - 1] <= (Pow10[Precision - 1] - 1) * Pow10[x.s]

\* The share of an order that is not filled stays below one.
LEMMA ShareBelowOne ==
    ASSUME NEW q \in Nat \ {0}, q <= Pow10[Precision - 1], NEW t \in 1..q, t # q
    PROVE  Decimal(Quotient(t, q)) /\ BelowOne(Quotient(t, q))
<1> DEFINE N == Pow10[Precision - 1]
<1>1. PICK k \in (Precision - 1)..MaxScale :
              /\ Quotient(t, q) = Rounded([c |-> RoundedQuotient(t * Pow10[k], q), s |-> k])
              /\ k # Precision - 1 => t * Pow10[k] < q * Pow10[Precision]
  BY ShareScale
<1>2. /\ Precision - 1 \in Nat /\ k \in Nat /\ k <= MaxScale /\ MaxScale \in Nat /\ Precision \in Nat
      /\ k - (Precision - 1) \in Nat /\ (Precision - 1) + (k - (Precision - 1)) = k
  BY Scales
<1> DEFINE r == Pow10[k - (Precision - 1)]
           c0 == RoundedQuotient(t * Pow10[k], q)
<1>3. N \in Nat \ {0} /\ r \in Nat \ {0} /\ Pow10[k] = N * r /\ t \in Nat /\ t + 1 <= q /\ N - 1 \in Nat
  <2>1. Pow10[(Precision - 1) + (k - (Precision - 1))] = N * r
    BY <1>2, Pow10Adds
  <2>2. N \in Nat \ {0} /\ r \in Nat \ {0}
    BY <1>2, Pow10Steps
  <2> QED
    BY <1>2, <2>1, <2>2
<1>4. c0 \in Nat /\ c0 <= (N - 1) * r
  <2>1. t * N <= (N - 1) * q
    <3>1. (t + 1) * N <= q * N
      BY <1>3, TimesMonotone
    <3>2. (t + 1) * N = t * N + N /\ (N - 1) * q = q * N - q
      BY <1>3
    <3> QED
      BY <1>3, <3>1, <3>2
  <2>2. t * N \in Nat /\ (N - 1) * q \in Nat
    BY <1>3
  <2>3. (t * N) * r <= ((N - 1) * q) * r
    BY <1>3, <2>1, <2>2, TimesMonotone
  <2>4. (t * N) * r = t * (N * r) /\ ((N - 1) * q) * r = ((N - 1) * r) * q
    BY <1>3
  <2>5. t * Pow10[k] \in Nat /\ (N - 1) * r \in Nat /\ t * Pow10[k] <= ((N - 1) * r) * q
    BY <1>3, <2>3, <2>4
  <2> HIDE DEF N, r
  <2> QED
    BY <2>5, QuotientRounds
<1>5. k # Precision - 1 => c0 <= Pow10[Precision]
  <2> SUFFICES ASSUME k # Precision - 1 PROVE c0 <= Pow10[Precision]
    OBVIOUS
  <2>1. t * Pow10[k] \in Nat /\ Pow10[Precision] \in Nat
    BY <1>3, Scales
  <2>2. q * Pow10[Precision] = Pow10[Precision] * q /\ Pow10[Precision] * q \in Nat
    BY <2>1
  <2>3. t * Pow10[k] <= Pow10[Precision] * q
    BY <1>1, <2>1, <2>2
  <2> QED
    BY <2>1, <2>3, QuotientRounds
<1> DEFINE x == [c |-> c0, s |-> k]
<1> HIDE DEF c0, N, r
<1>6. Decimal(x) /\ x.c = c0 /\ x.s = k
  BY <1>2, <1>4 DEF Decimal
<1>7. Pow10[0] = 1 /\ Pow10[1] = 10
  <2>1. Pow10[0 + 1] = 10 * Pow10[0] /\ Pow10[0] = 1 /\ 0 + 1 = 1
    BY Pow10Steps
  <2> QED
    BY <2>1
<1>8. PICK e \in 0..k : /\ e <= k - (Precision - 1) /\ e \in Nat
                        /\ Fits(RoundedQuotient(c0, Pow10[e]))
  <2>1. CASE c0 < Pow10[Precision]
    <3>1. RoundedQuotient(c0, 1) = c0
      BY <1>4, QuotientRounds
    <3> QED
      BY <1>2, <1>7, <2>1, <3>1 DEF Fits
  <2>2. CASE c0 >= Pow10[Precision]
    <3>1. k # Precision - 1
      <4> SUFFICES ASSUME k = Precision - 1 PROVE FALSE
        OBVIOUS
      <4>1. r = 1
        BY <1>2, <1>7 DEF r
      <4>2. c0 <= N - 1 /\ Pow10[Precision] = 10 * N
        <5>1. c0 <= N - 1
          BY <1>3, <1>4, <4>1
        <5> QED
          BY <5>1, Scales DEF N
      <4> QED
        BY <1>3, <1>4, <2>2, <4>2
    <3>2. c0 = Pow10[Precision - 1] * 10
      BY <1>4, <1>5, <2>2, <3>1, Scales
    <3>3. RoundedQuotient(c0, 10) = Pow10[Precision - 1]
      <4>1. 10 \in Nat \ {0} /\ Pow10[Precision - 1] \in Nat
        BY Scales
      <4> QED
        BY <1>4, <3>2, <4>1, QuotientRounds
    <3>4. Pow10[Precision - 1] < Pow10[Precision]
      BY Scales
    <3>5. 1 \in 0..k /\ 1 <= k - (Precision - 1)
      BY <1>2, <3>1
    <3> QED
      BY <1>7, <3>3, <3>4, <3>5 DEF Fits
  <2> QED
    BY <1>4, <2>1, <2>2, Scales
<1>9. PICK d \in 0..k : /\ Rounded(x) = [c |-> RoundedQuotient(c0, Pow10[d]), s |-> k - d]
                        /\ d <= e
  <2> HIDE DEF x
  <2> QED
    BY <1>6, <1>8, RoundedIs
<1>10. d \in Nat /\ (k - (Precision - 1)) - d \in Nat /\ d + ((k - (Precision - 1)) - d) = k - (Precision - 1)
       /\ k - d \in Nat /\ (Precision - 1) + ((k - (Precision - 1)) - d) = k - d
  BY <1>2, <1>8, <1>9
<1> DEFINE u == Pow10[(k - (Precision - 1)) - d]
           D == Pow10[d]
<1>11. u \in Nat \ {0} /\ D \in Nat \ {0} /\ r = D * u /\ Pow10[k - d] = N * u
  <2>1. u \in Nat \ {0} /\ D \in Nat \ {0}
    BY <1>10, Pow10Steps
  <2>2. Pow10[d + ((k - (Precision - 1)) - d)] = D * u
    BY <1>10, Pow10Adds
  <2>3. Pow10[(Precision - 1) + ((k - (Precision - 1)) - d)] = Pow10[Precision - 1] * u
    BY <1>2, <1>10, Pow10Adds
  <2> QED
    BY <1>10, <2>1, <2>2, <2>3 DEF r, N
<1> HIDE DEF u, D
<1>12. RoundedQuotient(c0, D) \in Nat /\ RoundedQuotient(c0, D) <= (N - 1) * u
  <2>1. (N - 1) * (D * u) = ((N - 1) * u) * D /\ (N - 1) * u \in Nat
    BY <1>3, <1>11
  <2> QED
    BY <1>4, <1>11, <2>1, QuotientRounds
<1>13. RoundedQuotient(c0, D) * N <= (N - 1) * (N * u)
  <2>1. RoundedQuotient(c0, D) * N <= ((N - 1) * u) * N /\ (N - 1) * u \in Nat
    BY <1>3, <1>11, <1>12, TimesMonotone
  <2>2. ((N - 1) * u) * N = (N - 1) * (N * u)
    BY <1>3, <1>11
  <2> QED
    BY <2>1, <2>2
<1>14. Quotient(t, q) = [c |-> RoundedQuotient(c0, D), s |-> k - d]
  BY <1>1, <1>9 DEF c0, D
<1>15. k - d \in 0..MaxScale
  BY <1>2, <1>10
<1> QED
  BY <1>11, <1>12, <1>13, <1>14, <1>15 DEF Decimal, BelowOne, N

\* The share of a filled order is one, with all its digits.
LEMMA ShareOne ==
    ASSUME NEW q \in Nat \ {0}, q <= Pow10[Precision - 1]
    PROVE  Quotient(q, q) = [c |-> Pow10[Precision - 1], s |-> Precision - 1]
<1>1. PICK k \in (Precision - 1)..MaxScale :
              /\ Quotient(q, q) = Rounded([c |-> RoundedQuotient(q * Pow10[k], q), s |-> k])
              /\ k # Precision - 1 => q * Pow10[k] < q * Pow10[Precision]
  BY ShareScale
<1>2. k = Precision - 1
  <2> SUFFICES ASSUME k # Precision - 1 PROVE FALSE
    OBVIOUS
  <2>1. k \in Nat /\ Precision \in Nat /\ Precision <= k
    BY Scales
  <2>2. Pow10[Precision] <= Pow10[k] /\ Pow10[k] \in Nat /\ Pow10[Precision] \in Nat
    BY <2>1, Pow10Grows, Pow10Steps
  <2>3. Pow10[Precision] * q <= Pow10[k] * q
    BY <2>2, TimesMonotone
  <2>4. /\ Pow10[Precision] * q = q * Pow10[Precision] /\ Pow10[k] * q = q * Pow10[k]
        /\ q * Pow10[k] \in Nat /\ q * Pow10[Precision] \in Nat
    BY <2>2
  <2> QED
    BY <1>1, <2>3, <2>4
<1> DEFINE x == [c |-> Pow10[Precision - 1], s |-> Precision - 1]
<1>3. RoundedQuotient(q * Pow10[k], q) = Pow10[Precision - 1]
  <2>1. q * Pow10[k] = Pow10[Precision - 1] * q /\ Pow10[Precision - 1] * q \in Nat
    BY <1>2, Scales
  <2> QED
    BY <2>1, Scales, QuotientRounds
<1>4. /\ Decimal(x) /\ 0 \in 0..x.s /\ x.c \in Nat /\ x.c = x.c * Pow10[0] /\ Fits(x.c)
  BY Scales, Pow10Steps DEF Decimal, Fits
<1>5. /\ Decimal(Rounded(x)) /\ Rounded(x).s <= x.s /\ x.s - Rounded(x).s <= 0
      /\ Rounded(x).c * Pow10[x.s - Rounded(x).s] = x.c
  <2> HIDE DEF x
  <2> QED
    BY <1>4, RoundedExact
<1>6. Rounded(x).s = x.s /\ x.s - x.s = 0
  BY <1>4, <1>5, Scales DEF Decimal
<1>7. Rounded(x).c \in Nat /\ Rounded(x) = [c |-> Rounded(x).c, s |-> Rounded(x).s]
  BY <1>5 DEF Decimal
<1>8. Rounded(x).c = x.c
  BY <1>5, <1>6, <1>7, Pow10Steps
<1> QED
  BY <1>1, <1>2, <1>3, <1>6, <1>7, <1>8
-------------------------------------------------------------------------------
(* The amounts of a fill.                                                  *)

\* A share below one of an amount is less than the amount, rounded or not: where
\* the product is cut, the amount itself has all its digits before the cut.
LEMMA AmountBelow ==
    ASSUME NEW a \in Nat \ {0}, Fits(a), NEW x, Decimal(x), BelowOne(x)
    PROVE  Decimal(Times(a, x)) /\ Times(a, x).c < a * Pow10[Times(a, x).s]
<1> DEFINE N == Pow10[Precision - 1]
           S == Pow10[x.s]
           p == a * x.c
           y == [c |-> p, s |-> x.s]
<1>1. /\ x.c \in Nat /\ x.s \in Nat /\ MaxScale \in Nat /\ x.s <= MaxScale
      /\ N \in Nat \ {0} /\ N - 1 \in Nat /\ S \in Nat \ {0} /\ Pow10[Precision] = 10 * N
  <2>1. x.c \in Nat /\ x.s \in Nat /\ MaxScale \in Nat /\ x.s <= MaxScale
    BY Scales DEF Decimal
  <2> QED
    BY <2>1, Scales, Pow10Steps
<1>2. x.c * N <= (N - 1) * S
  BY DEF BelowOne
<1>3. Times(a, x) = Rounded(y)
  BY DEF Times
<1>4. p \in Nat /\ p * N <= (N - 1) * (a * S) /\ a * S \in Nat \ {0}
  <2>1. (x.c * N) * a <= ((N - 1) * S) * a
    <3>1. x.c * N \in Nat /\ (N - 1) * S \in Nat
      BY <1>1
    <3> QED
      BY <1>2, <3>1, TimesMonotone
  <2>2. (x.c * N) * a = (a * x.c) * N /\ ((N - 1) * S) * a = (N - 1) * (a * S)
    BY <1>1
  <2>3. a * x.c \in Nat /\ a * S \in Nat \ {0}
    BY <1>1
  <2> QED
    BY <2>1, <2>2, <2>3
<1> HIDE DEF N, S, p
<1>5. p < a * S
  <2>1. (N - 1) * (a * S) < N * (a * S)
    BY <1>1, <1>4, TimesMonotone
  <2>2. N * (a * S) = (a * S) * N /\ (a * S) * N \in Nat /\ p * N \in Nat /\ (N - 1) * (a * S) \in Nat
    BY <1>1, <1>4
  <2>3. p * N < (a * S) * N
    BY <1>4, <2>1, <2>2
  <2>4. ~(a * S <= p)
    <3> SUFFICES ASSUME a * S <= p PROVE FALSE
      OBVIOUS
    <3>1. (a * S) * N <= p * N
      BY <1>1, <1>4, TimesMonotone
    <3> QED
      BY <2>2, <2>3, <3>1
  <2> QED
    BY <1>4, <2>4
<1>6. Decimal(y) /\ y.c = p /\ y.s = x.s
  BY <1>1, <1>4 DEF Decimal
<1>7. Fits(RoundedQuotient(p, S)) /\ x.s \in 0..x.s
  <2>1. RoundedQuotient(p, S) \in Nat /\ RoundedQuotient(p, S) <= a
    BY <1>1, <1>4, <1>5, QuotientRounds
  <2> QED
    BY <1>1, <2>1 DEF Fits
<1>8. PICK d \in 0..x.s :
         /\ Rounded(y) = [c |-> RoundedQuotient(p, Pow10[d]), s |-> x.s - d]
         /\ Fits(RoundedQuotient(p, Pow10[d]))
         /\ \A k \in 0..x.s : Fits(RoundedQuotient(p, Pow10[k])) => d <= k
  <2> HIDE DEF y
  <2> QED
    BY <1>6, <1>7, RoundedIs DEF S
<1>9. d \in Nat /\ x.s - d \in Nat /\ d + (x.s - d) = x.s
  BY <1>1
<1> DEFINE D == Pow10[d]
           R == Pow10[x.s - d]
           z == RoundedQuotient(p, D)
           m == a * R
<1>10. D \in Nat \ {0} /\ R \in Nat \ {0} /\ S = D * R /\ m \in Nat \ {0} /\ a * S = m * D
  <2>1. Pow10[d + (x.s - d)] = D * R
    BY <1>9, Pow10Adds
  <2>2. D \in Nat \ {0} /\ R \in Nat \ {0}
    BY <1>9, Pow10Steps
  <2>3. a * (D * R) = (a * R) * D /\ a * R \in Nat \ {0}
    BY <2>2
  <2> QED
    BY <1>9, <2>1, <2>2, <2>3 DEF S
<1>11. z \in Nat /\ z <= m
  <2> HIDE DEF m, D
  <2> QED
    BY <1>4, <1>5, <1>10, QuotientRounds
<1>12. z < m
  <2>1. CASE m >= Pow10[Precision]
    BY <1>8, <1>10, <1>11, <2>1, Scales DEF Fits
  <2>2. CASE m < Pow10[Precision] /\ m >= N
    \* The last digit kept is a unit of the amount, and that much is missing.
    <3> HIDE DEF m, D, R
    <3>1. N * D <= m * D
      BY <1>1, <1>10, <2>2, TimesMonotone
    <3>2. (p + D) * N <= (m * D) * N
      <4>1. (p + D) * N = p * N + N * D /\ (m * D) * N = (N - 1) * (m * D) + m * D
        BY <1>1, <1>4, <1>10
      <4>2. p * N \in Nat /\ N * D \in Nat /\ m * D \in Nat /\ (N - 1) * (m * D) \in Nat
        BY <1>1, <1>4, <1>10
      <4>3. p * N <= (N - 1) * (m * D)
        BY <1>4, <1>10
      <4> QED
        BY <3>1, <4>1, <4>2, <4>3
    <3>3. p + D <= m * D
      <4> SUFFICES ASSUME m * D < p + D PROVE FALSE
        BY <1>4, <1>10
      <4>1. (m * D) * N < (p + D) * N
        BY <1>1, <1>4, <1>10, TimesMonotone
      <4>2. (m * D) * N \in Nat /\ (p + D) * N \in Nat
        BY <1>1, <1>4, <1>10
      <4> QED
        BY <3>2, <4>1, <4>2
    <3>4. m - 1 \in Nat /\ (m - 1) * D = m * D - D
      BY <1>10
    <3>5. p <= (m - 1) * D
      BY <1>4, <1>10, <3>3, <3>4
    <3>6. z <= m - 1
      BY <1>4, <1>10, <3>4, <3>5, QuotientRounds
    <3> QED
      BY <1>10, <1>11, <3>6
  <2>3. CASE m < N
    \* Nothing was cut: with one digit more the product would still have fitted.
    <3>1. d = 0
      <4> SUFFICES ASSUME d # 0 PROVE FALSE
        OBVIOUS
      <4>1. d - 1 \in Nat /\ d - 1 \in 0..x.s /\ (d - 1) + 1 = d
        BY <1>1, <1>9
      <4> DEFINE E == Pow10[d - 1]
      <4>2. E \in Nat \ {0} /\ D = 10 * E
        BY <4>1, Pow10Steps
      <4> HIDE DEF m, D, R, E
      <4>3. p <= (10 * m) * E /\ 10 * m \in Nat
        <5>1. (10 * m) * E = m * (10 * E)
          BY <1>10, <4>2
        <5> QED
          BY <1>4, <1>5, <1>10, <4>2, <5>1
      <4>4. RoundedQuotient(p, E) \in Nat /\ RoundedQuotient(p, E) <= 10 * m
        <5> DEFINE M == 10 * m
        <5> HIDE DEF M
        <5>1. p <= M * E /\ M \in Nat
          BY <4>3 DEF M
        <5>2. RoundedQuotient(p, E) \in Nat /\ RoundedQuotient(p, E) <= M
          BY <1>4, <4>2, <5>1, QuotientRounds
        <5> QED
          BY <5>2 DEF M
      <4>5. Fits(RoundedQuotient(p, E))
        BY <1>1, <1>10, <2>3, <4>4 DEF Fits
      <4>6. d <= d - 1
        BY <1>8, <4>1, <4>5 DEF E
      <4> QED
        BY <1>9, <4>6
    <3>2. D = 1 /\ m = a * S
      BY <1>9, <3>1, Pow10Steps DEF S
    <3>3. z = p
      <4> HIDE DEF m, D, R
      <4> QED
        BY <1>4, <3>2, QuotientRounds
    <3> QED
      BY <1>5, <3>2, <3>3
  <2> HIDE DEF m
  <2> QED
    BY <1>1, <1>10, <2>1, <2>2, <2>3, Scales
<1>13. x.s - d \in 0..MaxScale
  BY <1>1, <1>9
<1> HIDE DEF z, y
<1>14. Times(a, x) = [c |-> z, s |-> x.s - d]
  BY <1>3, <1>8 DEF z
<1> QED
  BY <1>11, <1>12, <1>13, <1>14 DEF Decimal

\* All of an amount is the amount.
LEMMA AmountWhole ==
    ASSUME NEW a \in Nat \ {0}, Fits(a),
           NEW y, y = Times(a, [c |-> Pow10[Precision - 1], s |-> Precision - 1])
    PROVE  Decimal(y) /\ y.c = a * Pow10[y.s]
<1> DEFINE N == Pow10[Precision - 1]
           x == [c |-> a * N, s |-> Precision - 1]
<1>1. /\ N \in Nat \ {0} /\ Precision - 1 \in Nat /\ Precision - 1 <= MaxScale /\ MaxScale \in Nat
      /\ a * N \in Nat
  BY Scales
<1>2. y = Rounded(x)
  BY DEF Times
<1>3. Decimal(x) /\ Precision - 1 \in 0..x.s /\ x.c = a * Pow10[Precision - 1] /\ x.s = Precision - 1
  BY <1>1 DEF Decimal
<1> HIDE DEF x
<1>4. Decimal(y) /\ y.s <= x.s /\ y.c * Pow10[x.s - y.s] = x.c
  BY <1>2, <1>3, RoundedExact
<1>5. y.s \in Nat /\ y.c \in Nat /\ x.s - y.s \in Nat /\ y.s + (x.s - y.s) = x.s
  BY <1>1, <1>3, <1>4 DEF Decimal
<1>6. /\ N = Pow10[y.s] * Pow10[x.s - y.s]
      /\ Pow10[y.s] \in Nat \ {0} /\ Pow10[x.s - y.s] \in Nat \ {0}
  <2>1. Pow10[y.s + (x.s - y.s)] = Pow10[y.s] * Pow10[x.s - y.s]
    BY <1>5, Pow10Adds
  <2> QED
    BY <1>3, <1>5, <2>1, Pow10Steps
<1>7. y.c * Pow10[x.s - y.s] = (a * Pow10[y.s]) * Pow10[x.s - y.s] /\ a * Pow10[y.s] \in Nat
  BY <1>3, <1>4, <1>5, <1>6
<1>8. y.c = a * Pow10[y.s]
  <2>1. ASSUME NEW u \in Nat, NEW v \in Nat, u * Pow10[x.s - y.s] = v * Pow10[x.s - y.s]
        PROVE  u = v
    BY <1>6, <2>1, TimesMonotone
  <2> QED
    BY <1>5, <1>7, <2>1
<1> QED
  BY <1>4, <1>8

\* What is left of an amount is a decimal, and nothing is left of nothing.
LEMMA RestIs ==
    ASSUME NEW a \in Nat \ {0}, Fits(a), NEW y, Decimal(y), y.c <= a * Pow10[y.s]
    PROVE  /\ Decimal(Minus(a, y))
           /\ y.c = a * Pow10[y.s] => Minus(a, y).c = 0
<1> DEFINE S == Pow10[y.s]
           n == a * S - y.c
           x == [c |-> n, s |-> y.s]
<1>1. /\ y.c \in Nat /\ y.s \in Nat /\ MaxScale \in Nat /\ y.s <= MaxScale
      /\ S \in Nat \ {0} /\ a * S \in Nat /\ n \in Nat /\ n <= a * S
  <2>1. y.c \in Nat /\ y.s \in Nat /\ MaxScale \in Nat /\ y.s <= MaxScale
    BY Scales DEF Decimal
  <2>2. S \in Nat \ {0} /\ a * S \in Nat
    BY <2>1, Pow10Steps
  <2> QED
    BY <2>1, <2>2
<1>2. Minus(a, y) = Rounded(x)
  BY DEF Minus
<1>3. y.c = a * Pow10[y.s] => n = 0
  BY <1>1
<1> HIDE DEF S, n
<1>4. Decimal(x) /\ x.c = n /\ x.s = y.s
  BY <1>1 DEF Decimal
<1>5. Fits(RoundedQuotient(n, S)) /\ y.s \in 0..y.s
  <2>1. RoundedQuotient(n, S) \in Nat /\ RoundedQuotient(n, S) <= a
    BY <1>1, QuotientRounds
  <2> QED
    BY <1>1, <2>1, Scales DEF Fits
<1>6. PICK d \in 0..y.s : Rounded(x) = [c |-> RoundedQuotient(n, Pow10[d]), s |-> y.s - d]
  <2> HIDE DEF x
  <2> QED
    BY <1>4, <1>5, RoundedIs DEF S
<1>7. d \in Nat /\ Pow10[d] \in Nat \ {0} /\ y.s - d \in 0..MaxScale
  BY <1>1, Pow10Steps
<1>8. RoundedQuotient(n, Pow10[d]) \in Nat /\ (n = 0 => RoundedQuotient(n, Pow10[d]) = 0)
  <2>1. 0 = 0 * Pow10[d]
    BY <1>7
  <2> QED
    BY <1>1, <1>7, <2>1, QuotientRounds
<1> HIDE DEF x
<1> QED
  BY <1>2, <1>3, <1>6, <1>7, <1>8 DEF Decimal
-------------------------------------------------------------------------------
(* Orders.                                                                 *)

\* Fills never exceed the order, and what a reservation says of it is kept.
Inv ==
    /\ original \in Amounts /\ quantity \in Quantities /\ filled \in 0..quantity
    /\ ConvertedWhenFilled

\* The numbers of an accepted order.
LEMMA Accepted ==
    ASSUME original \in Amounts, quantity \in Quantities
    PROVE  original \in Nat \ {0} /\ Fits(original) /\ quantity \in Nat \ {0}
BY SplitConstants, AmountsFit DEF SplitConstants, AmountsFit, Fits

\* A part of a fill is never more than the whole, and is the whole exactly when
\* the order is filled.
LEMMA PartIs ==
    ASSUME FewLots, original \in Amounts, quantity \in Quantities, NEW total \in 1..quantity
    PROVE  /\ Decimal(PositionAmount(total))
           /\ PositionAmount(total).c <= original * Pow10[PositionAmount(total).s]
           /\ PositionAmount(total).c = original * Pow10[PositionAmount(total).s] <=> total = quantity
<1>1. original \in Nat \ {0} /\ Fits(original) /\ quantity \in Nat \ {0} /\ quantity <= Pow10[Precision - 1]
  BY Accepted DEF FewLots
<1> DEFINE y == PositionAmount(total)
<1>2. CASE total = quantity
  <2>1. y = Times(original, [c |-> Pow10[Precision - 1], s |-> Precision - 1])
    BY <1>1, <1>2, ShareOne DEF PositionAmount
  <2>2. Decimal(y) /\ y.c = original * Pow10[y.s]
    <3> HIDE DEF y
    <3> QED
      BY <1>1, <2>1, AmountWhole
  <2>3. y.c \in Nat
    BY <2>2 DEF Decimal
  <2> HIDE DEF y
  <2>4. y.c <= original * Pow10[y.s]
    BY <2>2, <2>3
  <2> QED
    BY <1>2, <2>2, <2>4 DEF y
<1>3. CASE total # quantity
  <2> DEFINE x == Quotient(total, quantity)
  <2>1. Decimal(x) /\ BelowOne(x)
    BY <1>1, <1>3, ShareBelowOne
  <2>2. y = Times(original, x)
    BY DEF PositionAmount
  <2>3. Decimal(y) /\ y.c < original * Pow10[y.s]
    <3> HIDE DEF x
    <3> QED
      BY <1>1, <2>1, <2>2, AmountBelow
  <2>4. y.c \in Nat /\ y.s \in Nat /\ Pow10[y.s] \in Nat
    BY <2>3, Scales, Pow10Steps DEF Decimal
  <2> HIDE DEF y
  <2>5. original * Pow10[y.s] \in Nat
    BY <1>1, <2>4
  <2> QED
    BY <1>3, <2>3, <2>4, <2>5 DEF y
<1> QED
  BY <1>2, <1>3

\* A fill that is recorded keeps the invariant: when nothing is left working, the
\* two parts that PostgreSQL added up say that the converted part is the whole.
LEMMA FillKeeps ==
    ASSUME FewLots, Inv, NEW n \in 1..quantity, record_fill(n)
    PROVE  Inv'
<1> DEFINE part == PositionAmount(filled + n)
           rest == Minus(original, part)
<1>1. /\ original \in Nat \ {0} /\ Fits(original) /\ quantity \in Nat \ {0}
      /\ filled \in 0..quantity /\ n \in 1..quantity
  BY Accepted DEF Inv
<1>2. filled + n \in 1..quantity /\ UNCHANGED <<original, quantity>>
  BY <1>1 DEF record_fill
<1>3. CASE ~AddsUp(rest, part, original)
  <2>1. UNCHANGED <<filled, working, converted>>
    BY <1>3 DEF record_fill
  <2> QED
    BY <1>2, <2>1 DEF Inv, ConvertedWhenFilled
<1>4. CASE AddsUp(rest, part, original)
  <2>1. filled' = filled + n /\ converted' = part /\ working' = rest
    BY <1>4 DEF record_fill
  <2>2. /\ Decimal(part) /\ part.c <= original * Pow10[part.s]
        /\ part.c = original * Pow10[part.s] <=> filled + n = quantity
    BY <1>2, PartIs DEF Inv
  <2> HIDE DEF part
  <2>3. /\ Decimal(rest)
        /\ part.c = original * Pow10[part.s] => rest.c = 0
    BY <1>1, <2>2, RestIs
  <2> HIDE DEF rest
  <2>4. rest.c = 0 => part.c = original * Pow10[part.s]
    <3> SUFFICES ASSUME rest.c = 0 PROVE part.c = original * Pow10[part.s]
      OBVIOUS
    <3>1. rest.s \in Nat /\ part.s \in Nat /\ part.c \in Nat
      BY <2>2, <2>3, Scales DEF Decimal
    <3> DEFINE A == Pow10[part.s]
               B == Pow10[rest.s]
    <3>2. A \in Nat \ {0} /\ B \in Nat \ {0} /\ Pow10[rest.s + part.s] = B * A
      BY <3>1, Pow10Steps, Pow10Adds
    <3>3. 0 * A + part.c * B = original * (B * A)
      BY <1>4, <3>2 DEF AddsUp
    <3> HIDE DEF A, B
    <3>4. part.c * B = (original * A) * B /\ original * A \in Nat
      BY <1>1, <3>1, <3>2, <3>3
    <3>5. ASSUME NEW u \in Nat, NEW v \in Nat, u * B = v * B PROVE u = v
      BY <3>2, <3>5, TimesMonotone
    <3> QED
      BY <3>1, <3>4, <3>5 DEF A
  <2>5. (filled \in 0..quantity)'
    BY <1>2, <2>1
  <2> QED
    BY <1>2, <2>1, <2>2, <2>3, <2>4, <2>5 DEF Inv, ConvertedWhenFilled
<1> QED
  BY <1>3, <1>4

\* ConvertedWhenFilled, of record_fill in paper_service.py, for any precision of the
\* decimal context, any amounts and any orders of at most 10^(Precision - 1) lots (10^27
\* in the code), however they are cut into fills.
THEOREM SplitConverts == ASSUME FewLots PROVE Spec => []ConvertedWhenFilled
<1>1. Init => Inv
  <2> SUFFICES ASSUME Init PROVE Inv
    OBVIOUS
  <2>1. original \in Amounts /\ quantity \in Quantities /\ filled = 0 /\ working.c = original
    BY DEF Init
  <2>2. original \in Nat \ {0} /\ quantity \in Nat \ {0}
    BY <2>1, Accepted
  <2> QED
    BY <2>1, <2>2 DEF Inv, ConvertedWhenFilled
<1>2. Inv /\ [Next]_vars => Inv'
  <2> SUFFICES ASSUME Inv, [Next]_vars PROVE Inv'
    OBVIOUS
  <2>1. CASE Next
    BY <2>1, FillKeeps DEF Next
  <2>2. CASE UNCHANGED vars
    BY <2>2 DEF vars, Inv, ConvertedWhenFilled
  <2> QED
    BY <2>1, <2>2
<1>3. Inv => ConvertedWhenFilled
  BY DEF Inv
<1> QED
  BY <1>1, <1>2, <1>3, PTL DEF Spec

-------------------------------------------------------------------------------
(* When no fill is refused.                                                *)

\* Every order's size divides a power of ten, so that all its shares are finite
\* decimals, and the amounts leave room for their digits.
FiniteShares ==
    \A q \in Quantities : \E j, m \in Nat :
        q * m = Pow10[j] /\ \A a \in Amounts : Fits(a * Pow10[j])

\* n over Pow10[j], written with more digits.
Holds(x, n, j) == Decimal(x) /\ x.s >= j /\ x.c = n * Pow10[x.s - j]

\* Rounding a value that needs j digits after the point and fits.
LEMMA RoundedHolds ==
    ASSUME NEW j \in Nat, NEW n \in Nat, Fits(n), NEW x, Holds(x, n, j)
    PROVE  Holds(Rounded(x), n, j)
<1>1. x.s \in Nat /\ x.c \in Nat /\ x.s - j \in 0..x.s /\ Decimal(x)
  BY Scales DEF Holds, Decimal
<1> DEFINE y == Rounded(x)
<1>2. Decimal(y) /\ y.s <= x.s /\ x.s - y.s <= x.s - j /\ y.c * Pow10[x.s - y.s] = x.c
  <2>1. x.c = n * Pow10[x.s - j]
    BY DEF Holds
  <2> QED
    BY <1>1, <2>1, RoundedExact
<1> HIDE DEF y
<1>3. /\ y.s \in Nat /\ y.c \in Nat /\ y.s - j \in Nat /\ x.s - y.s \in Nat /\ y.s >= j
      /\ (y.s - j) + (x.s - y.s) = x.s - j
  BY <1>1, <1>2, Scales DEF Decimal
<1>4. /\ Pow10[x.s - j] = Pow10[y.s - j] * Pow10[x.s - y.s]
      /\ Pow10[y.s - j] \in Nat \ {0} /\ Pow10[x.s - y.s] \in Nat \ {0}
  <2>1. Pow10[(y.s - j) + (x.s - y.s)] = Pow10[y.s - j] * Pow10[x.s - y.s]
    BY <1>3, Pow10Adds
  <2> QED
    BY <1>3, <2>1, Pow10Steps
<1>5. y.c * Pow10[x.s - y.s] = (n * Pow10[y.s - j]) * Pow10[x.s - y.s] /\ n * Pow10[y.s - j] \in Nat
  BY <1>2, <1>3, <1>4 DEF Holds
<1>6. ASSUME NEW u \in Nat, NEW v \in Nat, u * Pow10[x.s - y.s] = v * Pow10[x.s - y.s]
      PROVE  u = v
  BY <1>4, <1>6, TimesMonotone
<1>7. y.c = n * Pow10[y.s - j]
  BY <1>3, <1>5, <1>6
<1> QED
  BY <1>2, <1>3, <1>7 DEF Holds, y

\* A share of an order whose size divides a power of ten is exact.
LEMMA ShareExact ==
    ASSUME NEW q \in Nat \ {0}, NEW t \in 1..q, NEW j \in Nat, NEW m \in Nat,
           q * m = Pow10[j], j <= Precision - 1
    PROVE  Holds(Quotient(t, q), t * m, j)
<1>1. /\ Pow10[j] \in Nat \ {0} /\ Pow10[j] <= Pow10[Precision - 1] /\ m # 0 /\ t \in Nat /\ t <= q
      /\ Precision - 1 \in Nat /\ Pow10[Precision - 1] \in Nat \ {0}
  <2>1. Pow10[j] \in Nat \ {0} /\ Precision - 1 \in Nat /\ Pow10[Precision - 1] \in Nat \ {0}
    BY Scales, Pow10Steps
  <2>2. Pow10[j] <= Pow10[Precision - 1]
    BY <2>1, Pow10Grows
  <2>3. m # 0
    BY <2>1
  <2> QED
    BY <2>1, <2>2, <2>3
<1>2. q <= Pow10[Precision - 1]
  <2>1. 1 * q <= m * q /\ m * q = q * m
    BY <1>1, TimesMonotone
  <2> QED
    BY <1>1, <2>1
<1>3. PICK k \in (Precision - 1)..MaxScale :
              /\ Quotient(t, q) = Rounded([c |-> RoundedQuotient(t * Pow10[k], q), s |-> k])
              /\ k # Precision - 1 => t * Pow10[k] < q * Pow10[Precision]
  BY <1>2, ShareScale
<1>4. k \in Nat /\ k <= MaxScale /\ k - j \in Nat /\ j + (k - j) = k /\ k >= j /\ MaxScale \in Nat
  BY <1>1, Scales
<1> DEFINE r == Pow10[k - j]
           c0 == (t * m) * r
           x == [c |-> c0, s |-> k]
<1>5. r \in Nat \ {0} /\ Pow10[k] = (q * m) * r /\ c0 \in Nat
  <2>1. Pow10[j + (k - j)] = Pow10[j] * r /\ r \in Nat \ {0}
    BY <1>4, Pow10Adds, Pow10Steps
  <2> QED
    BY <1>1, <1>4, <2>1
<1> HIDE DEF r
<1>6. t * Pow10[k] = c0 * q
  <2>1. t * ((q * m) * r) = ((t * m) * r) * q
    BY <1>1, <1>5
  <2> QED
    BY <1>5, <2>1
<1> HIDE DEF c0
<1>7. RoundedQuotient(t * Pow10[k], q) = c0
  <2>1. t * Pow10[k] \in Nat
    BY <1>5, <1>6
  <2> QED
    BY <1>5, <1>6, <2>1, QuotientRounds
<1>8. Fits(c0)
  <2>1. CASE k = Precision - 1
    <3>1. t * Pow10[k] <= q * Pow10[k] /\ q * Pow10[k] = Pow10[k] * q /\ Pow10[k] \in Nat
      BY <1>1, <2>1, TimesMonotone
    <3>2. RoundedQuotient(t * Pow10[k], q) <= Pow10[k]
      <4>1. t * Pow10[k] \in Nat
        BY <1>5, <1>6
      <4> QED
        BY <3>1, <4>1, QuotientRounds
    <3> QED
      BY <1>5, <1>7, <2>1, <3>2, Scales DEF Fits
  <2>2. CASE k # Precision - 1
    <3> SUFFICES ASSUME Pow10[Precision] <= c0 PROVE FALSE
      BY <1>5, Scales DEF Fits
    <3>1. Pow10[Precision] * q <= c0 * q
      BY <1>5, Scales, TimesMonotone
    <3>2. Pow10[Precision] * q = q * Pow10[Precision] /\ q * Pow10[Precision] \in Nat /\ c0 * q \in Nat
      BY <1>5, Scales
    <3> QED
      BY <1>3, <1>6, <2>2, <3>1, <3>2
  <2> QED
    BY <2>1, <2>2
<1>9. /\ Decimal(x) /\ 0 \in 0..x.s /\ x.c = c0 * Pow10[0] /\ x.c = c0 /\ x.s = k
  BY <1>4, <1>5, Pow10Steps DEF Decimal
<1>10. Quotient(t, q) = Rounded(x)
  BY <1>3, <1>7
<1> DEFINE y == Rounded(x)
<1>11. Decimal(y) /\ y.s <= x.s /\ x.s - y.s <= 0 /\ y.c * Pow10[x.s - y.s] = x.c
  <2> HIDE DEF x
  <2> QED
    BY <1>5, <1>8, <1>9, RoundedExact
<1>12. y.s = k /\ y.c = c0
  <2>1. y.s = k /\ y.c \in Nat /\ k - k = 0
    BY <1>4, <1>9, <1>11 DEF Decimal
  <2> QED
    BY <1>9, <1>11, <2>1, Pow10Steps
<1> HIDE DEF y
<1> QED
  BY <1>4, <1>10, <1>11, <1>12 DEF Holds, c0, r, y

\* The two parts of such a fill add up.
LEMMA SharesAddUp ==
    ASSUME FiniteShares, original \in Amounts, quantity \in Quantities, NEW total \in 1..quantity
    PROVE  AddsUp(Minus(original, PositionAmount(total)), PositionAmount(total), original)
<1>1. original \in Nat \ {0} /\ quantity \in Nat \ {0}
  BY Accepted
<1>2. PICK j, m \in Nat : quantity * m = Pow10[j] /\ Fits(original * Pow10[j])
  BY DEF FiniteShares
<1>3. Pow10[j] \in Nat \ {0} /\ total \in Nat /\ total <= quantity
  BY <1>1, Pow10Steps
<1>4. j <= Precision - 1
  <2> SUFFICES ASSUME Precision <= j PROVE FALSE
    BY Scales
  <2>1. Pow10[Precision] <= Pow10[j]
    BY Pow10Grows, Scales
  <2>2. 1 * Pow10[j] <= original * Pow10[j] /\ original * Pow10[j] \in Nat
    BY <1>1, <1>3, TimesMonotone
  <2> QED
    BY <1>2, <1>3, <2>1, <2>2, Scales DEF Fits
<1> DEFINE n == total * m
           rest == Pow10[j] - n
<1>5. n \in Nat /\ rest \in Nat
  <2>1. total * m <= quantity * m /\ total * m \in Nat
    BY <1>1, <1>3, TimesMonotone
  <2> QED
    BY <1>2, <1>3, <2>1
<1>6. /\ original * n \in Nat /\ Fits(original * n)
      /\ original * rest \in Nat /\ Fits(original * rest)
      /\ original * Pow10[j] = original * n + original * rest
  <2> HIDE DEF n
  <2>1. original * Pow10[j] = original * n + original * rest
    BY <1>1, <1>3, <1>5
  <2> HIDE DEF rest
  <2>2. original * n \in Nat /\ original * rest \in Nat
    BY <1>1, <1>5
  <2> QED
    BY <1>2, <2>1, <2>2, Scales DEF Fits
<1> DEFINE x == Quotient(total, quantity)
<1>7. Holds(x, n, j)
  BY <1>1, <1>2, <1>4, ShareExact
<1> HIDE DEF n, rest, x
<1> DEFINE y == PositionAmount(total)
           y0 == [c |-> original * x.c, s |-> x.s]
<1>8. Holds(y, original * n, j)
  <2>1. y = Rounded(y0)
    BY DEF PositionAmount, Times, x
  <2>2. x.c \in Nat /\ x.s \in Nat /\ x.s <= MaxScale /\ MaxScale \in Nat /\ x.s - j \in Nat
        /\ x.c = n * Pow10[x.s - j] /\ x.s >= j
    BY <1>7, Scales DEF Holds, Decimal
  <2>3. Pow10[x.s - j] \in Nat \ {0}
    BY <2>2, Pow10Steps
  <2>4. original * (n * Pow10[x.s - j]) = (original * n) * Pow10[x.s - j] /\ original * x.c \in Nat
    BY <1>1, <1>5, <2>2, <2>3
  <2>5. Holds(y0, original * n, j)
    BY <2>2, <2>4 DEF Holds, Decimal
  <2> HIDE DEF y0, y
  <2> QED
    BY <1>6, <2>1, <2>5, RoundedHolds
<1> HIDE DEF y
<1> DEFINE S == Pow10[y.s]
           z == Minus(original, y)
           z0 == [c |-> original * S - y.c, s |-> y.s]
           r == Pow10[y.s - j]
<1>9. /\ y.c \in Nat /\ y.s \in Nat /\ y.s <= MaxScale /\ MaxScale \in Nat /\ y.s - j \in Nat
      /\ y.s >= j /\ j + (y.s - j) = y.s /\ y.c = (original * n) * r
  BY <1>8, Scales DEF Holds, Decimal
<1>10. S \in Nat \ {0} /\ r \in Nat \ {0} /\ S = Pow10[j] * r
  <2>1. Pow10[j + (y.s - j)] = Pow10[j] * r
    BY <1>9, Pow10Adds
  <2> QED
    BY <1>9, <2>1, Pow10Steps
<1> HIDE DEF r, S
<1>11. original * S - y.c = (original * rest) * r /\ original * S - y.c \in Nat
  <2>1. original * (Pow10[j] * r) = (original * Pow10[j]) * r
    BY <1>1, <1>3, <1>10
  <2>2. (original * n + original * rest) * r = (original * n) * r + (original * rest) * r
    BY <1>6, <1>10
  <2>3. (original * rest) * r \in Nat /\ (original * n) * r \in Nat
    BY <1>6, <1>10
  <2> QED
    BY <1>6, <1>9, <1>10, <2>1, <2>2, <2>3
<1>12. Holds(z, original * rest, j) /\ z.s <= y.s /\ z.c * Pow10[y.s - z.s] = original * S - y.c
  <2>1. z = Rounded(z0)
    BY DEF Minus, S
  <2>2. Holds(z0, original * rest, j) /\ z0.s = y.s /\ z0.c = original * S - y.c
    BY <1>9, <1>11 DEF Holds, Decimal, r
  <2> HIDE DEF z, z0
  <2>3. Holds(z, original * rest, j)
    BY <1>6, <2>1, <2>2, RoundedHolds
  <2>4. Decimal(z0) /\ y.s - j \in 0..z0.s /\ z0.c = (original * rest) * Pow10[y.s - j]
    BY <1>9, <1>11, <2>2 DEF Holds, r
  <2>5. z.s <= z0.s /\ z.c * Pow10[z0.s - z.s] = z0.c
    BY <1>6, <2>1, <2>4, RoundedExact
  <2> QED
    BY <2>2, <2>3, <2>5
<1> HIDE DEF z
<1>13. z.c \in Nat /\ z.s \in Nat /\ y.s - z.s \in Nat /\ z.s + (y.s - z.s) = y.s
  BY <1>9, <1>12, Scales DEF Holds, Decimal
<1> DEFINE Z == Pow10[z.s]
           w == Pow10[y.s - z.s]
<1>14. Z \in Nat \ {0} /\ w \in Nat \ {0} /\ S = Z * w /\ Pow10[z.s + y.s] = Z * S
  <2>1. Pow10[z.s + (y.s - z.s)] = Z * w /\ Pow10[z.s + y.s] = Z * Pow10[y.s]
    BY <1>9, <1>13, Pow10Adds
  <2> QED
    BY <1>13, <2>1, Pow10Steps DEF S
<1>15. z.c * w = original * S - y.c
  BY <1>12
<1> HIDE DEF Z, w
<1>16. z.c * S + y.c * Z = original * (Z * S)
  <2>1. z.c * (Z * w) = (z.c * w) * Z
    BY <1>13, <1>14
  <2>2. (original * S - y.c) * Z + y.c * Z = original * (Z * S)
    <3>1. original * S \in Nat
      BY <1>1, <1>10
    <3>2. (original * S - y.c) * Z = (original * S) * Z - y.c * Z
      BY <1>9, <1>14, <3>1
    <3>3. (original * S) * Z = original * (Z * S)
      BY <1>1, <1>10, <1>14
    <3>4. y.c * Z \in Nat /\ (original * S) * Z \in Nat
      BY <1>9, <1>14, <3>1
    <3> QED
      BY <3>2, <3>3, <3>4
  <2> QED
    BY <1>14, <1>15, <2>1, <2>2
<1> QED
  BY <1>14, <1>16 DEF AddsUp, S, Z, y, z

\* PartialFillRecorded, which the CHECK of migration 007 breaks in general, holds when
\* every order's size divides a power of ten and the amounts leave room for the digits of
\* the shares: then no partial fill is refused.
THEOREM FiniteSharesRecorded == ASSUME FiniteShares PROVE Spec => []PartialFillRecorded
<1> DEFINE I == /\ original \in Amounts /\ quantity \in Quantities /\ filled \in 0..quantity
                /\ ~refused
<1>1. Init => I
  BY Accepted DEF Init
<1>2. I /\ [Next]_vars => I'
  <2> SUFFICES ASSUME I, [Next]_vars PROVE I'
    OBVIOUS
  <2>1. CASE Next
    <3>1. PICK n \in 1..quantity : record_fill(n)
      BY <2>1 DEF Next
    <3>2. quantity \in Nat /\ filled + n \in 1..quantity
      BY <3>1, Accepted DEF record_fill
    <3>3. AddsUp(Minus(original, PositionAmount(filled + n)), PositionAmount(filled + n), original)
      BY <3>2, SharesAddUp
    <3> QED
      BY <3>1, <3>2, <3>3 DEF record_fill
  <2>2. CASE UNCHANGED vars
    BY <2>2 DEF vars
  <2> QED
    BY <2>1, <2>2
<1>3. I => PartialFillRecorded
  BY DEF PartialFillRecorded
<1> QED
  BY <1>1, <1>2, <1>3, PTL DEF Spec
===============================================================================
