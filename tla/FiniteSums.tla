------------------------------ MODULE FiniteSums ------------------------------
(***************************************************************************)
(* Sums over finite sets, as the tables are summed in SQL: of the budgets  *)
(* of a campaign's tasks, of the reservations of a pool, of the costs of   *)
(* calls.  The models write them with MapThenSumSet, which picks elements  *)
(* in an order of its own.  These lemmas say that the order does not       *)
(* matter: a row that joins a sum adds its amount, a row whose amount      *)
(* changes moves the sum by the difference.                                *)
(*                                                                         *)
(* Induction is by a smallest counterexample: a non-empty family of        *)
(* subsets of a finite set has a member minimal under inclusion.           *)
(***************************************************************************)
EXTENDS Integers, FiniteSets, FiniteSetsExt, FiniteSetTheorems, NaturalsInduction, TLAPS

Pick(s) == CHOOSE x \in s : TRUE

\* g gives every subset of S its sum of the amounts f.
Sums(f, g, S) ==
    g = [s \in SUBSET S |-> IF s = {} THEN 0 ELSE f[Pick(s)] + g[s \ {Pick(s)}]]

Summable(f, S) == \A x \in S : f[x] \in Int

SumOver(f, S) == MapThenSumSet(LAMBDA x : f[x], S)

-------------------------------------------------------------------------------

\* Induction over the rows of a finite table: a family of sets of rows has a
\* smallest member.
LEMMA SmallestSet ==
    ASSUME NEW S, IsFiniteSet(S), NEW W, W \subseteq SUBSET S, W # {}
    PROVE  \E T \in W : \A U \in W : U \subseteq T => U = T
<1>1. IsWellFoundedOn(StrictSubsetOrdering(S), FiniteSubsetsOf(S))
  BY FS_StrictSubsetOrderingWellFounded
<1>2. FiniteSubsetsOf(S) = SUBSET S
  BY FS_FiniteSubsetsOfFinite
<1>3. PICK T \in W : \A U \in W : ~(<<U, T>> \in StrictSubsetOrdering(S))
  BY <1>1, <1>2, WFMin
<1> QED
  BY <1>3 DEF StrictSubsetOrdering

\* Induction over positions, of a rule in its list, of a quote in its tape or of a
\* digit in a number: a set of positions has a first one.
LEMMA FirstPosition ==
    ASSUME NEW W, W \subseteq Nat, W # {}
    PROVE  \E m \in W : \A k \in W : m <= k
<1> DEFINE R == OpToRel(<, Nat)
<1>1. IsWellFoundedOn(R, Nat)
  BY NatLessThanWellFounded
<1>2. \A x, y \in Nat : x < y => <<x, y>> \in R
  BY DEF OpToRel
<1> HIDE DEF R
<1>3. PICK m \in W : \A y \in W : ~(<<y, m>> \in R)
  BY <1>1, WFMin
<1>4. \A y \in W : ~(y < m)
  BY <1>2, <1>3
<1>5. \A y \in W : y \in Nat
  OBVIOUS
<1> QED
  BY <1>3, <1>4, <1>5

\* Two tables that hold the same amounts in the rows of T have the same sum
\* over T, whatever other rows they hold.
LEMMA SumsAgree ==
    ASSUME NEW S, NEW R, NEW T, T \subseteq S, T \subseteq R, IsFiniteSet(T),
           NEW f, NEW e, \A x \in T : f[x] = e[x],
           NEW g, NEW h, Sums(f, g, S), Sums(e, h, R)
    PROVE  g[T] = h[T]
<1> DEFINE W == {s \in SUBSET T : g[s] # h[s]}
<1> SUFFICES ASSUME W # {} PROVE FALSE
  OBVIOUS
<1>1. PICK s \in W : \A U \in W : U \subseteq s => U = s
  <2>1. W \subseteq SUBSET T
    OBVIOUS
  <2> HIDE DEF W
  <2> QED
    BY <2>1, SmallestSet
<1>2. s \in SUBSET S /\ s \in SUBSET R /\ g[s] # h[s]
  BY <1>1
<1>3. s # {}
  BY <1>2 DEF Sums
<1>4. Pick(s) \in s
  BY <1>3 DEF Pick
<1>5. g[s \ {Pick(s)}] = h[s \ {Pick(s)}]
  BY <1>1, <1>4
<1>6. g[s] = f[Pick(s)] + g[s \ {Pick(s)}] /\ h[s] = e[Pick(s)] + h[s \ {Pick(s)}]
  BY <1>2, <1>3 DEF Sums
<1>7. f[Pick(s)] = e[Pick(s)]
  BY <1>1, <1>4
<1> QED
  BY <1>2, <1>5, <1>6, <1>7

\* Every finite table has sums.
LEMMA SumsExist ==
    ASSUME NEW S, IsFiniteSet(S), NEW f
    PROVE  \E g : Sums(f, g, S)
<1> DEFINE W == {T \in SUBSET S : ~ \E g : Sums(f, g, T)}
<1> SUFFICES ASSUME W # {} PROVE FALSE
  OBVIOUS
<1>1. PICK T \in W : \A U \in W : U \subseteq T => U = T
  <2>1. W \subseteq SUBSET S
    OBVIOUS
  <2> HIDE DEF W
  <2> QED
    BY <2>1, SmallestSet
<1> DEFINE G(U) == CHOOSE g : Sums(f, g, U)
           Rest(s) == s \ {Pick(s)}
           new == [s \in SUBSET T |-> IF s = {} THEN 0 ELSE f[Pick(s)] + G(Rest(s))[Rest(s)]]
<1>2. ASSUME NEW U \in SUBSET T, U # T PROVE Sums(f, G(U), U)
  BY <1>1, <1>2
<1>3. ASSUME NEW s \in SUBSET T, s # {}
      PROVE  new[Rest(s)] = G(Rest(s))[Rest(s)]
  <2>1. Pick(s) \in s
    BY <1>3 DEF Pick
  <2>2. Rest(s) \in SUBSET T /\ Rest(s) # T
    BY <2>1
  <2>3. Sums(f, G(Rest(s)), Rest(s))
    BY <1>2, <2>2
  <2>4. CASE Rest(s) = {}
    <3>1. G(Rest(s))[Rest(s)] = 0
      BY <2>3, <2>4 DEF Sums
    <3> QED
      BY <2>2, <2>4, <3>1
  <2>5. CASE Rest(s) # {}
    <3> DEFINE r == Rest(s)
    <3>1. Pick(r) \in r
      BY <2>5 DEF Pick
    <3>2. Rest(r) \in SUBSET T /\ Rest(r) # T /\ Rest(r) \subseteq r
      BY <2>2, <3>1
    <3>3. Sums(f, G(Rest(r)), Rest(r))
      BY <1>2, <3>2
    <3>4. IsFiniteSet(Rest(r))
      BY <3>2, FS_Subset
    <3>5. G(r)[Rest(r)] = G(Rest(r))[Rest(r)]
      BY <2>3, <3>2, <3>3, <3>4, SumsAgree
    <3>6. G(r)[r] = f[Pick(r)] + G(r)[Rest(r)]
      BY <2>3, <2>5 DEF Sums
    <3>7. new[r] = f[Pick(r)] + G(Rest(r))[Rest(r)]
      BY <2>2, <2>5
    <3> QED
      BY <3>5, <3>6, <3>7
  <2> QED
    BY <2>4, <2>5
<1>4. Sums(f, new, T)
  <2>1. new = [s \in SUBSET T |-> IF s = {} THEN 0 ELSE f[Pick(s)] + new[Rest(s)]]
    <3>1. \A s \in SUBSET T :
              new[s] = IF s = {} THEN 0 ELSE f[Pick(s)] + new[Rest(s)]
      <4> SUFFICES ASSUME NEW s \in SUBSET T
                   PROVE  new[s] = IF s = {} THEN 0 ELSE f[Pick(s)] + new[Rest(s)]
        OBVIOUS
      <4>1. new[s] = IF s = {} THEN 0 ELSE f[Pick(s)] + G(Rest(s))[Rest(s)]
        OBVIOUS
      <4> HIDE DEF new, G, Rest
      <4> QED
        BY <1>3, <4>1
    <3>2. new = [s \in SUBSET T |-> new[s]]
      OBVIOUS
    <3> HIDE DEF new, Rest
    <3> QED
      BY <3>1, <3>2
  <2> QED
    BY <2>1 DEF Sums
<1> QED
  BY <1>1, <1>4

\* The sum of the empty table is 0 and a sum is the one its table of sums gives.
LEMMA SumIs ==
    ASSUME NEW S, IsFiniteSet(S), NEW f
    PROVE  \E g : Sums(f, g, S) /\ SumOver(f, S) = g[S]
<1> DEFINE h == CHOOSE g : Sums(f, g, S)
<1>1. Sums(f, h, S)
  BY SumsExist
<1>2. SumOver(f, S) = h[S]
  BY DEF SumOver, MapThenSumSet, MapThenFoldSet, Sums, Pick
<1> QED
  BY <1>1, <1>2

\* A row that joins a table adds its amount to the sum, whichever row it is
\* and whatever order the rows are summed in.
LEMMA SumsPeel ==
    ASSUME NEW S, IsFiniteSet(S), NEW f, Summable(f, S), NEW g, Sums(f, g, S)
    PROVE  \A s \in SUBSET S : /\ g[s] \in Int
                              /\ \A y \in s : g[s] = f[y] + g[s \ {y}]
<1> DEFINE Good(s) == g[s] \in Int /\ \A y \in s : g[s] = f[y] + g[s \ {y}]
           W == {s \in SUBSET S : ~Good(s)}
<1> SUFFICES ASSUME W # {} PROVE FALSE
  OBVIOUS
<1>1. PICK s \in W : \A U \in W : U \subseteq s => U = s
  <2>1. W \subseteq SUBSET S
    OBVIOUS
  <2> HIDE DEF W
  <2> QED
    BY <2>1, SmallestSet
<1>2. s \in SUBSET S /\ ~Good(s)
  BY <1>1
<1>3. \A U \in SUBSET s : U # s => Good(U)
  BY <1>1
<1>4. s # {}
  BY <1>2 DEF Sums
<1> DEFINE c == Pick(s)
<1>5. c \in s
  BY <1>4 DEF Pick
<1>6. g[s] = f[c] + g[s \ {c}]
  BY <1>2, <1>4 DEF Sums
<1> HIDE DEF c, W
<1>7. f[c] \in Int /\ g[s \ {c}] \in Int
  BY <1>2, <1>3, <1>5 DEF Summable
<1>8. ASSUME NEW y \in s PROVE g[s] = f[y] + g[s \ {y}]
  <2>1. CASE y = c
    BY <1>6, <2>1
  <2>2. CASE y # c
    <3>1. Good(s \ {c}) /\ Good(s \ {y})
      BY <1>3, <1>5
    <3>2. g[s \ {c}] = f[y] + g[(s \ {c}) \ {y}]
      BY <2>2, <3>1
    <3>3. g[s \ {y}] = f[c] + g[(s \ {y}) \ {c}]
      BY <1>5, <2>2, <3>1
    <3>4. g[(s \ {y}) \ {c}] = g[(s \ {c}) \ {y}]
      <4>1. (s \ {y}) \ {c} = (s \ {c}) \ {y}
        OBVIOUS
      <4> QED
        BY ONLY <4>1
    <3>5. f[y] \in Int /\ g[(s \ {c}) \ {y}] \in Int
      <4>1. Good((s \ {c}) \ {y})
        BY <1>3, <1>5
      <4> QED
        BY <1>2, <4>1 DEF Summable
    <3> QED
      BY ONLY <1>6, <1>7, <3>2, <3>3, <3>4, <3>5
  <2> QED
    BY <2>1, <2>2
<1>9. Good(s)
  <2>1. g[s] \in Int
    BY ONLY <1>6, <1>7
  <2> QED
    BY <1>8, <2>1
<1> QED
  BY <1>2, <1>9

-------------------------------------------------------------------------------
(* What the proofs about the models use.                                   *)

\* Nothing allocated yet: the empty sum.
LEMMA SumEmpty == \A f : SumOver(f, {}) = 0
<1> TAKE f
<1>1. PICK g : Sums(f, g, {}) /\ SumOver(f, {}) = g[{}]
  BY SumIs, FS_EmptySet
<1> QED
  BY <1>1 DEF Sums

\* A sum of amounts is an amount.
LEMMA SumInt ==
    ASSUME NEW S, IsFiniteSet(S), NEW f, Summable(f, S)
    PROVE  SumOver(f, S) \in Int
<1>1. PICK g : Sums(f, g, S) /\ SumOver(f, S) = g[S]
  BY SumIs
<1> QED
  BY <1>1, SumsPeel

\* Sums depend on nothing but the amounts of their rows.
LEMMA SumSame ==
    ASSUME NEW S, IsFiniteSet(S), NEW f, NEW e, \A x \in S : f[x] = e[x]
    PROVE  SumOver(f, S) = SumOver(e, S)
<1>1. PICK g : Sums(f, g, S) /\ SumOver(f, S) = g[S]
  BY SumIs
<1>2. PICK h : Sums(e, h, S) /\ SumOver(e, S) = h[S]
  BY SumIs
<1>3. g[S] = h[S]
  BY <1>1, <1>2, SumsAgree
<1> QED
  BY <1>1, <1>2, <1>3

\* A new row adds its amount.
LEMMA SumAdd ==
    ASSUME NEW S, IsFiniteSet(S), NEW y, y \notin S, NEW f, Summable(f, S \cup {y})
    PROVE  SumOver(f, S \cup {y}) = SumOver(f, S) + f[y]
<1> DEFINE T == S \cup {y}
<1>1. IsFiniteSet(T)
  BY FS_AddElement
<1>2. PICK g : Sums(f, g, T) /\ SumOver(f, T) = g[T]
  BY <1>1, SumIs
<1>3. PICK h : Sums(f, h, S) /\ SumOver(f, S) = h[S]
  BY SumIs
<1>4. g[S] = h[S]
  BY <1>2, <1>3, SumsAgree
<1>5. g[T] = f[y] + g[T \ {y}] /\ g[S] \in Int
  <2>1. S \in SUBSET T /\ T \in SUBSET T /\ y \in T /\ Summable(f, T)
    OBVIOUS
  <2> HIDE DEF T
  <2>2. Sums(f, g, T)
    BY <1>2
  <2>3. \A s \in SUBSET T : g[s] \in Int /\ \A z \in s : g[s] = f[z] + g[s \ {z}]
    BY ONLY <1>1, <2>1, <2>2, SumsPeel
  <2> QED
    BY ONLY <2>1, <2>3
<1>6. T \ {y} = S
  OBVIOUS
<1>7. f[y] \in Int
  BY DEF Summable
<1>8. g[T] = f[y] + g[S]
  BY <1>5, <1>6
<1>9. SumOver(f, T) = SumOver(f, S) + f[y]
  <2> HIDE DEF T
  <2> QED
    BY ONLY <1>2, <1>3, <1>4, <1>5, <1>7, <1>8
<1> QED
  BY <1>9

\* A row that leaves takes its amount with it.
LEMMA SumRemove ==
    ASSUME NEW S, IsFiniteSet(S), NEW y \in S, NEW f, Summable(f, S)
    PROVE  SumOver(f, S \ {y}) = SumOver(f, S) - f[y]
<1> DEFINE R == S \ {y}
<1>1. IsFiniteSet(R) /\ y \notin R /\ R \cup {y} = S
  BY FS_RemoveElement
<1>2. Summable(f, R) /\ f[y] \in Int
  BY DEF Summable
<1> HIDE DEF R
<1>3. SumOver(f, R) \in Int
  BY <1>1, <1>2, SumInt
<1>4. SumOver(f, S) = SumOver(f, R) + f[y]
  BY <1>1, SumAdd
<1> QED
  BY <1>2, <1>3, <1>4 DEF R

\* A row whose amount changes moves the sum by the difference.
LEMMA SumChange ==
    ASSUME NEW S, IsFiniteSet(S), NEW y \in S, NEW f, NEW e, Summable(f, S), Summable(e, S),
           \A x \in S : x # y => e[x] = f[x]
    PROVE  SumOver(e, S) = SumOver(f, S) - f[y] + e[y]
<1> DEFINE R == S \ {y}
<1>1. IsFiniteSet(R)
  BY FS_RemoveElement
<1>2. f[y] \in Int /\ e[y] \in Int /\ SumOver(f, S) \in Int /\ SumOver(e, S) \in Int
  BY SumInt DEF Summable
<1>3. SumOver(f, R) = SumOver(f, S) - f[y] /\ SumOver(e, R) = SumOver(e, S) - e[y]
  BY SumRemove
<1>4. SumOver(f, R) = SumOver(e, R)
  BY <1>1, SumSame
<1> HIDE DEF R
<1> QED
  BY <1>2, <1>3, <1>4

\* Amounts that do not grow have a sum that does not grow, however many rows
\* change at once.
LEMMA SumMonotone ==
    ASSUME NEW S, IsFiniteSet(S), NEW f, NEW e, Summable(f, S), Summable(e, S),
           \A x \in S : e[x] <= f[x]
    PROVE  SumOver(e, S) <= SumOver(f, S)
<1>1. PICK g : Sums(f, g, S) /\ SumOver(f, S) = g[S]
  BY SumIs
<1>2. PICK h : Sums(e, h, S) /\ SumOver(e, S) = h[S]
  BY SumIs
<1> DEFINE W == {s \in SUBSET S : ~(h[s] <= g[s])}
<1>3. W = {}
  <2> SUFFICES ASSUME W # {} PROVE FALSE
    OBVIOUS
  <2>1. PICK s \in W : \A U \in W : U \subseteq s => U = s
    <3>1. W \subseteq SUBSET S
      OBVIOUS
    <3> HIDE DEF W
    <3> QED
      BY <3>1, SmallestSet
  <2>2. s \in SUBSET S /\ ~(h[s] <= g[s])
    BY <2>1
  <2>3. s # {}
    <3>1. s = {} => h[s] = 0 /\ g[s] = 0
      BY <1>1, <1>2, <2>2 DEF Sums
    <3> QED
      BY <2>2, <3>1
  <2>4. PICK y \in s : TRUE
    BY <2>3
  <2>5. g[s] = f[y] + g[s \ {y}] /\ h[s] = e[y] + h[s \ {y}]
    BY <1>1, <1>2, <2>2, SumsPeel
  <2>6. s \ {y} \in SUBSET S /\ s \ {y} \notin W
    BY <2>1, <2>2
  <2>7. g[s \ {y}] \in Int /\ h[s \ {y}] \in Int /\ h[s \ {y}] <= g[s \ {y}]
    BY <1>1, <1>2, <2>6, SumsPeel
  <2>8. f[y] \in Int /\ e[y] \in Int /\ e[y] <= f[y]
    BY <2>2 DEF Summable
  <2> QED
    BY ONLY <2>2, <2>5, <2>7, <2>8
<1> QED
  BY <1>1, <1>2, <1>3

\* Rows that hold nothing may be left out of a sum.
LEMMA SumIgnoresZero ==
    ASSUME NEW S, IsFiniteSet(S), NEW T \in SUBSET S, NEW f, Summable(f, S),
           \A x \in S \ T : f[x] = 0
    PROVE  SumOver(f, T) = SumOver(f, S)
<1>1. PICK g : Sums(f, g, S) /\ SumOver(f, S) = g[S]
  BY SumIs
<1>2. IsFiniteSet(T)
  BY FS_Subset
<1>3. PICK h : Sums(f, h, T) /\ SumOver(f, T) = h[T]
  BY <1>2, SumIs
<1>4. g[T] = h[T]
  BY <1>1, <1>2, <1>3, SumsAgree
<1> DEFINE W == {s \in SUBSET S : g[s] # g[s \cap T]}
<1>5. W = {}
  <2> SUFFICES ASSUME W # {} PROVE FALSE
    OBVIOUS
  <2>1. PICK s \in W : \A U \in W : U \subseteq s => U = s
    <3>1. W \subseteq SUBSET S
      OBVIOUS
    <3> HIDE DEF W
    <3> QED
      BY <3>1, SmallestSet
  <2>2. s \in SUBSET S /\ g[s] # g[s \cap T]
    BY <2>1
  <2>3. PICK y \in s : y \notin T
    <3>1. s \subseteq T => s \cap T = s
      OBVIOUS
    <3> QED
      BY <2>2, <3>1
  <2>4. g[s] = f[y] + g[s \ {y}] /\ f[y] = 0
    <3>1. y \in S \ T
      BY <2>2, <2>3
    <3>2. \A y1 \in s : g[s] = f[y1] + g[s \ {y1}]
      BY <1>1, <2>2, SumsPeel
    <3> QED
      BY <2>3, <3>1, <3>2
  <2>5. s \ {y} \in SUBSET S /\ s \ {y} \notin W
    BY <2>1, <2>2, <2>3
  <2>6. g[s \ {y}] \in Int /\ g[s \ {y}] = g[(s \ {y}) \cap T]
    BY <1>1, <2>5, SumsPeel
  <2>7. (s \ {y}) \cap T = s \cap T
    BY <2>3
  <2>8. g[(s \ {y}) \cap T] = g[s \cap T]
    BY ONLY <2>7
  <2> QED
    BY ONLY <2>2, <2>4, <2>6, <2>8
<1>6. g[S] = g[T]
  <2>1. S \cap T = T
    OBVIOUS
  <2>2. S \notin W
    BY <1>5
  <2> QED
    BY <2>1, <2>2
<1> QED
  BY <1>1, <1>3, <1>4, <1>6
\* Rows that hold amounts of no negative sign: fewer rows hold no more.
LEMMA SumOfFewer ==
    ASSUME NEW S, IsFiniteSet(S), NEW T \in SUBSET S, NEW f, Summable(f, S),
           \A x \in S : f[x] >= 0
    PROVE  SumOver(f, T) <= SumOver(f, S)
<1> DEFINE e == [x \in S |-> IF x \in T THEN f[x] ELSE 0]
<1>1. IsFiniteSet(T)
  BY FS_Subset
<1>2. /\ Summable(e, S)
      /\ \A x \in S : e[x] <= f[x]
      /\ \A x \in T : e[x] = f[x]
      /\ \A x \in S \ T : e[x] = 0
  BY DEF Summable
<1> HIDE DEF e
<1>3. SumOver(e, S) <= SumOver(f, S)
  BY <1>2, SumMonotone
<1>4. SumOver(e, T) = SumOver(e, S)
  BY <1>2, SumIgnoresZero
<1>5. SumOver(e, T) = SumOver(f, T)
  BY <1>1, <1>2, SumSame
<1> QED
  BY <1>3, <1>4, <1>5

\* Amounts booked with the opposite sign have the opposite sum.
LEMMA SumNegate ==
    ASSUME NEW S, IsFiniteSet(S), NEW f, NEW e, Summable(f, S), \A x \in S : e[x] = -f[x]
    PROVE  SumOver(e, S) = -SumOver(f, S)
<1>1. PICK g : Sums(f, g, S) /\ SumOver(f, S) = g[S]
  BY SumIs
<1>2. PICK h : Sums(e, h, S) /\ SumOver(e, S) = h[S]
  BY SumIs
<1>3. Summable(e, S)
  BY DEF Summable
<1>4. \A s \in SUBSET S : g[s] \in Int /\ \A y \in s : g[s] = f[y] + g[s \ {y}]
  BY <1>1, SumsPeel
<1>5. \A s \in SUBSET S : h[s] \in Int /\ \A y \in s : h[s] = e[y] + h[s \ {y}]
  BY <1>2, <1>3, SumsPeel
<1> DEFINE W == {s \in SUBSET S : h[s] # -g[s]}
<1>6. W = {}
  <2> SUFFICES ASSUME W # {} PROVE FALSE
    OBVIOUS
  <2>1. PICK s \in W : \A U \in W : U \subseteq s => U = s
    <3>1. W \subseteq SUBSET S
      OBVIOUS
    <3> HIDE DEF W
    <3> QED
      BY <3>1, SmallestSet
  <2>2. s \in SUBSET S /\ h[s] # -g[s]
    BY <2>1
  <2>3. s # {}
    <3>1. s = {} => h[s] = 0 /\ g[s] = 0
      BY <1>1, <1>2, <2>2 DEF Sums
    <3> QED
      BY <2>2, <3>1
  <2>4. PICK y \in s : TRUE
    BY <2>3
  <2>5. g[s] = f[y] + g[s \ {y}] /\ h[s] = e[y] + h[s \ {y}]
    BY <1>4, <1>5, <2>2
  <2>6. s \ {y} \in SUBSET S /\ s \ {y} \notin W
    BY <2>1, <2>2
  <2>7. g[s \ {y}] \in Int /\ h[s \ {y}] = -g[s \ {y}]
    BY <1>4, <2>6
  <2>8. f[y] \in Int /\ e[y] = -f[y]
    BY <2>2 DEF Summable
  <2> QED
    BY ONLY <2>2, <2>5, <2>7, <2>8
<1> QED
  BY <1>1, <1>2, <1>6

\* A table in two parts adds up part by part.
LEMMA SumOfParts ==
    ASSUME NEW S, IsFiniteSet(S), NEW A \in SUBSET S, NEW f, Summable(f, S)
    PROVE  SumOver(f, S) = SumOver(f, A) + SumOver(f, S \ A)
<1> DEFINE W == {B \in SUBSET (S \ A) : SumOver(f, A \cup B) # SumOver(f, A) + SumOver(f, B)}
<1>1. \A T \in SUBSET S : IsFiniteSet(T) /\ Summable(f, T) /\ SumOver(f, T) \in Int
  BY FS_Subset, SumInt DEF Summable
<1>2. W = {}
  <2> SUFFICES ASSUME W # {} PROVE FALSE
    OBVIOUS
  <2>1. PICK B \in W : \A U \in W : U \subseteq B => U = B
    <3>1. W \subseteq SUBSET S
      OBVIOUS
    <3> HIDE DEF W
    <3> QED
      BY <3>1, SmallestSet
  <2>2. B # {}
    <3>1. A \cup {} = A /\ SumOver(f, {}) = 0
      BY SumEmpty
    <3>2. {} \notin W
      BY <1>1, <3>1
    <3> QED
      BY <2>1, <3>2
  <2>3. PICK y \in B : TRUE
    BY <2>2
  <2> DEFINE C == B \ {y}
  <2>4. C \in SUBSET S /\ A \cup C \in SUBSET S /\ y \notin C /\ y \notin A \cup C
        /\ C \cup {y} = B /\ (A \cup C) \cup {y} = A \cup B
        /\ B \in SUBSET S /\ A \cup B \in SUBSET S
    BY <2>1, <2>3
  <2>5. SumOver(f, A \cup C) = SumOver(f, A) + SumOver(f, C)
    <3>1. C \in SUBSET (S \ A) /\ C \subseteq B /\ C # B
      BY <2>1, <2>3
    <3> QED
      BY <2>1, <3>1
  <2>6. SumOver(f, A \cup B) # SumOver(f, A) + SumOver(f, B)
    BY <2>1
  <2> HIDE DEF C, W
  <2>7. SumOver(f, B) = SumOver(f, C) + f[y]
    BY <1>1, <2>4, SumAdd
  <2>8. SumOver(f, A \cup B) = SumOver(f, A \cup C) + f[y]
    BY <1>1, <2>4, SumAdd
  <2>9. f[y] \in Int
    BY <2>3, <2>4 DEF Summable
  <2> QED
    BY <1>1, <2>4, <2>5, <2>6, <2>7, <2>8, <2>9
<1>3. S \ A \in SUBSET (S \ A) /\ A \cup (S \ A) = S
  OBVIOUS
<1>4. SumOver(f, A \cup (S \ A)) = SumOver(f, A) + SumOver(f, S \ A)
  BY <1>2, <1>3
<1> QED
  BY <1>3, <1>4
===============================================================================
