------------------------------- MODULE Reports_proofs -------------------------------
(***************************************************************************)
(* The numbers of the reports, for every book, month, ladder and constant: *)
(* the slip table of BookWalk, M4's economics on it (NetProfit), the        *)
(* windows M5 cuts out of the month (ProfitWindows) and the verdicts it     *)
(* draws from them (Verdict).                                              *)
(*                                                                         *)
(* Sums run over rows, so the proofs need induction.  It comes from the    *)
(* well-foundedness of < on Nat (WFMin), applied to the set of numbers the *)
(* claim holds for, which is then all of Nat (NatIsLeast).                 *)
(***************************************************************************)
EXTENDS NetProfit, Verdict, WellFoundedInduction, FiniteSetTheorems, TLAPS

-----------------------------------------------------------------------------
(* The state of a walk, and the invariant. *)

LevelRows == [px: Prices, sz: Sizes]
Walks == [spent: Nat, qty: Nat]

SideOK(s, bid) == s \in Seq(LevelRows) /\ Len(s) \in 1..MaxLevels /\ Sorted(s, bid)

Snapshot == SideOK(bids, TRUE) /\ SideOK(asks, FALSE) /\ bids[1].px < asks[1].px

\* What each level holds, and what a fill of it is worth.
Held(s) == [j \in DOMAIN s |-> s[j].px * s[j].sz]
Worth(s, f) == [j \in DOMAIN s |-> f[j] * (Unit \div s[j].px)]

\* The running totals: all of the levels passed but the last, and of that one what
\* was left to spend.
Totals ==
    LET held(n)   == SumTo(Held(levels), n)
        bought(n) == SumTo(Worth(levels, Held(levels)), n)
    IN  /\ at <= Len(levels) + 1
        /\ spent = Smaller(usd, held(at - 1))
        /\ at = 1 => qty = 0
        /\ at > 1 => /\ held(at - 2) <= spent
                     /\ qty = bought(at - 2) + (spent - held(at - 2)) * (Unit \div levels[at - 1].px)
        /\ spent > 0 => qty > 0

\* A finished walk: nothing where the side is too thin, else the whole notional at
\* an average no better than the best level.
Priced(s, bid, walk, u) ==
    IF DepthOf(s) < u THEN walk = Unpriced
    ELSE /\ walk.spent = u /\ walk.qty > 0
         /\ IF bid THEN walk.spent * Unit <= s[1].px * walk.qty
                   ELSE s[1].px * walk.qty <= walk.spent * Unit

TableSoFar ==
    \A u \in Ladder :
        /\ Complete \/ u < usd \/ (u = usd /\ ~is_bid) => Priced(bids, TRUE, slips[u].sell, u)
        /\ Complete \/ u < usd => Priced(asks, FALSE, slips[u].buy, u)

\* The inductive invariant: types and NoBetterThanTouch do not say how much was filled;
\* Totals does for the walk that runs, and TableSoFar for those that have returned.
BookInv == BookTypeOK /\ Snapshot /\ NoBetterThanTouch /\ Totals /\ TableSoFar

\* Induction over the numbers, as the fact that no proper subset of them holds 0 and
\* is closed under the successor: the least number missing would have a predecessor.
LEMMA NatIsLeast ==
  ASSUME NEW S \in SUBSET Nat, 0 \in S, \A n \in S : n + 1 \in S
  PROVE  S = Nat
<1> SUFFICES ASSUME Nat \ S # {} PROVE FALSE
  OBVIOUS
<1> DEFINE R == Nat \ S
<1>1. \E x \in R : \A y \in R : ~ (<<y, x>> \in OpToRel(<, Nat))
  <2>1. R \subseteq Nat /\ R # {}
    OBVIOUS
  <2> HIDE DEF R
  <2> QED
    BY <2>1, NatLessThanWellFounded, WFMin
<1>2. PICK x \in R : \A y \in R : ~ (<<y, x>> \in OpToRel(<, Nat))
  BY <1>1
<1>3. x \in Nat /\ x # 0
  OBVIOUS
<1>4. x - 1 \in Nat /\ (x - 1) + 1 = x /\ x - 1 < x
  BY <1>3
<1>5. x - 1 \notin S
  BY <1>4
<1>6. x - 1 \in R
  BY <1>4, <1>5
<1>7. <<x - 1, x>> \in OpToRel(<, Nat)
  BY <1>3, <1>4 DEF OpToRel
<1> QED
  BY <1>2, <1>6, <1>7

\* What SumTo computes: its recursion has a solution, built from its finite parts.
LEMMA SumEquation ==
  ASSUME NEW f
  PROVE  /\ SumTo(f, 0) = 0
         /\ \A n \in Nat : SumTo(f, n + 1) = SumTo(f, n) + f[n + 1]
<1> DEFINE Upto(n, p) == p = [k \in 0..n |-> IF k = 0 THEN 0 ELSE p[k - 1] + f[k]]
           good == {n \in Nat : \E p : Upto(n, p)}
<1>1. 0 \in good
  <2> DEFINE p == [k \in 0..0 |-> 0]
  <2>1. Upto(0, p)
    OBVIOUS
  <2> QED
    BY <2>1
<1>2. ASSUME NEW n \in good PROVE n + 1 \in good
  <2>1. PICK p : Upto(n, p)
    OBVIOUS
  <2> DEFINE q == [k \in 0..(n + 1) |-> IF k = n + 1 THEN p[n] + f[n + 1] ELSE p[k]]
  <2>2. n \in Nat
    OBVIOUS
  <2>3. \A k \in 0..(n+1) : q[k] = IF k = 0 THEN 0 ELSE q[k - 1] + f[k]
    <3> TAKE k \in 0..(n+1)
    <3>1. CASE k = n + 1
      BY <3>1, <2>2
    <3>2. CASE k \in 0..n
      BY <3>2, <2>2, <2>1
    <3> QED BY <3>1, <3>2, <2>2
  <2>4. Upto(n + 1, q)
    BY <2>3
  <2>5. \E r : Upto(n + 1, r)
    <3> HIDE DEF q, Upto
    <3> QED
      BY <2>4
  <2> QED
    BY <2>2, <2>5
<1>3. good = Nat
  <2>1. good \in SUBSET Nat
    OBVIOUS
  <2> HIDE DEF good
  <2> QED
    BY <1>1, <1>2, <2>1, NatIsLeast
\* Two finite parts agree where both are defined.
<1>4. ASSUME NEW m \in Nat, NEW n \in Nat, NEW p, NEW q, Upto(m, p), Upto(n, q)
      PROVE  \A k \in 0..m \cap 0..n : p[k] = q[k]
  <2> DEFINE same == {k \in Nat : k <= m /\ k <= n => p[k] = q[k]}
  <2>1. 0 \in same
    BY <1>4
  <2>2. ASSUME NEW k \in same PROVE k + 1 \in same
    <3>1. k \in Nat /\ k + 1 \in Nat /\ (k + 1) - 1 = k /\ k + 1 # 0
      OBVIOUS
    <3>2. SUFFICES ASSUME k + 1 <= m, k + 1 <= n PROVE p[k + 1] = q[k + 1]
      BY <3>1
    <3>3. p[k] = q[k]
      BY <3>1, <3>2
    <3>4. p[k + 1] = p[k] + f[k + 1]
      BY <3>1, <3>2, <1>4
    <3>5. q[k + 1] = q[k] + f[k + 1]
      BY <3>1, <3>2, <1>4
    <3> QED
      BY <3>3, <3>4, <3>5
  <2>3. same = Nat
    <3>1. same \in SUBSET Nat
      OBVIOUS
    <3> HIDE DEF same
    <3> QED
      BY <2>1, <2>2, <3>1, NatIsLeast
  <2> QED
    BY <2>3
<1> DEFINE sol == [n \in Nat |-> CHOOSE p : Upto(n, p)]
           g == [n \in Nat |-> sol[n][n]]
           Eq(h) == h = [k \in Nat |-> IF k = 0 THEN 0 ELSE h[k - 1] + f[k]]
<1>5. ASSUME NEW n \in Nat PROVE Upto(n, sol[n])
  <2>1. \E p : Upto(n, p)
    BY <1>3
  <2> HIDE DEF Upto
  <2> QED
    BY <2>1
<1>6. ASSUME NEW n \in Nat PROVE g[n + 1] = g[n] + f[n + 1]
  <2> HIDE DEF sol
  <2>1. Upto(n, sol[n]) /\ Upto(n + 1, sol[n + 1])
    BY <1>5
  <2>2. n \in 0..n \cap 0..(n + 1) /\ n + 1 \in Nat
    OBVIOUS
  <2>3. sol[n][n] = sol[n + 1][n]
    <3> HIDE DEF Upto
    <3> QED
      BY <1>4, <2>1, <2>2
  <2>4. sol[n + 1][n + 1] = sol[n + 1][n] + f[n + 1]
    BY <2>1, <2>2
  <2> QED
    BY <2>2, <2>3, <2>4
<1>7. g[0] = 0
  <2>1. Upto(0, sol[0])
    BY <1>5
  <2> HIDE DEF sol
  <2> QED
    BY <2>1
<1>8. Eq(g)
  <2> HIDE DEF sol
  <2>1. \A k \in Nat : g[k] = IF k = 0 THEN 0 ELSE g[k - 1] + f[k]
    <3> TAKE k \in Nat
    <3>1. CASE k = 0
      BY <3>1, <1>7
    <3>2. CASE k # 0
      <4>1. k - 1 \in Nat /\ (k - 1) + 1 = k
        BY <3>2
      <4> HIDE DEF g
      <4> QED
        BY <4>1, <1>6, <3>2
    <3> QED BY <3>1, <3>2
  <2> QED
    BY <2>1
<1> DEFINE total == CHOOSE h : Eq(h)
<1>9. Eq(total)
  <2> HIDE DEF Eq, g
  <2> QED
    BY <1>8
<1>10. \A n : SumTo(f, n) = total[n]
  BY DEF SumTo
<1> HIDE DEF total
<1>11. total[0] = 0
  BY <1>9
<1>12. ASSUME NEW n \in Nat PROVE total[n + 1] = total[n] + f[n + 1]
  <2>1. n + 1 \in Nat /\ n + 1 # 0 /\ (n + 1) - 1 = n
    OBVIOUS
  <2> QED
    BY <1>9, <2>1
<1> QED
  BY <1>10, <1>11, <1>12

\* A sum of integers is one, a sum of natural numbers is one.
LEMMA SumType ==
  ASSUME NEW N \in Nat, NEW f
  PROVE  /\ f \in [1..N -> Int] => \A n \in 0..N : SumTo(f, n) \in Int
         /\ f \in [1..N -> Nat] => \A n \in 0..N : SumTo(f, n) \in Nat
<1> DEFINE typed(T) == {n \in Nat : n <= N => SumTo(f, n) \in T}
<1>1. ASSUME NEW T \in {Int, Nat}, f \in [1..N -> T] PROVE typed(T) = Nat
  <2>1. 0 \in typed(T)
    BY <1>1, SumEquation
  <2>2. ASSUME NEW n \in typed(T) PROVE n + 1 \in typed(T)
    <3>1. n \in Nat /\ n + 1 \in Nat
      OBVIOUS
    <3>2. SUFFICES ASSUME n + 1 <= N PROVE SumTo(f, n + 1) \in T
      BY <3>1
    <3>3. SumTo(f, n) \in T /\ f[n + 1] \in T
      BY <1>1, <3>1, <3>2
    <3>4. SumTo(f, n + 1) = SumTo(f, n) + f[n + 1]
      BY <3>1, SumEquation
    <3> QED
      BY <3>3, <3>4
  <2>3. typed(T) \in SUBSET Nat
    OBVIOUS
  <2> HIDE DEF typed
  <2> QED
    BY <2>1, <2>2, <2>3, NatIsLeast
<1>2. ASSUME NEW T \in {Int, Nat}, f \in [1..N -> T], NEW n \in 0..N PROVE SumTo(f, n) \in T
  BY <1>1, <1>2
<1> QED
  BY <1>2

\* A sum of natural numbers does not fall as it goes on.
LEMMA SumGrows ==
  ASSUME NEW N \in Nat, NEW f \in [1..N -> Nat], NEW m \in 0..N, NEW n \in m..N
  PROVE  SumTo(f, m) <= SumTo(f, n)
<1> DEFINE above == {k \in Nat : m + k <= N => SumTo(f, m) <= SumTo(f, m + k)}
<1>1. 0 \in above
  <2>1. SumTo(f, m) \in Nat /\ m + 0 = m
    BY SumType
  <2> QED
    BY <2>1
<1>2. ASSUME NEW k \in above PROVE k + 1 \in above
  <2>1. k \in Nat /\ k + 1 \in Nat /\ m + k \in Nat /\ m + (k + 1) = (m + k) + 1
    OBVIOUS
  <2>2. SUFFICES ASSUME m + (k + 1) <= N PROVE SumTo(f, m) <= SumTo(f, m + (k + 1))
    BY <2>1
  <2>3. SumTo(f, m + (k + 1)) = SumTo(f, m + k) + f[(m + k) + 1]
    BY <2>1, SumEquation
  <2>4. SumTo(f, m) <= SumTo(f, m + k) /\ f[(m + k) + 1] \in Nat
    BY <2>1, <2>2
  <2>5. SumTo(f, m) \in Nat /\ SumTo(f, m + k) \in Nat
    BY <2>1, <2>2, SumType
  <2> QED
    BY <2>3, <2>4, <2>5
<1>3. above = Nat
  <2>1. above \in SUBSET Nat
    OBVIOUS
  <2> HIDE DEF above
  <2> QED
    BY <1>1, <1>2, <2>1, NatIsLeast
<1>4. n - m \in Nat /\ m + (n - m) = n
  OBVIOUS
<1>5. n - m \in above
  BY <1>3, <1>4
<1> QED
  BY <1>4, <1>5

\* The sign of a product.
LEMMA Product ==
  ASSUME NEW a \in Int, NEW b \in Int
  PROVE  /\ a >= 0 /\ b >= 0 => a * b >= 0
         /\ a >= 0 /\ b <= 0 => a * b <= 0
         /\ a <= 0 /\ b >= 0 => a * b <= 0
         /\ a <= 0 /\ b <= 0 => a * b >= 0
<1>1. ASSUME NEW x \in Int, NEW y \in Int, x >= 0, y >= 0 PROVE x * y >= 0
  <2>1. x \in Nat /\ y \in Nat
    BY <1>1
  <2> QED
    BY <2>1
<1>2. a * b = - (a * (-b)) /\ a * b = - ((-a) * b) /\ a * b = (-a) * (-b)
  OBVIOUS
<1>3. a * b \in Int /\ a * (-b) \in Int /\ (-a) * b \in Int /\ -a \in Int /\ -b \in Int
  OBVIOUS
<1>4. a >= 0 /\ b >= 0 => a * b >= 0
  BY <1>1
<1>5. a >= 0 /\ b <= 0 => a * (-b) >= 0
  BY <1>1, <1>3
<1>6. a <= 0 /\ b >= 0 => (-a) * b >= 0
  BY <1>1, <1>3
<1>7. a <= 0 /\ b <= 0 => (-a) * (-b) >= 0
  BY <1>1, <1>3
<1> QED
  BY <1>2, <1>3, <1>4, <1>5, <1>6, <1>7

\* The exchange argument of a greedy choice: amounts f, bounded by c, are worth no more
\* beyond the value of k than c taken whole up to k, if the values fall there, and no
\* less if they rise.
LEMMA Exchange ==
  ASSUME NEW N \in Nat, NEW c \in [1..N -> Nat], NEW f \in [1..N -> Nat], NEW v \in [1..N -> Int],
         \A j \in 1..N : f[j] <= c[j], NEW k \in 1..N
  PROVE  LET fv == [j \in 1..N |-> f[j] * v[j]]
             cv == [j \in 1..N |-> c[j] * v[j]]
             better == SumTo(fv, N) - v[k] * SumTo(f, N)
             best == SumTo(cv, k - 1) - v[k] * SumTo(c, k - 1)
         IN  /\ (\A j \in 1..N : IF j < k THEN v[k] <= v[j] ELSE v[j] <= v[k]) => better <= best
             /\ (\A j \in 1..N : IF j < k THEN v[j] <= v[k] ELSE v[k] <= v[j]) => best <= better
<1> DEFINE fv == [j \in 1..N |-> f[j] * v[j]]
           cv == [j \in 1..N |-> c[j] * v[j]]
           w == v[k]
           least(n) == IF n < k THEN n ELSE k - 1
           E(n) == SumTo(fv, n) - w * SumTo(f, n)
           G(n) == SumTo(cv, n) - w * SumTo(c, n)
           Falls == \A j \in 1..N : IF j < k THEN w <= v[j] ELSE v[j] <= w
           Rises == \A j \in 1..N : IF j < k THEN v[j] <= w ELSE w <= v[j]
           holds == {n \in Nat : n <= N => /\ Falls => E(n) <= G(least(n))
                                           /\ Rises => G(least(n)) <= E(n)}
<1>1. fv \in [1..N -> Int] /\ cv \in [1..N -> Int] /\ w \in Int
  OBVIOUS
<1> HIDE DEF fv, cv, w
<1>2. \A n \in 0..N : /\ SumTo(fv, n) \in Int /\ SumTo(f, n) \in Int
                      /\ SumTo(cv, n) \in Int /\ SumTo(c, n) \in Int
  <2>1. f \in [1..N -> Int] /\ c \in [1..N -> Int]
    OBVIOUS
  <2>2. (\A n \in 0..N : SumTo(fv, n) \in Int) /\ (\A n \in 0..N : SumTo(cv, n) \in Int)
    BY <1>1, SumType
  <2>3. (\A n \in 0..N : SumTo(f, n) \in Int) /\ (\A n \in 0..N : SumTo(c, n) \in Int)
    BY <2>1, SumType
  <2> QED
    BY <2>2, <2>3
<1>3. \A n \in 0..N : E(n) \in Int /\ G(n) \in Int
  BY <1>1, <1>2
<1>4. ASSUME NEW n \in Nat, n + 1 <= N
      PROVE  /\ E(n + 1) = E(n) + f[n + 1] * (v[n + 1] - w)
             /\ G(n + 1) = G(n) + c[n + 1] * (v[n + 1] - w)
  <2>1. /\ SumTo(fv, n + 1) = SumTo(fv, n) + fv[n + 1] /\ SumTo(f, n + 1) = SumTo(f, n) + f[n + 1]
        /\ SumTo(cv, n + 1) = SumTo(cv, n) + cv[n + 1] /\ SumTo(c, n + 1) = SumTo(c, n) + c[n + 1]
    BY SumEquation
  <2>2. fv[n + 1] = f[n + 1] * v[n + 1] /\ cv[n + 1] = c[n + 1] * v[n + 1]
    BY <1>4 DEF fv, cv
  <2>3. f[n + 1] \in Int /\ v[n + 1] \in Int /\ c[n + 1] \in Int /\ n \in 0..N
    BY <1>4
  <2>5. /\ SumTo(fv, n) \in Int /\ SumTo(f, n) \in Int
        /\ SumTo(cv, n) \in Int /\ SumTo(c, n) \in Int
    BY <1>2, <2>3
  <2>6. /\ E(n + 1) = (SumTo(fv, n) + f[n + 1] * v[n + 1]) - w * (SumTo(f, n) + f[n + 1])
        /\ G(n + 1) = (SumTo(cv, n) + c[n + 1] * v[n + 1]) - w * (SumTo(c, n) + c[n + 1])
    BY <2>1, <2>2
  <2>7. (SumTo(fv, n) + f[n + 1] * v[n + 1]) - w * (SumTo(f, n) + f[n + 1])
          = E(n) + f[n + 1] * (v[n + 1] - w)
    <3> DEFINE x == SumTo(fv, n)
               y == SumTo(f, n)
               g == f[n + 1]
               u == v[n + 1]
    <3>1. x \in Int /\ y \in Int /\ g \in Int /\ u \in Int /\ w \in Int
      BY <1>1, <2>3, <2>5
    <3> HIDE DEF x, y, g, u
    <3>2. (x + g * u) - w * (y + g) = (x - w * y) + g * (u - w)
      BY <3>1
    <3> QED
      BY <3>2 DEF x, y, g, u
  <2>8. (SumTo(cv, n) + c[n + 1] * v[n + 1]) - w * (SumTo(c, n) + c[n + 1])
          = G(n) + c[n + 1] * (v[n + 1] - w)
    <3> DEFINE x == SumTo(cv, n)
               y == SumTo(c, n)
               g == c[n + 1]
               u == v[n + 1]
    <3>1. x \in Int /\ y \in Int /\ g \in Int /\ u \in Int /\ w \in Int
      BY <1>1, <2>3, <2>5
    <3> HIDE DEF x, y, g, u
    <3>2. (x + g * u) - w * (y + g) = (x - w * y) + g * (u - w)
      BY <3>1
    <3> QED
      BY <3>2 DEF x, y, g, u
  <2> QED
    BY <2>6, <2>7, <2>8
<1>5. 0 \in holds
  <2>1. E(0) = 0 /\ G(0) = 0 /\ least(0) = 0
    <3>1. SumTo(fv, 0) = 0 /\ SumTo(f, 0) = 0 /\ SumTo(cv, 0) = 0 /\ SumTo(c, 0) = 0
      BY SumEquation
    <3> QED
      BY <1>1, <3>1
  <2> HIDE DEF E, G, least, Falls, Rises
  <2> QED
    BY <2>1
<1>6. ASSUME NEW n \in holds PROVE n + 1 \in holds
  <2>1. n \in Nat /\ n + 1 \in Nat
    OBVIOUS
  <2>2. SUFFICES ASSUME n + 1 <= N
                 PROVE  /\ Falls => E(n + 1) <= G(least(n + 1))
                        /\ Rises => G(least(n + 1)) <= E(n + 1)
    BY <2>1
  <2>3. /\ Falls => E(n) <= G(least(n))
        /\ Rises => G(least(n)) <= E(n)
    BY <2>2
  <2>4. n \in 0..N /\ n + 1 \in 1..N /\ least(n) \in 0..N /\ least(n + 1) \in 0..N
    BY <2>1, <2>2
  <2>5. f[n + 1] \in Nat /\ c[n + 1] \in Nat /\ v[n + 1] \in Int /\ f[n + 1] <= c[n + 1]
    BY <2>4
  <2> DEFINE a == f[n + 1]
             b == c[n + 1]
             d == v[n + 1] - w
  <2>6. a \in Nat /\ b \in Nat /\ d \in Int /\ a - b <= 0
    <3>1. a \in Nat /\ b \in Nat
      BY <2>5
    <3>2. w \in Int
      BY <1>1
    <3>3. v[n + 1] - w \in Int
      BY <2>5, <3>2
    <3>4. d \in Int
      BY <3>3
    <3>5. a - b <= 0
      BY <2>5
    <3> QED BY <3>1, <3>4, <3>5
  <2>7. E(n + 1) = E(n) + a * d /\ G(n + 1) = G(n) + b * d
    BY <1>4, <2>1, <2>2
  <2>8. /\ Falls => IF n + 1 < k THEN d >= 0 ELSE d <= 0
        /\ Rises => IF n + 1 < k THEN d <= 0 ELSE d >= 0
    <3>1. /\ Falls => IF n + 1 < k THEN w <= v[n + 1] ELSE v[n + 1] <= w
          /\ Rises => IF n + 1 < k THEN v[n + 1] <= w ELSE w <= v[n + 1]
      BY <2>4
    <3> HIDE DEF Falls, Rises
    <3>2. v[n + 1] \in Int /\ w \in Int
      BY <1>1, <2>5
    <3>3. (w <= v[n + 1] => d >= 0) /\ (v[n + 1] <= w => d <= 0)
      BY <3>2
    <3> QED
      BY <3>1, <3>3
  <2> HIDE DEF a, b, d
  <2>9. E(n) \in Int /\ G(n) \in Int /\ G(least(n)) \in Int
    BY <1>3, <2>4
  <2>10. CASE n + 1 < k
    <3>1. least(n + 1) = n + 1 /\ least(n) = n
      BY <2>1, <2>10
    <3>2. /\ d >= 0 => (a - b) * d <= 0
          /\ d <= 0 => (a - b) * d >= 0
      BY <2>6, Product
    <3>3. (a - b) * d = a * d - b * d /\ a * d \in Int /\ b * d \in Int
      BY <2>6
    <3> HIDE DEF E, G, least, Falls, Rises
    <3>4. Falls => E(n + 1) <= G(least(n + 1))
      BY <2>3, <2>7, <2>8, <2>9, <2>10, <3>1, <3>2, <3>3
    <3>5. Rises => G(least(n + 1)) <= E(n + 1)
      BY <2>3, <2>7, <2>8, <2>9, <2>10, <3>1, <3>2, <3>3
    <3> QED
      BY <3>4, <3>5
  <2>11. CASE ~(n + 1 < k)
    <3>1. least(n + 1) = least(n)
      BY <2>1, <2>11
    <3>2. /\ d >= 0 => a * d >= 0
          /\ d <= 0 => a * d <= 0
          /\ a * d \in Int
      BY <2>6, Product
    <3> HIDE DEF E, G, least, Falls, Rises
    <3> QED
      BY <2>3, <2>7, <2>8, <2>9, <2>11, <3>1, <3>2
  <2> QED
    BY <2>10, <2>11
<1>7. holds = Nat
  <2>1. holds \in SUBSET Nat
    OBVIOUS
  <2> HIDE DEF holds
  <2> QED
    BY <1>5, <1>6, <2>1, NatIsLeast
<1>8. N \in holds
  BY <1>7
<1>9. least(N) = k - 1 /\ N \in Nat /\ N <= N
  OBVIOUS
<1>10. (Falls => E(N) <= G(k - 1)) /\ (Rises => G(k - 1) <= E(N))
  BY <1>8, <1>9
<1> QED
  BY <1>10 DEF fv, cv, w

\* A multiple of a price, divided by it.
LEMMA PerLevel ==
  ASSUME NEW px \in Prices
  PROVE  Unit \div px \in Nat /\ px * (Unit \div px) = Unit
<1>1. px \in Nat \ {0} /\ Unit \in Nat /\ Unit % px = 0
  BY BookAssumption
<1> QED
  BY <1>1

\* One level more, at a price no better than the best, keeps the walk honest.
LEMMA OneMore ==
  ASSUME NEW spentBefore \in Nat, NEW qtyBefore \in Nat, NEW take \in Nat,
         NEW px \in Prices, NEW best \in Prices
  PROVE  /\ px <= best /\ spentBefore * Unit <= best * qtyBefore
              => (spentBefore + take) * Unit <= best * (qtyBefore + take * (Unit \div px))
         /\ best <= px /\ best * qtyBefore <= spentBefore * Unit
              => best * (qtyBefore + take * (Unit \div px)) <= (spentBefore + take) * Unit
<1> DEFINE u == Unit \div px
<1>1. u \in Nat /\ px * u = Unit /\ px \in Nat /\ best \in Nat /\ Unit \in Nat
  BY PerLevel, BookAssumption
<1> HIDE DEF u
<1> DEFINE t == take * u
<1>2. t \in Nat /\ take * Unit = px * t
  BY <1>1
<1>3. /\ (spentBefore + take) * Unit = spentBefore * Unit + px * t
      /\ best * (qtyBefore + t) = best * qtyBefore + best * t
  BY <1>1, <1>2
<1> HIDE DEF t
<1>4. /\ px <= best => px * t <= best * t
      /\ best <= px => best * t <= px * t
  BY <1>1, <1>2
<1>5. /\ px <= best /\ spentBefore * Unit <= best * qtyBefore
            => (spentBefore + take) * Unit <= best * (qtyBefore + t)
      /\ best <= px /\ best * qtyBefore <= spentBefore * Unit
            => best * (qtyBefore + t) <= (spentBefore + take) * Unit
  BY <1>1, <1>2, <1>3, <1>4
<1> QED
  BY <1>5 DEF t, u

\* A set of numbers that is not empty has a least one.
LEMMA MinLeast ==
  ASSUME NEW S \in SUBSET Nat, S # {}
  PROVE  Min(S) \in S /\ \A y \in S : Min(S) <= y
<1>1. \E x \in S : \A y \in S : ~ (<<y, x>> \in OpToRel(<, Nat))
  BY NatLessThanWellFounded, WFMin
<1>2. PICK x \in S : \A y \in S : ~ (<<y, x>> \in OpToRel(<, Nat))
  BY <1>1
<1>3. \A y \in S : x <= y
  <2> TAKE y \in S
  <2>1. ~ (<<y, x>> \in OpToRel(<, Nat))
    BY <1>2
  <2>2. ~ (y < x)
    BY <2>1 DEF OpToRel
  <2> QED
    BY <2>2
<1> QED
  BY <1>3 DEF Min

\* The walk goes on to a rung of the ladder.
LEMMA NextRungType ==
  usd \in Ladder \cup {0} =>
      /\ NextRung \in Ladder \cup {0}
      /\ \A u \in Ladder : NextRung = 0 \/ u < NextRung => u <= usd
<1> SUFFICES ASSUME usd \in Ladder \cup {0}
             PROVE  /\ NextRung \in Ladder \cup {0}
                    /\ \A u \in Ladder : NextRung = 0 \/ u < NextRung => u <= usd
  OBVIOUS
<1> DEFINE larger == {u \in Ladder : u > usd}
<1>0. usd \in Nat
  BY BookAssumption
<1>1. larger \in SUBSET Nat /\ larger \subseteq Ladder /\ usd \in Nat
  BY <1>0, BookAssumption
<1>2. \A u \in Ladder : u \notin larger => u <= usd
  BY <1>1, BookAssumption
<1>3. NextRung = IF larger = {} THEN 0 ELSE Min(larger)
  BY DEF NextRung
<1>4. \A u \in larger : u \in Nat \ {0}
  BY BookAssumption
<1> HIDE DEF larger
<1>5. CASE larger = {}
  BY <1>2, <1>3, <1>5
<1>6. CASE larger # {}
  <2>1. Min(larger) \in larger /\ \A y \in larger : Min(larger) <= y
    BY <1>1, <1>6, MinLeast
  <2>2. NextRung \in larger /\ NextRung \in Nat \ {0}
    BY <1>3, <1>4, <1>6, <2>1
  <2>3. ASSUME NEW u \in Ladder, u < NextRung PROVE u <= usd
    <3>1. u \in Nat
      BY BookAssumption
    <3>2. u \notin larger
      BY <1>3, <1>6, <2>1, <2>2, <2>3, <3>1
    <3> QED
      BY <1>2, <3>2
  <2> QED
    BY <1>1, <2>2, <2>3
<1> QED
  BY <1>5, <1>6

\* A side of the snapshot: its rows are numbers, the first is the best.
LEMMA SideFacts ==
  ASSUME NEW bid \in BOOLEAN, NEW s, SideOK(s, bid)
  PROVE  /\ Len(s) \in Nat \ {0} /\ DOMAIN s = 1..Len(s)
         /\ \A j \in 1..Len(s) : /\ s[j].px \in Prices /\ s[j].px \in Nat \ {0}
                                 /\ s[j].sz \in Nat \ {0}
                                 /\ Unit \div s[j].px \in Nat \ {0}
                                 /\ s[j].px * (Unit \div s[j].px) = Unit
         /\ \A j \in 1..Len(s) : IF bid THEN s[j].px <= s[1].px ELSE s[1].px <= s[j].px
<1>1. Len(s) \in Nat \ {0} /\ DOMAIN s = 1..Len(s) /\ \A j \in 1..Len(s) : s[j] \in LevelRows
  BY BookAssumption DEF SideOK
<1>2. ASSUME NEW j \in 1..Len(s)
      PROVE  /\ s[j].px \in Prices /\ s[j].px \in Nat \ {0}
             /\ s[j].sz \in Nat \ {0}
             /\ Unit \div s[j].px \in Nat \ {0}
             /\ s[j].px * (Unit \div s[j].px) = Unit
  <2>1. s[j].px \in Prices /\ s[j].sz \in Sizes
    BY <1>1 DEF LevelRows
  <2>2. s[j].px \in Nat \ {0} /\ s[j].sz \in Nat \ {0} /\ Unit \in Nat \ {0}
    BY <2>1, BookAssumption
  <2>3. Unit \div s[j].px \in Nat /\ s[j].px * (Unit \div s[j].px) = Unit
    BY <2>1, PerLevel
  <2>4. Unit \div s[j].px # 0
    BY <2>2, <2>3
  <2> QED
    BY <2>1, <2>2, <2>3, <2>4
<1>3. ASSUME NEW j \in 1..Len(s) PROVE IF bid THEN s[j].px <= s[1].px ELSE s[1].px <= s[j].px
  <2>1. 1 \in 1..Len(s)
    BY <1>1
  <2>2. s[j].px \in Nat /\ s[1].px \in Nat
    BY <1>2, <2>1
  <2>3. 1 < j => IF bid THEN s[1].px > s[j].px ELSE s[1].px < s[j].px
    BY <1>1, <2>1 DEF SideOK, Sorted
  <2>4. j = 1 \/ 1 < j
    OBVIOUS
  <2> QED
    BY <2>2, <2>3, <2>4
<1> QED
  BY <1>1, <1>2, <1>3

\* The notional of the levels, and what a fill of them is worth, are numbers.
LEMMA HeldFacts ==
  ASSUME NEW bid \in BOOLEAN, NEW s, SideOK(s, bid)
  PROVE  /\ Held(s) \in [1..Len(s) -> Nat]
         /\ \A j \in 1..Len(s) : Held(s)[j] = s[j].px * s[j].sz /\ Held(s)[j] \in Nat \ {0}
         /\ Worth(s, Held(s)) \in [1..Len(s) -> Nat]
         /\ \A j \in 1..Len(s) : Worth(s, Held(s))[j] = Held(s)[j] * (Unit \div s[j].px)
<1>1. /\ Len(s) \in Nat \ {0} /\ DOMAIN s = 1..Len(s)
      /\ \A j \in 1..Len(s) : /\ s[j].px \in Nat \ {0} /\ s[j].sz \in Nat \ {0}
                              /\ Unit \div s[j].px \in Nat \ {0}
  BY SideFacts
<1>2. ASSUME NEW j \in 1..Len(s) PROVE s[j].px * s[j].sz \in Nat \ {0}
  BY <1>1
<1>3. /\ Held(s) \in [1..Len(s) -> Nat]
      /\ \A j \in 1..Len(s) : Held(s)[j] = s[j].px * s[j].sz /\ Held(s)[j] \in Nat \ {0}
  BY <1>1, <1>2 DEF Held
<1>4. ASSUME NEW j \in 1..Len(s) PROVE Held(s)[j] * (Unit \div s[j].px) \in Nat
  <2>1. Held(s)[j] \in Nat /\ Unit \div s[j].px \in Nat
    BY <1>1, <1>3
  <2> QED
    BY <2>1
<1> QED
  BY <1>1, <1>3, <1>4 DEF Worth

\* The side a walk reads is one of the snapshot's.
LEMMA LevelsFacts ==
  ASSUME BookTypeOK, Snapshot
  PROVE  SideOK(levels, is_bid) /\ is_bid \in BOOLEAN /\ levels \in {bids, asks}
BY DEF BookTypeOK, Snapshot, levels

-----------------------------------------------------------------------------
\* A walk that has not begun.
LEMMA FreshTotals ==
  ASSUME Snapshot, usd \in Nat, is_bid \in BOOLEAN, at = 1, spent = 0, qty = 0
  PROVE  Totals /\ NoBetterThanTouch
<1>1. SideOK(levels, is_bid)
  BY DEF Snapshot, levels
<1>2. Len(levels) \in Nat \ {0}
  BY <1>1, SideFacts
<1>3. SumTo(Held(levels), at - 1) = 0
  <2>1. at - 1 = 0
    OBVIOUS
  <2> QED
    BY <2>1, SumEquation
<1>4. Totals
  BY <1>2, <1>3 DEF Totals, Smaller
<1>5. bids[1].px \in Nat /\ asks[1].px \in Nat
  <2>1. SideOK(bids, TRUE) /\ SideOK(asks, FALSE)
    BY DEF Snapshot
  <2>2. Len(bids) \in Nat \ {0} /\ \A j \in 1..Len(bids) : bids[j].px \in Nat \ {0}
    BY <2>1, SideFacts
  <2>3. Len(asks) \in Nat \ {0} /\ \A j \in 1..Len(asks) : asks[j].px \in Nat \ {0}
    BY <2>1, SideFacts
  <2> QED
    BY <2>2, <2>3
<1>6. NoBetterThanTouch
  BY <1>5, BookAssumption DEF NoBetterThanTouch
<1> QED
  BY <1>4, <1>6

\* The invariant holds of every snapshot M3 may have written.
LEMMA BookStarts == BookInit => BookInv
<1> SUFFICES ASSUME BookInit PROVE BookInv
  OBVIOUS
<1>1. Min(Ladder) \in Ladder /\ \A u \in Ladder : Min(Ladder) <= u
  BY MinLeast, BookAssumption
<1>2. usd \in Nat /\ usd \in Ladder /\ usd # 0
  BY <1>1, BookAssumption DEF BookInit
<1>3. BookTypeOK
  BY <1>2, BookAssumption DEF BookInit, BookTypeOK, Unpriced
<1>4. ASSUME NEW bid \in BOOLEAN, NEW s \in Sides(bid) PROVE SideOK(s, bid)
  <2>1. PICK m \in 0..MaxLevels : s \in [1..m -> LevelRows]
    BY DEF Sides, SeqOf, LevelRows
  <2>2. s # <<>> /\ Sorted(s, bid)
    BY DEF Sides
  <2>3. s \in Seq(LevelRows) /\ Len(s) = m
    BY <2>1, BookAssumption
  <2>4. m # 0
    BY <2>1, <2>2, <2>3
  <2> QED
    BY <2>2, <2>3, <2>4, BookAssumption DEF SideOK
<1>5. Snapshot
  BY <1>4 DEF BookInit, Snapshot
<1>6. Totals /\ NoBetterThanTouch
  BY <1>2, <1>5, FreshTotals DEF BookInit
<1>7. TableSoFar
  <2>1. \A u \in Ladder : ~(u < usd)
    BY <1>1, <1>2, BookAssumption DEF BookInit
  <2> QED
    BY <1>2, <2>1 DEF BookInit, TableSoFar, Complete
<1> QED
  BY <1>3, <1>5, <1>6, <1>7 DEF BookInv

\* Before the order is filled, the totals are those of the levels passed.
LEMMA Unfilled ==
  ASSUME BookTypeOK, Snapshot, Totals, spent < usd, at <= Len(levels)
  PROVE  /\ spent = SumTo(Held(levels), at - 1)
         /\ qty = SumTo(Worth(levels, Held(levels)), at - 1)
<1> DEFINE N == Len(levels)
           c == Held(levels)
           w == Worth(levels, c)
<1>1. SideOK(levels, is_bid) /\ is_bid \in BOOLEAN
  BY LevelsFacts
<1>2. /\ N \in Nat /\ c \in [1..N -> Nat] /\ w \in [1..N -> Nat]
      /\ \A j \in 1..N : w[j] = c[j] * (Unit \div levels[j].px) /\ Unit \div levels[j].px \in Nat
  BY <1>1, SideFacts, HeldFacts
<1>3. at \in 1..N /\ at - 1 \in 0..N /\ usd \in Nat /\ spent \in Nat /\ qty \in Nat
  BY <1>2, BookAssumption DEF BookTypeOK
<1>4. SumTo(c, at - 1) \in Nat
  BY <1>2, <1>3, SumType
<1>5. spent = SumTo(c, at - 1)
  BY <1>3, <1>4 DEF Totals, Smaller
<1>6. CASE at = 1
  <2>1. at - 1 = 0 /\ qty = 0
    BY <1>6 DEF Totals
  <2> QED
    BY <1>5, <2>1, SumEquation
<1>7. CASE at > 1
  <2>1. at - 2 \in 0..N /\ (at - 2) + 1 = at - 1 /\ at - 1 \in 1..N /\ at - 2 \in Nat
    BY <1>3, <1>7
  <2>2. SumTo(c, at - 1) = SumTo(c, at - 2) + c[at - 1]
    BY <2>1, SumEquation
  <2>3. SumTo(w, at - 1) = SumTo(w, at - 2) + w[at - 1]
    BY <2>1, SumEquation
  <2>4. SumTo(c, at - 2) \in Nat /\ c[at - 1] \in Nat
    BY <1>2, <2>1, SumType
  <2>5. spent - SumTo(c, at - 2) = c[at - 1]
    BY <1>5, <2>2, <2>4
  <2>6. qty = SumTo(w, at - 2) + (spent - SumTo(c, at - 2)) * (Unit \div levels[at - 1].px)
    BY <1>7 DEF Totals
  <2>7. w[at - 1] = c[at - 1] * (Unit \div levels[at - 1].px)
    BY <1>2, <2>1
  <2> HIDE DEF w, c
  <2>8. qty = SumTo(w, at - 1)
    BY <2>3, <2>5, <2>6, <2>7
  <2> QED
    BY <1>5, <2>8 DEF w, c
<1> QED
  BY <1>3, <1>6, <1>7

\* One step of the loop keeps the totals those of the levels passed.
LEMMA LevelKeeps == BookInv /\ Level => BookInv'
<1> SUFFICES ASSUME BookInv, Level PROVE BookInv'
  OBVIOUS
<1> DEFINE N == Len(levels)
           c == Held(levels)
           w == Worth(levels, c)
           l == levels[at]
           take == Take(l)
           per == Unit \div l.px
<1>1. SideOK(levels, is_bid) /\ is_bid \in BOOLEAN
  BY LevelsFacts DEF BookInv
<1>2. /\ N \in Nat \ {0} /\ c \in [1..N -> Nat] /\ w \in [1..N -> Nat]
      /\ \A j \in 1..N : /\ levels[j].px \in Prices /\ levels[j].px \in Nat \ {0}
                         /\ levels[j].sz \in Nat \ {0}
                         /\ Unit \div levels[j].px \in Nat \ {0}
                         /\ c[j] = levels[j].px * levels[j].sz /\ c[j] \in Nat \ {0}
  BY <1>1, SideFacts, HeldFacts
<1>3. at \in Nat \ {0} /\ usd \in Nat /\ spent \in Nat /\ qty \in Nat /\ spent <= usd
  BY BookAssumption DEF BookInv, BookTypeOK
<1>4. at <= N /\ spent < usd
  BY <1>2, <1>3 DEF Level, Walked, Enough
<1>5. at \in 1..N /\ at - 1 \in 0..N /\ at - 1 \in Nat /\ (at - 1) + 1 = at
  BY <1>2, <1>3, <1>4
<1>6. /\ l.px \in Prices /\ l.px \in Nat \ {0} /\ l.sz \in Nat \ {0} /\ per \in Nat \ {0}
      /\ c[at] = l.px * l.sz /\ c[at] \in Nat \ {0} /\ levels[1].px \in Prices
  <2>1. 1 \in 1..N
    BY <1>2
  <2> QED
    BY <1>2, <1>5, <2>1
<1>7. spent = SumTo(c, at - 1) /\ qty = SumTo(w, at - 1)
  BY <1>4, Unfilled DEF BookInv
<1>8. take \in Nat \ {0} /\ take <= c[at] /\ spent + take = Smaller(usd, spent + c[at])
  <2>1. take = Smaller(c[at], usd - spent)
    BY <1>6 DEF Take
  <2> HIDE DEF take, c
  <2> QED
    BY <1>3, <1>4, <1>6, <2>1 DEF Smaller
<1>9. /\ qty' = qty + take * per /\ spent' = spent + take /\ at' = at + 1
      /\ levels' = levels /\ usd' = usd /\ is_bid' = is_bid /\ slips' = slips
      /\ bids' = bids /\ asks' = asks
  BY DEF Level, Bought, book, levels
<1>10. take * per \in Nat \ {0}
  <2> HIDE DEF take, per
  <2> QED
    BY <1>6, <1>8
<1>11. SumTo(c, at) = SumTo(c, at - 1) + c[at]
  <2>1. SumTo(c, (at - 1) + 1) = SumTo(c, at - 1) + c[(at - 1) + 1]
    BY <1>5, SumEquation
  <2> QED
    BY <1>5, <2>1
<1> HIDE DEF take, per, l, c, w
<1>12. BookTypeOK'
  <2>1. spent + take <= usd
    BY <1>3, <1>6, <1>8 DEF Smaller
  <2>2. qty' \in Nat /\ spent' \in 0..usd
    BY <1>3, <1>8, <1>9, <1>10, <2>1
  <2>3. at + 1 \in 1..(MaxLevels + 1)
    BY <1>1, <1>5, BookAssumption DEF SideOK
  <2> QED
    BY <1>9, <2>2, <2>3 DEF BookInv, BookTypeOK
<1>13. Snapshot'
  BY <1>9 DEF BookInv, Snapshot, SideOK, Sorted
<1>14. Totals'
  <2>1. at' - 1 = at /\ at' - 2 = at - 1 /\ at' > 1 /\ at' <= N + 1
    BY <1>5, <1>9
  <2>2. spent' = Smaller(usd, SumTo(c, at))
    BY <1>7, <1>8, <1>9, <1>11
  <2>3. SumTo(c, at - 1) <= spent'
    BY <1>3, <1>7, <1>8, <1>9
  <2>4. qty' = SumTo(w, at - 1) + (spent' - SumTo(c, at - 1)) * per
    <3>1. spent' - SumTo(c, at - 1) = take
      BY <1>3, <1>7, <1>8, <1>9
    <3> QED
      BY <1>7, <1>9, <3>1
  <2>5. qty' > 0
    BY <1>3, <1>9, <1>10
  <2>6. at' # 1
    BY <1>3, <1>9
  <2> QED
    BY <1>9, <2>1, <2>2, <2>3, <2>4, <2>5, <2>6 DEF Totals, c, w, per, l
<1>15. NoBetterThanTouch'
  <2>1. IF is_bid THEN l.px <= levels[1].px ELSE levels[1].px <= l.px
    BY <1>1, <1>5, SideFacts DEF l
  <2>2. CASE is_bid
    <3>1. spent * Unit <= levels[1].px * qty
      BY <2>2 DEF BookInv, NoBetterThanTouch, levels
    <3>2. spent' * Unit <= levels[1].px * qty'
      BY <1>3, <1>6, <1>8, <1>9, <2>1, <2>2, <3>1, OneMore DEF per
    <3> QED
      BY <1>9, <2>2, <3>2 DEF NoBetterThanTouch, levels
  <2>3. CASE ~is_bid
    <3>1. levels[1].px * qty <= spent * Unit
      BY <2>3 DEF BookInv, NoBetterThanTouch, levels
    <3>2. levels[1].px * qty' <= spent' * Unit
      BY <1>3, <1>6, <1>8, <1>9, <2>1, <2>3, <3>1, OneMore DEF per
    <3> QED
      BY <1>9, <2>3, <3>2 DEF NoBetterThanTouch, levels
  <2> QED
    BY <2>2, <2>3
<1>16. TableSoFar'
  BY <1>9 DEF BookInv, TableSoFar, Complete, Priced, DepthOf
<1> QED
  BY <1>12, <1>13, <1>14, <1>15, <1>16 DEF BookInv

\* A finished walk has filled the order or emptied the side.
LEMMA Finished ==
  ASSUME BookInv, ~Complete, Walked
  PROVE  /\ DepthOf(levels) \in Nat /\ usd \in Ladder /\ usd \in Nat \ {0}
         /\ spent = Smaller(usd, DepthOf(levels))
         /\ Unfillable <=> DepthOf(levels) < usd
         /\ at - 1 \in 1..Len(levels)
<1> DEFINE N == Len(levels)
           c == Held(levels)
<1>1. SideOK(levels, is_bid) /\ is_bid \in BOOLEAN
  BY LevelsFacts DEF BookInv
<1>2. N \in Nat \ {0} /\ DOMAIN levels = 1..N /\ c \in [1..N -> Nat]
  BY <1>1, SideFacts, HeldFacts
<1>3. DepthOf(levels) = SumTo(c, N)
  BY DEF DepthOf, Held
<1> HIDE DEF c
<1>4. /\ at \in Nat \ {0} /\ spent \in Nat /\ qty \in Nat /\ spent <= usd
      /\ usd \in Ladder /\ usd \in Nat \ {0} /\ at - 1 \in Nat
  BY BookAssumption DEF BookInv, BookTypeOK, Complete
<1>5. at <= N + 1 /\ spent = Smaller(usd, SumTo(c, at - 1)) /\ (spent > 0 => qty > 0)
  BY DEF BookInv, Totals, c
<1>6. at - 1 \in 0..N
  BY <1>2, <1>4, <1>5
<1>7. /\ SumTo(c, N) \in Nat /\ SumTo(c, at - 1) \in Nat /\ SumTo(c, at - 1) <= SumTo(c, N)
      /\ SumTo(c, 0) = 0
  <2>1. N \in 0..N /\ N \in (at - 1)..N
    BY <1>2, <1>6
  <2> QED
    BY <1>2, <1>6, <2>1, SumType, SumGrows, SumEquation
<1>8. at > N \/ spent >= usd
  BY DEF Walked, Enough
<1>9. spent = Smaller(usd, SumTo(c, N))
  <2>1. CASE at > N
    <3>1. at - 1 = N
      BY <1>2, <1>4, <1>5, <2>1
    <3> QED
      BY <1>5, <3>1
  <2>2. CASE spent >= usd
    BY <1>4, <1>5, <1>7, <2>2 DEF Smaller
  <2> QED
    BY <1>8, <2>1, <2>2
<1>10. Unfillable <=> SumTo(c, N) < usd
  BY <1>4, <1>5, <1>7, <1>9 DEF Unfillable, Smaller
<1>11. at # 1
  <2>1. at = 1 => at - 1 = 0
    BY <1>4
  <2>2. at = 1 => spent = 0
    BY <1>4, <1>5, <1>7, <2>1 DEF Smaller
  <2> QED
    BY <1>2, <1>4, <1>8, <2>2
<1> QED
  BY <1>3, <1>4, <1>6, <1>7, <1>9, <1>10, <1>11

\* A finished walk enters the table as it must, and the next one begins.
LEMMA ReturnKeeps == BookInv /\ Return => BookInv'
<1> SUFFICES ASSUME BookInv, Return PROVE BookInv'
  OBVIOUS
<1> DEFINE filled == IF Unfillable THEN Unpriced ELSE [spent |-> spent, qty |-> qty]
<1>1. /\ ~Complete /\ Walked /\ bids' = bids /\ asks' = asks
      /\ is_bid' = ~is_bid /\ at' = 1 /\ spent' = 0 /\ qty' = 0
      /\ usd' = IF is_bid THEN usd ELSE NextRung
      /\ slips' = IF is_bid THEN [slips EXCEPT ![usd].sell = filled]
                            ELSE [slips EXCEPT ![usd].buy = filled]
  BY DEF Return, book
<1>2. /\ DepthOf(levels) \in Nat /\ usd \in Ladder /\ usd \in Nat \ {0}
      /\ spent = Smaller(usd, DepthOf(levels)) /\ (Unfillable <=> DepthOf(levels) < usd)
  BY <1>1, Finished
<1>3. /\ spent \in Nat /\ qty \in Nat /\ is_bid \in BOOLEAN /\ is_bid' \in BOOLEAN
      /\ slips \in [Ladder -> [sell: Walks, buy: Walks]]
  BY <1>1, <1>2 DEF BookInv, BookTypeOK, Walks
<1>4. filled \in Walks
  BY <1>3 DEF Unpriced, Walks
<1>5. Priced(levels, is_bid, filled, usd)
  <2>1. CASE Unfillable
    BY <1>2, <2>1 DEF Priced
  <2>2. CASE ~Unfillable
    <3>1. filled.spent = spent /\ filled.qty = qty
      BY <2>2
    <3>2. spent = usd /\ qty > 0 /\ ~(DepthOf(levels) < usd)
      BY <1>2, <1>3, <2>2 DEF Smaller, Unfillable
    <3>3. IF is_bid THEN spent * Unit <= levels[1].px * qty ELSE levels[1].px * qty <= spent * Unit
      BY DEF BookInv, NoBetterThanTouch, levels
    <3> HIDE DEF filled
    <3> QED
      BY <3>1, <3>2, <3>3 DEF Priced
  <2> QED
    BY <2>1, <2>2
<1> HIDE DEF filled
<1>6. usd' \in Ladder \cup {0} /\ usd' \in Nat
  BY <1>1, <1>2, NextRungType, BookAssumption
<1>7. slips' \in [Ladder -> [sell: Walks, buy: Walks]]
  BY <1>1, <1>3, <1>4
<1>8. BookTypeOK'
  <2>1. spent' \in 0..usd' /\ at' \in 1..(MaxLevels + 1) /\ qty' \in Nat
    BY <1>1, <1>6, BookAssumption
  <2> QED
    BY <1>3, <1>6, <1>7, <2>1 DEF BookTypeOK, Walks
<1>9. Snapshot'
  BY <1>1 DEF BookInv, Snapshot, SideOK, Sorted
<1>10. Totals' /\ NoBetterThanTouch'
  <2>1. (Snapshot /\ usd \in Nat /\ is_bid \in BOOLEAN /\ at = 1 /\ spent = 0 /\ qty = 0
           => Totals /\ NoBetterThanTouch)'
    BY FreshTotals, PTL
  <2> QED
    BY <1>1, <1>3, <1>6, <1>9, <2>1
<1>11. TableSoFar'
  <2> SUFFICES ASSUME NEW u \in Ladder
               PROVE  /\ (Complete \/ u < usd \/ (u = usd /\ ~is_bid))'
                             => Priced(bids, TRUE, slips[u].sell, u)'
                      /\ (Complete \/ u < usd)' => Priced(asks, FALSE, slips[u].buy, u)'
    BY DEF TableSoFar
  <2>1. u \in Nat \ {0}
    BY BookAssumption
  <2>2. /\ u < usd \/ (u = usd /\ ~is_bid) => Priced(bids, TRUE, slips[u].sell, u)
        /\ u < usd => Priced(asks, FALSE, slips[u].buy, u)
    BY DEF BookInv, TableSoFar
  <2>3. \A s, bid, walk : Priced(s, bid, walk, u)' <=> Priced(s, bid, walk, u)
    BY DEF Priced, DepthOf
  <2>4. CASE is_bid
    <3>1. /\ slips'[u].buy = slips[u].buy
          /\ slips'[u].sell = IF u = usd THEN filled ELSE slips[u].sell
      BY <1>1, <1>2, <1>3, <2>4
    <3>2. usd' = usd /\ ~Complete' /\ levels = bids
      BY <1>1, <1>2, <2>4 DEF Complete, levels
    <3>3. u < usd \/ u = usd => Priced(bids, TRUE, slips'[u].sell, u)
      BY <1>2, <1>5, <2>1, <2>2, <2>4, <3>1, <3>2
    <3>4. u < usd => Priced(asks, FALSE, slips'[u].buy, u)
      BY <2>2, <3>1
    <3> QED
      BY <1>1, <3>2, <3>3, <3>4 DEF Priced, DepthOf
  <2>5. CASE ~is_bid
    <3>1. /\ slips'[u].sell = slips[u].sell
          /\ slips'[u].buy = IF u = usd THEN filled ELSE slips[u].buy
      BY <1>1, <1>2, <1>3, <2>5
    <3>2. (Complete \/ u < usd)' => u <= usd
      BY <1>1, <1>2, <2>5, NextRungType DEF Complete
    <3>3. levels = asks /\ is_bid' /\ (u <= usd => u < usd \/ u = usd)
      <4>1. is_bid'
        BY <1>1, <2>5
      <4>2. levels = asks
        BY <2>5 DEF levels
      <4>3. u <= usd => u < usd \/ u = usd
        BY <1>2, <2>1
      <4> QED
        BY <4>1, <4>2, <4>3
    <3>4. u <= usd => Priced(bids, TRUE, slips'[u].sell, u)
      BY <2>2, <2>5, <3>1, <3>3
    <3>5. u <= usd => Priced(asks, FALSE, slips'[u].buy, u)
      <4>1. is_bid = FALSE
        BY <1>3, <2>5
      <4>2. Priced(asks, FALSE, filled, usd)
        BY <1>5, <3>3, <4>1
      <4> QED
        BY <2>2, <3>1, <3>3, <4>2
    <3> QED
      BY <1>1, <3>2, <3>3, <3>4, <3>5 DEF Priced, DepthOf
  <2> QED
    BY <2>4, <2>5
<1> QED
  BY <1>8, <1>9, <1>10, <1>11 DEF BookInv

\* The inductive invariant of the walk and its table.
LEMMA BookInvariance == BookSpec => []BookInv
<1>1. BookInv /\ UNCHANGED book_vars => BookInv'
  <2> SUFFICES ASSUME BookInv, UNCHANGED book_vars PROVE BookInv'
    OBVIOUS
  <2>1. /\ bids' = bids /\ asks' = asks /\ usd' = usd /\ is_bid' = is_bid
        /\ at' = at /\ spent' = spent /\ qty' = qty /\ slips' = slips
    BY DEF book_vars, book
  <2>2. BookTypeOK'
    BY <2>1 DEF BookInv, BookTypeOK
  <2>3. Snapshot'
    BY <2>1 DEF BookInv, Snapshot, SideOK, Sorted
  <2>4. NoBetterThanTouch'
    BY <2>1 DEF BookInv, NoBetterThanTouch
  <2>5. Totals'
    BY <2>1 DEF BookInv, Totals, levels
  <2>6. TableSoFar'
    BY <2>1 DEF BookInv, TableSoFar, Complete, Priced, DepthOf
  <2> QED
    BY <2>2, <2>3, <2>4, <2>5, <2>6 DEF BookInv
<1>2. BookInv /\ [BookNext]_book_vars => BookInv'
  BY <1>1, LevelKeeps, ReturnKeeps DEF BookNext
<1> QED
  BY BookStarts, <1>2, PTL DEF BookSpec

\* The better the price, the less a unit of notional buys of bids and the more of asks.
LEMMA WorthOrder ==
  ASSUME NEW bid \in BOOLEAN, NEW s, SideOK(s, bid), NEW j \in 1..Len(s), NEW k \in 1..Len(s), j <= k
  PROVE  IF bid THEN Unit \div s[j].px <= Unit \div s[k].px
                ELSE Unit \div s[k].px <= Unit \div s[j].px
<1> DEFINE p == s[j].px
           q == s[k].px
           u == Unit \div p
           v == Unit \div q
<1>1. /\ p \in Nat \ {0} /\ q \in Nat \ {0} /\ u \in Nat \ {0} /\ v \in Nat \ {0}
      /\ p * u = Unit /\ q * v = Unit /\ DOMAIN s = 1..Len(s)
  BY SideFacts
<1>2. j = k \/ j < k
  OBVIOUS
<1>3. j < k => IF bid THEN p > q ELSE p < q
  BY <1>1 DEF SideOK, Sorted
<1>4. ASSUME NEW a \in Nat \ {0}, NEW b \in Nat \ {0}, NEW x \in Nat \ {0}, NEW y \in Nat \ {0},
             a * x = b * y, a < b
      PROVE  y <= x
  <2>1. SUFFICES ASSUME x < y PROVE FALSE
    OBVIOUS
  <2>2. a * x < a * y
    BY <2>1
  <2>3. a * y < b * y
    BY <1>4
  <2>4. a * x \in Nat /\ a * y \in Nat /\ b * y \in Nat
    OBVIOUS
  <2> QED
    BY <1>4, <2>2, <2>3, <2>4
<1> HIDE DEF p, q, u, v
<1>5. (p < q => v <= u) /\ (q < p => u <= v)
  BY <1>1, <1>4
<1>6. CASE j = k
  <2>1. p = q /\ u = v
    BY <1>6 DEF p, q, u, v
  <2> QED
    BY <1>1, <2>1 DEF p, q, u, v
<1>7. CASE j < k
  <2>1. IF bid THEN p > q ELSE p < q
    BY <1>3, <1>7
  <2>2. IF bid THEN u <= v ELSE v <= u
    BY <1>1, <1>5, <2>1
  <2> QED
    BY <2>2 DEF p, q, u, v
<1> QED
  BY <1>2, <1>6, <1>7

\* The amounts a walk fills are worth as much as any others of its notional.
LEMMA Greedy ==
  ASSUME BookInv, ~Complete, Walked, NEW f \in Fills(spent)
  PROVE  IF is_bid THEN QtyOf(f) >= qty ELSE QtyOf(f) <= qty
<1> DEFINE N == Len(levels)
           c == Held(levels)
           k == at - 1
           v == [j \in 1..N |-> Unit \div levels[j].px]
           cv == [j \in 1..N |-> c[j] * v[j]]
           fv == [j \in 1..N |-> f[j] * v[j]]
<1>1. SideOK(levels, is_bid) /\ is_bid \in BOOLEAN
  BY LevelsFacts DEF BookInv
<1>2. /\ N \in Nat \ {0} /\ DOMAIN levels = 1..N /\ c \in [1..N -> Nat]
      /\ \A j \in 1..N : c[j] = levels[j].px * levels[j].sz /\ Unit \div levels[j].px \in Nat
  BY <1>1, SideFacts, HeldFacts
<1>3. k \in 1..N /\ at \in Nat /\ spent \in Nat /\ qty \in Nat /\ at > 1 /\ at - 2 = k - 1
  <2>1. k \in 1..N
    BY Finished
  <2>2. at \in Nat /\ spent \in Nat /\ qty \in Nat
    BY <2>1, BookAssumption DEF BookInv, BookTypeOK
  <2> QED
    BY <2>1, <2>2
<1>4. /\ f \in [1..N -> Nat] /\ \A j \in 1..N : f[j] <= c[j]
      /\ SumTo(f, N) = spent
  <2>1. /\ f \in [1..N -> 0..spent] /\ \A j \in 1..N : f[j] <= levels[j].px * levels[j].sz
        /\ SumTo(f, N) = spent
    BY <1>2 DEF Fills
  <2> HIDE DEF c
  <2> QED
    BY <1>2, <1>3, <2>1
<1>5. v \in [1..N -> Int] /\ v[k] \in Nat
  BY <1>2, <1>3
<1>6. QtyOf(f) = SumTo(fv, N)
  <2>1. fv = [j \in DOMAIN levels |-> f[j] * (Unit \div levels[j].px)]
    BY <1>2
  <2> HIDE DEF fv
  <2> QED
    BY <2>1 DEF QtyOf
<1>7. cv = Worth(levels, c)
  BY <1>2 DEF Worth
<1>8. qty = SumTo(cv, k - 1) + (spent - SumTo(c, k - 1)) * v[k]
  <2>1. qty = SumTo(Worth(levels, c), at - 2)
                + (spent - SumTo(c, at - 2)) * (Unit \div levels[at - 1].px)
    BY <1>3 DEF BookInv, Totals
  <2>2. v[k] = Unit \div levels[at - 1].px
    BY <1>3
  <2> HIDE DEF v, cv, c
  <2> QED
    BY <1>3, <1>7, <2>1, <2>2
<1>9. /\ ~is_bid => \A j \in 1..N : IF j < k THEN v[k] <= v[j] ELSE v[j] <= v[k]
      /\ is_bid => \A j \in 1..N : IF j < k THEN v[j] <= v[k] ELSE v[k] <= v[j]
  <2> SUFFICES ASSUME NEW j \in 1..N
               PROVE  /\ ~is_bid => IF j < k THEN v[k] <= v[j] ELSE v[j] <= v[k]
                      /\ is_bid => IF j < k THEN v[j] <= v[k] ELSE v[k] <= v[j]
    OBVIOUS
  <2>1. v[j] = Unit \div levels[j].px /\ v[k] = Unit \div levels[k].px
    BY <1>3
  <2>2. j \in 1..Len(levels) /\ k \in 1..Len(levels)
    BY <1>3
  <2> HIDE DEF v, k
  <2>3. j <= k => IF is_bid THEN v[j] <= v[k] ELSE v[k] <= v[j]
    BY <1>1, <2>1, <2>2, WorthOrder
  <2>4. k <= j => IF is_bid THEN v[k] <= v[j] ELSE v[j] <= v[k]
    BY <1>1, <2>1, <2>2, WorthOrder
  <2>5. IF j < k THEN j <= k ELSE k <= j
    BY <2>2
  <2> QED
    BY <2>3, <2>4, <2>5
<1> DEFINE better == SumTo(fv, N) - v[k] * SumTo(f, N)
           best == SumTo(cv, k - 1) - v[k] * SumTo(c, k - 1)
<1>10. /\ ~is_bid => better <= best
       /\ is_bid => best <= better
  <2> HIDE DEF c, k
  <2>1. N \in Nat
    BY <1>2
  <2>2. /\ (\A j \in 1..N : IF j < k THEN v[k] <= v[j] ELSE v[j] <= v[k]) => better <= best
        /\ (\A j \in 1..N : IF j < k THEN v[j] <= v[k] ELSE v[k] <= v[j]) => best <= better
    <3> HIDE DEF v
    <3> QED
      BY <1>2, <1>3, <1>4, <1>5, <2>1, Exchange
  <2> HIDE DEF better, best, v
  <2> QED
    BY <1>9, <2>2
<1>11. /\ SumTo(fv, N) \in Int /\ SumTo(cv, k - 1) \in Int /\ SumTo(c, k - 1) \in Int
  <2>1. fv \in [1..N -> Int] /\ cv \in [1..N -> Int] /\ c \in [1..N -> Int]
    <3> HIDE DEF v, c
    <3> QED
      BY <1>2, <1>4, <1>5
  <2>2. N \in 0..N /\ k - 1 \in 0..N
    BY <1>2, <1>3
  <2> HIDE DEF fv, cv, c, k
  <2> QED
    BY <1>2, <2>1, <2>2, SumType
<1>12. best = qty - v[k] * spent
  <2> HIDE DEF v, c, cv, k
  <2> DEFINE a == SumTo(cv, k - 1)
             b == SumTo(c, k - 1)
             x == v[k]
  <2>1. a \in Int /\ b \in Int /\ x \in Int /\ spent \in Int /\ qty = a + (spent - b) * x
    BY <1>3, <1>5, <1>8, <1>11
  <2> HIDE DEF a, b, x
  <2>2. a - x * b = qty - x * spent
    BY <2>1
  <2> QED
    BY <2>2 DEF a, b, x
<1>13. better = SumTo(fv, N) - v[k] * spent
  BY <1>4
<1> HIDE DEF better, best
<1> QED
  <2> DEFINE y == v[k] * spent
             z == SumTo(fv, N)
  <2>1. y \in Int /\ z \in Int
    <3> HIDE DEF v, k
    <3> QED
      BY <1>3, <1>5, <1>11
  <2>2. best = qty - y /\ better = z - y
    BY <1>12, <1>13
  <2> HIDE DEF y, z
  <2>3. (~is_bid => z <= qty) /\ (is_bid => z >= qty)
    BY <1>3, <1>10, <2>1, <2>2
  <2> QED
    BY <1>6, <2>3 DEF z

-----------------------------------------------------------------------------
\* The walk and the table keep their types: it never spends more than the rung.
THEOREM TableTyping == BookSpec => []BookTypeOK
  BY BookInvariance, PTL DEF BookInv

\* slip_fraction, "measured from mid, so it ALREADY includes crossing the half-spread":
\* the average price of a walk is never better than the best level of its side.
THEOREM SpreadIsIncluded == BookSpec => []NoBetterThanTouch
  BY BookInvariance, PTL DEF BookInv

\* slip_fraction's two exits, and _vwap's: a walk ends with the size filled, or with
\* all that the side holds, and is unfillable just if that is less.
THEOREM WalkIsHonest == BookSpec => []FillIsHonest
<1>1. BookInv => FillIsHonest
  BY Finished DEF FillIsHonest
<1> QED
  BY <1>1, BookInvariance, PTL

\* The loop over the levels is optimal: no choice of amounts from the levels, for the
\* notional the walk spent, sells less or buys more.
THEOREM WalkIsBest == BookSpec => []BestExecution
<1>1. BookInv => BestExecution
  BY Greedy DEF BestExecution
<1> QED
  BY <1>1, BookInvariance, PTL

-----------------------------------------------------------------------------
(* M4's economics on a complete table. *)

Fracs == [n: Int, d: Int]

\* What the operations on fractions compute: a sum.
LEMMA PlusIs ==
  ASSUME NEW x \in Fracs, NEW y \in Fracs
  PROVE  Plus(x, y) \in Fracs /\ Plus(x, y).n = x.n * y.d + y.n * x.d /\ Plus(x, y).d = x.d * y.d
<1>1. x.n \in Int /\ x.d \in Int /\ y.n \in Int /\ y.d \in Int
  BY DEF Fracs
<1> QED
  BY <1>1 DEF Plus, Frac, Fracs

\* A difference.
LEMMA MinusIs ==
  ASSUME NEW x \in Fracs, NEW y \in Fracs
  PROVE  Minus(x, y) \in Fracs /\ Minus(x, y).n = x.n * y.d - y.n * x.d /\ Minus(x, y).d = x.d * y.d
<1>1. x.n \in Int /\ x.d \in Int /\ y.n \in Int /\ y.d \in Int
  BY DEF Fracs
<1> QED
  BY <1>1 DEF Minus, Frac, Fracs

\* A product.
LEMMA TimesIs ==
  ASSUME NEW x \in Fracs, NEW y \in Fracs
  PROVE  Times(x, y) \in Fracs /\ Times(x, y).n = x.n * y.n /\ Times(x, y).d = x.d * y.d
<1>1. x.n \in Int /\ x.d \in Int /\ y.n \in Int /\ y.d \in Int
  BY DEF Fracs
<1> QED
  BY <1>1 DEF Times, Frac, Fracs

\* A quotient.
LEMMA OverIs ==
  ASSUME NEW x \in Fracs, NEW y \in Fracs
  PROVE  Over(x, y) \in Fracs /\ Over(x, y).n = x.n * y.d /\ Over(x, y).d = x.d * y.n
<1>1. x.n \in Int /\ x.d \in Int /\ y.n \in Int /\ y.d \in Int
  BY DEF Fracs
<1> QED
  BY <1>1 DEF Over, Frac, Fracs

\* Products of positive numbers.
LEMMA Positive ==
  ASSUME NEW a \in Nat \ {0}, NEW b \in Nat \ {0}
  PROVE  a * b \in Nat \ {0}
OBVIOUS

\* A walk that filled its size, as a price relative to the mid.
LEMMA VwapFacts ==
  ASSUME Snapshot, NEW bid \in BOOLEAN, NEW s \in {bids, asks}, NEW u \in Ladder,
         NEW walk \in Walks, Priced(s, bid, walk, u), ~(DepthOf(s) < u)
  PROVE  LET mid2 == bids[1].px + asks[1].px
         IN  /\ walk # Unpriced /\ walk.spent \in Nat \ {0} /\ walk.qty \in Nat \ {0}
             /\ mid2 \in Nat \ {0}
             /\ VwapOverMid(walk).n = walk.spent * Unit * 2
             /\ VwapOverMid(walk).d = walk.qty * mid2
             /\ VwapOverMid(walk) \in Fracs
             /\ VwapOverMid(walk).n > 0 /\ VwapOverMid(walk).d > 0
<1> DEFINE mid2 == bids[1].px + asks[1].px
<1>1. walk.spent = u /\ walk.qty > 0 /\ walk.spent \in Nat \ {0} /\ walk.qty \in Nat \ {0}
      /\ Unit \in Nat \ {0}
  BY BookAssumption DEF Priced, Walks
<1>2. walk # Unpriced
  BY <1>1 DEF Unpriced
<1>3. mid2 \in Nat \ {0}
  <2>1. SideOK(bids, TRUE) /\ SideOK(asks, FALSE)
    BY DEF Snapshot
  <2>2. Len(bids) \in Nat \ {0} /\ \A j \in 1..Len(bids) : bids[j].px \in Nat \ {0}
    BY <2>1, SideFacts
  <2>3. Len(asks) \in Nat \ {0} /\ \A j \in 1..Len(asks) : asks[j].px \in Nat \ {0}
    BY <2>1, SideFacts
  <2>4. bids[1].px \in Nat \ {0} /\ asks[1].px \in Nat \ {0}
    BY <2>2, <2>3
  <2> QED
    BY <2>4
<1> HIDE DEF mid2
<1>4. SnapshotMid = [n |-> mid2, d |-> 2] /\ SnapshotMid \in Fracs
  BY <1>3 DEF SnapshotMid, Frac, Fracs, mid2
<1>5. walk.spent * Unit \in Nat \ {0}
  BY <1>1, Positive
<1> DEFINE price == Frac(walk.spent * Unit, walk.qty)
<1>6. price = [n |-> walk.spent * Unit, d |-> walk.qty] /\ price \in Fracs
  BY <1>1, <1>5 DEF Frac, Fracs
<1>7. VwapOverMid(walk) = Over(price, SnapshotMid)
  BY DEF VwapOverMid
<1> HIDE DEF price
<1>8. /\ Over(price, SnapshotMid).n = price.n * SnapshotMid.d
      /\ Over(price, SnapshotMid).d = price.d * SnapshotMid.n
      /\ Over(price, SnapshotMid) \in Fracs
  BY <1>4, <1>6, OverIs
<1>9. VwapOverMid(walk).n = walk.spent * Unit * 2 /\ VwapOverMid(walk).d = walk.qty * mid2
  <2>1. price.n = walk.spent * Unit /\ price.d = walk.qty
    BY <1>6
  <2>2. SnapshotMid.n = mid2 /\ SnapshotMid.d = 2
    BY <1>4
  <2> QED
    BY <1>7, <1>8, <2>1, <2>2
<1>10. walk.spent * Unit * 2 \in Nat \ {0} /\ walk.qty * mid2 \in Nat \ {0}
  BY <1>1, <1>3, <1>5, Positive
<1> QED
  BY <1>1, <1>2, <1>3, <1>7, <1>8, <1>9, <1>10 DEF mid2

\* What a row's Bybit leg pays for a price relative to the mid.
Paid(row, vwap) ==
    IF row.direction = "A"
    THEN [n |-> row.qty_mnt.n * vwap.n * (FeeUnits - 1), d |-> row.qty_mnt.d * vwap.d * FeeUnits]
    ELSE [n |-> row.qty_mnt.n * vwap.n * (FeeUnits + 1), d |-> row.qty_mnt.d * vwap.d * FeeUnits]

\* CexFactor is Paid, in both directions: 1 - slip and 1 + slip are the average price
\* over the mid.
LEMMA CexOf ==
  ASSUME NEW row, row.qty_mnt \in Fracs, NEW vwap \in Fracs,
         row.direction = "A" \/ row.direction = "B",
         Slip(row) = IF row.direction = "A" THEN Minus(One, vwap) ELSE Minus(vwap, One)
  PROVE  CexFactor(row) \in Fracs /\ CexFactor(row).n = Paid(row, vwap).n /\ CexFactor(row).d = Paid(row, vwap).d
<1> DEFINE q == row.qty_mnt
<1>1. One \in Fracs /\ One.n = 1 /\ One.d = 1
  BY DEF One, Int2Frac, Fracs
<1>2. Fee \in Fracs /\ Fee.n = 1 /\ Fee.d = FeeUnits /\ FeeUnits \in Int
  BY EconomicsAssumption DEF Fee, Frac, Fracs
<1>3. vwap.n \in Int /\ vwap.d \in Int /\ q.n \in Int /\ q.d \in Int
  BY DEF Fracs
<1> HIDE DEF q
<1>4. q \in Fracs
  BY DEF q
<1>5. CASE row.direction = "A"
  <2> DEFINE left == Minus(One, Minus(One, vwap))
             kept == Minus(One, Fee)
             sold == Times(q, left)
  <2>1. Minus(One, vwap) \in Fracs /\ Minus(One, vwap).n = vwap.d - vwap.n /\ Minus(One, vwap).d = vwap.d
    <3>1. Minus(One, vwap) \in Fracs /\ Minus(One, vwap).n = 1 * vwap.d - vwap.n * 1 /\ Minus(One, vwap).d = 1 * vwap.d
      BY <1>1, MinusIs
    <3> QED
      BY <1>3, <3>1
  <2>2. left \in Fracs /\ left.n = vwap.n /\ left.d = vwap.d
    <3>1. /\ left \in Fracs /\ left.n = One.n * Minus(One, vwap).d - Minus(One, vwap).n * One.d
          /\ left.d = One.d * Minus(One, vwap).d
      BY <1>1, <2>1, MinusIs
    <3>2. left.n = 1 * vwap.d - (vwap.d - vwap.n) * 1 /\ left.d = 1 * vwap.d
      BY <1>1, <2>1, <3>1
    <3> QED
      BY <1>3, <3>1, <3>2
  <2>3. kept \in Fracs /\ kept.n = FeeUnits - 1 /\ kept.d = FeeUnits
    <3>1. kept \in Fracs /\ kept.n = One.n * Fee.d - Fee.n * One.d /\ kept.d = One.d * Fee.d
      BY <1>1, <1>2, MinusIs
    <3>2. kept.n = 1 * FeeUnits - 1 * 1 /\ kept.d = 1 * FeeUnits
      BY <1>1, <1>2, <3>1
    <3> QED
      BY <1>2, <3>1, <3>2
  <2>4. CexFactor(row) = Times(sold, kept)
    BY <1>5 DEF CexFactor, q
  <2> HIDE DEF left, kept
  <2>5. sold \in Fracs /\ sold.n = q.n * vwap.n /\ sold.d = q.d * vwap.d
    <3>1. sold \in Fracs /\ sold.n = q.n * left.n /\ sold.d = q.d * left.d
      BY <1>4, <2>2, TimesIs
    <3> QED
      BY <2>2, <3>1
  <2> HIDE DEF sold
  <2>6. /\ CexFactor(row) \in Fracs
        /\ CexFactor(row).n = q.n * vwap.n * (FeeUnits - 1)
        /\ CexFactor(row).d = q.d * vwap.d * FeeUnits
    <3>1. /\ Times(sold, kept) \in Fracs /\ Times(sold, kept).n = sold.n * kept.n
          /\ Times(sold, kept).d = sold.d * kept.d
      BY <2>3, <2>5, TimesIs
    <3> QED
      BY <2>3, <2>4, <2>5, <3>1
  <2> QED
    BY <1>5, <2>4, <2>6 DEF Paid, q
<1>6. CASE row.direction = "B"
  <2> DEFINE left == Plus(One, Minus(vwap, One))
             kept == Plus(One, Fee)
             sold == Times(q, left)
  <2>1. Minus(vwap, One) \in Fracs /\ Minus(vwap, One).n = vwap.n - vwap.d /\ Minus(vwap, One).d = vwap.d
    <3>1. Minus(vwap, One) \in Fracs /\ Minus(vwap, One).n = vwap.n * 1 - 1 * vwap.d /\ Minus(vwap, One).d = vwap.d * 1
      BY <1>1, MinusIs
    <3> QED
      BY <1>3, <3>1
  <2>2. left \in Fracs /\ left.n = vwap.n /\ left.d = vwap.d
    <3>1. /\ left \in Fracs /\ left.n = One.n * Minus(vwap, One).d + Minus(vwap, One).n * One.d
          /\ left.d = One.d * Minus(vwap, One).d
      BY <1>1, <2>1, PlusIs
    <3>2. left.n = 1 * vwap.d + (vwap.n - vwap.d) * 1 /\ left.d = 1 * vwap.d
      BY <1>1, <2>1, <3>1
    <3> QED
      BY <1>3, <3>1, <3>2
  <2>3. kept \in Fracs /\ kept.n = FeeUnits + 1 /\ kept.d = FeeUnits
    <3>1. kept \in Fracs /\ kept.n = One.n * Fee.d + Fee.n * One.d /\ kept.d = One.d * Fee.d
      BY <1>1, <1>2, PlusIs
    <3>2. kept.n = 1 * FeeUnits + 1 * 1 /\ kept.d = 1 * FeeUnits
      BY <1>1, <1>2, <3>1
    <3> QED
      BY <1>2, <3>1, <3>2
  <2>4. CexFactor(row) = Times(sold, kept)
    BY <1>6 DEF CexFactor, q
  <2> HIDE DEF left, kept
  <2>5. sold \in Fracs /\ sold.n = q.n * vwap.n /\ sold.d = q.d * vwap.d
    <3>1. sold \in Fracs /\ sold.n = q.n * left.n /\ sold.d = q.d * left.d
      BY <1>4, <2>2, TimesIs
    <3> QED
      BY <2>2, <3>1
  <2> HIDE DEF sold
  <2>6. /\ CexFactor(row) \in Fracs
        /\ CexFactor(row).n = q.n * vwap.n * (FeeUnits + 1)
        /\ CexFactor(row).d = q.d * vwap.d * FeeUnits
    <3>1. /\ Times(sold, kept) \in Fracs /\ Times(sold, kept).n = sold.n * kept.n
          /\ Times(sold, kept).d = sold.d * kept.d
      BY <2>3, <2>5, TimesIs
    <3> QED
      BY <2>3, <2>4, <2>5, <3>1
  <2> QED
    BY <1>6, <2>4, <2>6 DEF Paid, q
<1> QED
  BY <1>5, <1>6

\* The walk a row is priced with.
WalkOf(row) == IF row.direction = "A" THEN slips[row.size_usd].sell ELSE slips[row.size_usd].buy

\* The types of a row, and its slip, that is null just where the side is too thin.
LEMMA RowFacts ==
  ASSUME BookInv, Complete, NEW mid \in PoolMids, NEW cost \in PoolCosts, NEW u \in Ladder,
         NEW row \in RowsOf(mid, cost, u)
  PROVE  /\ row.size_usd = u /\ (row.direction = "A" \/ row.direction = "B")
         /\ row.usd_leg \in Fracs /\ row.usd_leg.d > 0
         /\ DepthFor(row) < u => Slip(row) = Null
         /\ ~(DepthFor(row) < u) =>
               /\ VwapOverMid(WalkOf(row)) \in Fracs
               /\ Slip(row) # Null
               /\ CexFactor(row).n = Paid(row, VwapOverMid(WalkOf(row))).n
               /\ CexFactor(row).d = Paid(row, VwapOverMid(WalkOf(row))).d
               /\ CexFactor(row) \in Fracs /\ CexFactor(row).n > 0 /\ CexFactor(row).d > 0
<1> DEFINE V == VwapOverMid(WalkOf(row))
           q == row.qty_mnt
           leg == row.usd_leg
<1>1. u \in Nat \ {0} /\ mid \in Nat \ {0} /\ cost \in Nat /\ cost < mid
  BY BookAssumption, EconomicsAssumption
<1>2. /\ row.size_usd = u /\ (row.direction = "A" \/ row.direction = "B")
      /\ q \in {Frac(u, mid + cost), Frac(u, mid)}
      /\ leg \in {Int2Frac(u), Frac(u * (mid - cost), mid)}
  BY DEF RowsOf
<1>3. q \in Fracs /\ q.n \in Nat \ {0} /\ q.d \in Nat \ {0}
  BY <1>1, <1>2 DEF Frac, Fracs
<1>4. leg \in Fracs /\ leg.d > 0
  BY <1>1, <1>2 DEF Frac, Int2Frac, Fracs
<1>5. slips \in [Ladder -> [sell: Walks, buy: Walks]] /\ Snapshot
  BY DEF BookInv, BookTypeOK, Walks
<1>6. WalkOf(row) \in Walks /\ slips[u].sell \in Walks /\ slips[u].buy \in Walks
  BY <1>2, <1>5 DEF WalkOf
<1>7. Priced(bids, TRUE, slips[u].sell, u) /\ Priced(asks, FALSE, slips[u].buy, u)
  BY DEF BookInv, TableSoFar
<1> DEFINE s == IF row.direction = "A" THEN bids ELSE asks
<1>8. DepthFor(row) = DepthOf(s)
  BY DEF DepthFor
<1>9. Priced(s, row.direction = "A", WalkOf(row), u) /\ s \in {bids, asks}
  BY <1>2, <1>7 DEF WalkOf
<1>10. DepthFor(row) < u => Slip(row) = Null
  <2> SUFFICES ASSUME DepthFor(row) < u PROVE Slip(row) = Null
    OBVIOUS
  <2>1. WalkOf(row) = Unpriced
    BY <1>8, <1>9 DEF Priced
  <2> QED
    BY <1>2, <2>1 DEF Slip, SellSlip, BuySlip, WalkOf
<1>11. ASSUME ~(DepthFor(row) < u)
       PROVE  /\ V \in Fracs /\ V.n \in Nat \ {0} /\ V.d \in Nat \ {0}
              /\ Slip(row) = IF row.direction = "A" THEN Minus(One, V) ELSE Minus(V, One)
  <2>1. (row.direction = "A") \in BOOLEAN
    OBVIOUS
  <2>2. /\ WalkOf(row) # Unpriced /\ V \in Fracs /\ V.n > 0 /\ V.d > 0
    BY <1>5, <1>6, <1>8, <1>9, <1>11, <2>1, VwapFacts
  <2>3. V.n \in Int /\ V.d \in Int
    BY <2>2 DEF Fracs
  <2>4. Slip(row) = IF row.direction = "A" THEN Minus(One, V) ELSE Minus(V, One)
    BY <1>2, <2>2 DEF Slip, SellSlip, BuySlip, WalkOf
  <2> QED
    BY <2>2, <2>3, <2>4
<1>12. ASSUME ~(DepthFor(row) < u)
       PROVE  /\ V \in Fracs /\ Slip(row) # Null
              /\ CexFactor(row).n = Paid(row, V).n /\ CexFactor(row).d = Paid(row, V).d
              /\ CexFactor(row) \in Fracs /\ CexFactor(row).n > 0 /\ CexFactor(row).d > 0
  <2> HIDE DEF V, q, leg
  <2>1. /\ V \in Fracs /\ V.n \in Nat \ {0} /\ V.d \in Nat \ {0}
        /\ Slip(row) = IF row.direction = "A" THEN Minus(One, V) ELSE Minus(V, One)
    BY <1>11, <1>12
  <2>2. One \in Fracs
    BY DEF One, Int2Frac, Fracs
  <2>3. Slip(row) \in Fracs
    BY <2>1, <2>2, MinusIs
  <2>4. Slip(row) # Null
    BY <2>3, EconomicsAssumption DEF Fracs
  <2>5. CexFactor(row) \in Fracs /\ CexFactor(row).n = Paid(row, V).n /\ CexFactor(row).d = Paid(row, V).d
    BY <1>2, <1>3, <2>1, CexOf DEF q
  <2>6. FeeUnits \in Nat \ {0} /\ FeeUnits - 1 \in Nat \ {0} /\ FeeUnits + 1 \in Nat \ {0}
    BY EconomicsAssumption
  <2>7. q.n * V.n \in Nat \ {0} /\ q.d * V.d \in Nat \ {0}
    BY <1>3, <2>1, Positive
  <2>8. /\ q.n * V.n * (FeeUnits - 1) \in Nat \ {0} /\ q.n * V.n * (FeeUnits + 1) \in Nat \ {0}
        /\ q.d * V.d * FeeUnits \in Nat \ {0}
    BY <2>6, <2>7, Positive
  <2>9. Paid(row, V).n > 0 /\ Paid(row, V).d > 0
    BY <1>2, <2>8 DEF Paid, Fracs, q
  <2> QED
    BY <2>1, <2>4, <2>5, <2>9
<1> QED
  BY <1>2, <1>4, <1>10, <1>12

\* The numerator of a profit, and where a mid stands to the breakeven.
LEMMA ProfitNumerator ==
  ASSUME NEW row, row.direction = "A" \/ row.direction = "B", Slip(row) # Null,
         row.usd_leg \in Fracs, CexFactor(row) \in Fracs, NEW gas \in Int, NEW m \in Int
  PROVE  LET cn == CexFactor(row).n
             cd == CexFactor(row).d
             ln == row.usd_leg.n
             ld == row.usd_leg.d
         IN  /\ NetProfitUsd(row, gas, m).n =
                   IF row.direction = "A" THEN cn * m * ld - ln * cd - gas * cd * ld
                                          ELSE ln * cd - cn * m * ld - gas * cd * ld
             /\ BeyondBreakeven(row, gas, m) <=>
                   IF row.direction = "A" THEN m * (ld * cn) > (ln + gas * ld) * cd
                                          ELSE (ln - gas * ld) * cd > m * (ld * cn)
<1> DEFINE cex == CexFactor(row)
           leg == row.usd_leg
           g == Int2Frac(gas)
           mm == Int2Frac(m)
<1>1. g \in Fracs /\ g.n = gas /\ g.d = 1 /\ mm \in Fracs /\ mm.n = m /\ mm.d = 1
  BY DEF Int2Frac, Fracs
<1>2. cex \in Fracs /\ leg \in Fracs
  OBVIOUS
<1>3. NetProfitUsd(row, gas, m) =
         Minus(IF row.direction = "A" THEN Minus(Times(cex, mm), leg) ELSE Minus(leg, Times(cex, mm)), g)
  BY DEF NetProfitUsd
<1>4. Breakeven(row, gas) = IF row.direction = "A" THEN Over(Plus(leg, g), cex)
                                                  ELSE Over(Minus(leg, g), cex)
  BY DEF Breakeven
<1>5. BeyondBreakeven(row, gas, m) <=>
         IF row.direction = "A" THEN Exceeds(mm, Breakeven(row, gas))
                                ELSE Exceeds(Breakeven(row, gas), mm)
  BY DEF BeyondBreakeven
<1> HIDE DEF cex, leg, g, mm
<1>6. cex.n \in Int /\ cex.d \in Int /\ leg.n \in Int /\ leg.d \in Int
  BY <1>2 DEF Fracs
<1> DEFINE paid == Times(cex, mm)
<1>7. paid \in Fracs /\ paid.n = cex.n * m /\ paid.d = cex.d
  <2>1. paid \in Fracs /\ paid.n = cex.n * mm.n /\ paid.d = cex.d * mm.d
    BY <1>1, <1>2, TimesIs
  <2> QED
    BY <1>1, <1>6, <2>1
<1> HIDE DEF paid
<1>8. /\ Minus(paid, leg) \in Fracs /\ Minus(paid, leg).n = cex.n * m * leg.d - leg.n * cex.d
      /\ Minus(paid, leg).d = cex.d * leg.d
  <2>1. /\ Minus(paid, leg) \in Fracs /\ Minus(paid, leg).n = paid.n * leg.d - leg.n * paid.d
        /\ Minus(paid, leg).d = paid.d * leg.d
    BY <1>2, <1>7, MinusIs
  <2> QED
    BY <1>7, <2>1
<1>9. /\ Minus(leg, paid) \in Fracs /\ Minus(leg, paid).n = leg.n * cex.d - cex.n * m * leg.d
      /\ Minus(leg, paid).d = cex.d * leg.d
  <2>1. /\ Minus(leg, paid) \in Fracs /\ Minus(leg, paid).n = leg.n * paid.d - paid.n * leg.d
        /\ Minus(leg, paid).d = leg.d * paid.d
    BY <1>2, <1>7, MinusIs
  <2>2. leg.d * cex.d = cex.d * leg.d
    BY <1>6
  <2> QED
    BY <1>7, <2>1, <2>2
<1>10. ASSUME NEW x \in Fracs PROVE Minus(x, g).n = x.n - gas * x.d
  <2>1. x.n \in Int /\ x.d \in Int
    BY DEF Fracs
  <2> QED
    <3>1. Minus(x, g).n = x.n * g.d - g.n * x.d
      BY <1>1, MinusIs
    <3>2. x.n * g.d - g.n * x.d = x.n * 1 - gas * x.d
      BY <1>1
    <3>3. x.n * 1 = x.n
      BY <2>1
    <3> QED
      BY <3>1, <3>2, <3>3
<1>11. NetProfitUsd(row, gas, m).n =
          IF row.direction = "A" THEN cex.n * m * leg.d - leg.n * cex.d - gas * cex.d * leg.d
                                 ELSE leg.n * cex.d - cex.n * m * leg.d - gas * cex.d * leg.d
  <2>1. gas * (cex.d * leg.d) = gas * cex.d * leg.d
    BY <1>6
  <2>2. CASE row.direction = "A"
    <3>1. Minus(Minus(paid, leg), g).n = Minus(paid, leg).n - gas * Minus(paid, leg).d
      BY <1>8, <1>10
    <3> QED
      BY <1>3, <1>8, <2>1, <2>2, <3>1 DEF paid
  <2>3. CASE row.direction # "A"
    <3>1. Minus(Minus(leg, paid), g).n = Minus(leg, paid).n - gas * Minus(leg, paid).d
      BY <1>9, <1>10
    <3> QED
      BY <1>3, <1>9, <2>1, <2>3, <3>1 DEF paid
  <2> QED
    BY <2>2, <2>3
<1>12. /\ Plus(leg, g) \in Fracs /\ Plus(leg, g).n = leg.n + gas * leg.d /\ Plus(leg, g).d = leg.d
       /\ Minus(leg, g) \in Fracs /\ Minus(leg, g).n = leg.n - gas * leg.d /\ Minus(leg, g).d = leg.d
  <2>1. /\ Plus(leg, g) \in Fracs /\ Plus(leg, g).n = leg.n * g.d + g.n * leg.d
        /\ Plus(leg, g).d = leg.d * g.d
    BY <1>1, <1>2, PlusIs
  <2>2. /\ Minus(leg, g) \in Fracs /\ Minus(leg, g).n = leg.n * g.d - g.n * leg.d
        /\ Minus(leg, g).d = leg.d * g.d
    BY <1>1, <1>2, MinusIs
  <2>3. leg.n * 1 = leg.n /\ leg.d * 1 = leg.d
    BY <1>6
  <2>4. leg.n * g.d = leg.n /\ leg.d * g.d = leg.d /\ g.n * leg.d = gas * leg.d
    BY <1>1, <2>3
  <2> QED
    BY <2>1, <2>2, <2>4
<1>13. /\ Over(Plus(leg, g), cex).n = (leg.n + gas * leg.d) * cex.d
       /\ Over(Plus(leg, g), cex).d = leg.d * cex.n
       /\ Over(Minus(leg, g), cex).n = (leg.n - gas * leg.d) * cex.d
       /\ Over(Minus(leg, g), cex).d = leg.d * cex.n
  <2>1. /\ Over(Plus(leg, g), cex).n = Plus(leg, g).n * cex.d
        /\ Over(Plus(leg, g), cex).d = Plus(leg, g).d * cex.n
    BY <1>2, <1>12, OverIs
  <2>2. /\ Over(Minus(leg, g), cex).n = Minus(leg, g).n * cex.d
        /\ Over(Minus(leg, g), cex).d = Minus(leg, g).d * cex.n
    BY <1>2, <1>12, OverIs
  <2> QED
    BY <1>12, <2>1, <2>2
<1>14. BeyondBreakeven(row, gas, m) <=>
          IF row.direction = "A" THEN m * (leg.d * cex.n) > (leg.n + gas * leg.d) * cex.d
                                 ELSE (leg.n - gas * leg.d) * cex.d > m * (leg.d * cex.n)
  <2>1. (leg.n + gas * leg.d) * cex.d \in Int /\ (leg.n - gas * leg.d) * cex.d \in Int
    BY <1>6
  <2>2. /\ (leg.n + gas * leg.d) * cex.d * 1 = (leg.n + gas * leg.d) * cex.d
        /\ (leg.n - gas * leg.d) * cex.d * 1 = (leg.n - gas * leg.d) * cex.d
    BY <2>1
  <2>3. CASE row.direction = "A"
    BY <1>1, <1>4, <1>5, <1>13, <2>2, <2>3 DEF Exceeds
  <2>4. CASE row.direction # "A"
    BY <1>1, <1>4, <1>5, <1>13, <2>2, <2>4 DEF Exceeds
  <2> QED
    BY <2>3, <2>4
<1> QED
  BY <1>11, <1>14 DEF cex, leg

\* The comparison of find_windows is the profit formula, whatever the numbers are.
LEMMA ComparisonIsProfit ==
  ASSUME NEW row, row.direction = "A" \/ row.direction = "B", Slip(row) # Null,
         row.usd_leg \in Fracs, CexFactor(row) \in Fracs, NEW gas \in Int, NEW m \in Int
  PROVE  Profitable(row, gas, m) <=> BeyondBreakeven(row, gas, m)
<1> DEFINE cn == CexFactor(row).n
           cd == CexFactor(row).d
           ln == row.usd_leg.n
           ld == row.usd_leg.d
<1>1. cn \in Int /\ cd \in Int /\ ln \in Int /\ ld \in Int
  BY DEF Fracs
<1>2. /\ NetProfitUsd(row, gas, m).n =
             IF row.direction = "A" THEN cn * m * ld - ln * cd - gas * cd * ld
                                    ELSE ln * cd - cn * m * ld - gas * cd * ld
      /\ BeyondBreakeven(row, gas, m) <=>
             IF row.direction = "A" THEN m * (ld * cn) > (ln + gas * ld) * cd
                                    ELSE (ln - gas * ld) * cd > m * (ld * cn)
  BY ProfitNumerator
<1> HIDE DEF cn, cd, ln, ld
<1>3. cn * m * ld - ln * cd - gas * cd * ld > 0 <=> m * (ld * cn) > (ln + gas * ld) * cd
  BY <1>1
<1>4. ln * cd - cn * m * ld - gas * cd * ld > 0 <=> (ln - gas * ld) * cd > m * (ld * cn)
  BY <1>1
<1> QED
  BY <1>2, <1>3, <1>4 DEF Profitable

\* A factor of both sides of a comparison.
LEMMA Cancel ==
  ASSUME NEW k \in Nat \ {0}, NEW a \in Int, NEW b \in Int, k * a > k * b
  PROVE  a > b
<1> SUFFICES ASSUME a <= b PROVE FALSE
  OBVIOUS
<1>1. b - a \in Nat
  OBVIOUS
<1>2. k * (b - a) \in Nat /\ k * (b - a) = k * b - k * a
  BY <1>1
<1> QED
  BY <1>2

\* A profit of A needs the price the bids pay above what the pool takes; one of B
\* needs the price the asks cost below what the pool gives.
LEMMA ProfitSides ==
  ASSUME BookInv, Complete, NEW mid \in PoolMids, NEW cost \in PoolCosts, NEW u \in Ladder,
         NEW row \in RowsOf(mid, cost, u), NEW gas \in Gas, NEW m \in BybitMids,
         Slip(row) # Null, Profitable(row, gas, m)
  PROVE  LET V == VwapOverMid(WalkOf(row))
         IN  IF row.direction = "A" THEN V.n * m > (mid + cost) * V.d
                                    ELSE (mid - cost) * V.d > V.n * m
<1> DEFINE V == VwapOverMid(WalkOf(row))
           F == FeeUnits
           p == V.n
           r == V.d
<1>1. /\ u \in Nat \ {0} /\ mid \in Nat \ {0} /\ cost \in Nat /\ cost < mid /\ m \in Nat /\ gas \in Nat
      /\ F \in Nat \ {0, 1}
  BY BookAssumption, EconomicsAssumption
<1>2. ~(DepthFor(row) < u)
  BY RowFacts
<1>3. /\ row.direction = "A" \/ row.direction = "B"
      /\ row.usd_leg \in Fracs /\ V \in Fracs
      /\ CexFactor(row) \in Fracs
      /\ CexFactor(row).n = Paid(row, V).n /\ CexFactor(row).d = Paid(row, V).d
  BY <1>2, RowFacts
<1>4. p \in Nat \ {0} /\ r \in Nat \ {0}
  <2>1. slips \in [Ladder -> [sell: Walks, buy: Walks]] /\ Snapshot
    BY DEF BookInv, BookTypeOK, Walks
  <2>2. Priced(bids, TRUE, slips[u].sell, u) /\ Priced(asks, FALSE, slips[u].buy, u)
    BY DEF BookInv, TableSoFar
  <2>3. row.size_usd = u /\ (row.direction = "A" \/ row.direction = "B")
    BY RowFacts
  <2>4. CASE row.direction = "A"
    <3>1. ~(DepthOf(bids) < u) /\ WalkOf(row) = slips[u].sell /\ slips[u].sell \in Walks
      BY <1>2, <2>1, <2>3, <2>4 DEF DepthFor, WalkOf
    <3>2. V \in Fracs /\ p > 0 /\ r > 0
      BY <2>1, <2>2, <3>1, VwapFacts
    <3> QED
      BY <3>2 DEF Fracs
  <2>5. CASE row.direction = "B"
    <3>1. ~(DepthOf(asks) < u) /\ WalkOf(row) = slips[u].buy /\ slips[u].buy \in Walks
      BY <1>2, <2>1, <2>3, <2>5 DEF DepthFor, WalkOf
    <3>2. V \in Fracs /\ p > 0 /\ r > 0
      BY <2>1, <2>2, <3>1, VwapFacts
    <3> QED
      BY <3>2 DEF Fracs
  <2> QED
    BY <2>3, <2>4, <2>5
<1> DEFINE cn == CexFactor(row).n
           cd == CexFactor(row).d
           ln == row.usd_leg.n
           ld == row.usd_leg.d
<1>5. /\ NetProfitUsd(row, gas, m).n =
             IF row.direction = "A" THEN cn * m * ld - ln * cd - gas * cd * ld
                                    ELSE ln * cd - cn * m * ld - gas * cd * ld
      /\ NetProfitUsd(row, gas, m).n > 0
  BY <1>1, <1>3, ProfitNumerator DEF Profitable
<1> HIDE DEF V, p, r
<1>6. CASE row.direction = "A"
  <2>1. row.usd_leg = Int2Frac(u) /\ row.qty_mnt = Frac(u, mid + cost)
    BY <1>6 DEF RowsOf
  <2>2. ln = u /\ ld = 1 /\ cn = u * p * (F - 1) /\ cd = (mid + cost) * r * F
    BY <1>3, <1>6, <2>1 DEF Int2Frac, Frac, Paid, p, r
  <2> HIDE DEF cn, cd, ln, ld
  <2>3. /\ cd \in Nat /\ gas * cd \in Nat /\ cn * m \in Int /\ u * cd \in Int
    BY <1>1, <1>4, <2>2
  <2>4. cn * m > u * cd
    <3>1. cn * m * 1 - u * cd - gas * cd * 1 > 0
      BY <1>5, <1>6, <2>2
    <3> QED
      BY <2>3, <3>1
  <2>5. u * (p * (F - 1) * m) > u * ((mid + cost) * r * F)
    BY <1>1, <1>4, <2>2, <2>4
  <2>6. p * (F - 1) * m \in Int /\ (mid + cost) * r * F \in Int
    BY <1>1, <1>4
  <2>7. p * (F - 1) * m > (mid + cost) * r * F
    BY <1>1, <2>5, <2>6, Cancel
  <2>8. (mid + cost) * r * F = F * ((mid + cost) * r) /\ p * (F - 1) * m = F * (p * m) - p * m
    BY <1>1, <1>4
  <2>9. p * m \in Nat /\ (mid + cost) * r \in Nat
    BY <1>1, <1>4
  <2>10. F * (p * m) \in Int /\ F * ((mid + cost) * r) \in Int
    BY <1>1, <2>9
  <2>11. F * (p * m) > F * ((mid + cost) * r)
    BY <2>7, <2>8, <2>9, <2>10
  <2>12. p * m > (mid + cost) * r
    BY <1>1, <2>9, <2>11, Cancel
  <2> QED
    BY <1>6, <2>12 DEF p, r, V
<1>7. CASE row.direction = "B"
  <2>1. row.usd_leg = Frac(u * (mid - cost), mid) /\ row.qty_mnt = Frac(u, mid)
    BY <1>7 DEF RowsOf
  <2>2. ln = u * (mid - cost) /\ ld = mid /\ cn = u * p * (F + 1) /\ cd = mid * r * F
    BY <1>3, <1>7, <2>1 DEF Int2Frac, Frac, Paid, p, r
  <2> HIDE DEF cn, cd, ln, ld
  <2>3. /\ cd \in Nat /\ gas * cd * mid \in Nat /\ cn * m * mid \in Int /\ u * (mid - cost) * cd \in Int
    <3>1. mid - cost \in Nat /\ r * F \in Nat /\ p * (F + 1) \in Nat
      BY <1>1, <1>4
    <3>2. cd \in Nat /\ cn \in Nat
      BY <1>1, <1>4, <2>2
    <3>3. gas * cd \in Nat /\ cn * m \in Nat /\ u * (mid - cost) \in Nat
      BY <1>1, <3>1, <3>2
    <3> QED
      BY <1>1, <3>2, <3>3
  <2>4. u * (mid - cost) * cd > cn * m * mid
    <3>1. u * (mid - cost) * cd - cn * m * mid - gas * cd * mid > 0
      BY <1>5, <1>7, <2>2
    <3> QED
      BY <2>3, <3>1
  <2>5. (u * mid) * ((mid - cost) * (r * F)) > (u * mid) * (p * (F + 1) * m)
    <3>1. u * (mid - cost) * cd = (u * mid) * ((mid - cost) * (r * F))
      BY <1>1, <1>4, <2>2
    <3>2. cn * m * mid = (u * mid) * (p * (F + 1) * m)
      BY <1>1, <1>4, <2>2
    <3> QED
      BY <2>4, <3>1, <3>2
  <2>6. u * mid \in Nat \ {0} /\ (mid - cost) * (r * F) \in Int /\ p * (F + 1) * m \in Int
    BY <1>1, <1>4, Positive
  <2>7. (mid - cost) * (r * F) > p * (F + 1) * m
    BY <2>5, <2>6, Cancel
  <2>8. (mid - cost) * (r * F) = F * ((mid - cost) * r) /\ p * (F + 1) * m = F * (p * m) + p * m
    BY <1>1, <1>4
  <2>9. p * m \in Nat /\ (mid - cost) * r \in Nat
    BY <1>1, <1>4
  <2>10. F * (p * m) \in Int /\ F * ((mid - cost) * r) \in Int
    BY <1>1, <2>9
  <2>11. F * ((mid - cost) * r) > F * (p * m)
    BY <2>7, <2>8, <2>9, <2>10
  <2>12. (mid - cost) * r > p * m
    BY <1>1, <2>9, <2>11, Cancel
  <2> QED
    BY <1>7, <2>12 DEF p, r, V
<1> QED
  BY <1>3, <1>6, <1>7

\* Selling the bids never brings more for one MNT than buying the asks costs,
\* whatever the two sizes are.
LEMMA VwapsApart ==
  ASSUME BookInv, Complete, NEW u \in Ladder, NEW v \in Ladder,
         ~(DepthOf(bids) < u), ~(DepthOf(asks) < v)
  PROVE  LET sold   == VwapOverMid(slips[u].sell)
             bought == VwapOverMid(slips[v].buy)
         IN  /\ sold.n \in Nat /\ sold.d \in Nat \ {0} /\ bought.n \in Nat /\ bought.d \in Nat \ {0}
             /\ sold.n * bought.d <= bought.n * sold.d
<1> DEFINE mid2 == bids[1].px + asks[1].px
           s == slips[u].sell
           b == slips[v].buy
<1>1. /\ slips \in [Ladder -> [sell: Walks, buy: Walks]] /\ Snapshot
      /\ Priced(bids, TRUE, s, u) /\ Priced(asks, FALSE, b, v)
  BY DEF BookInv, BookTypeOK, Walks, TableSoFar
<1>2. s \in Walks /\ b \in Walks
  BY <1>1
<1>3. /\ s.spent \in Nat \ {0} /\ s.qty \in Nat \ {0} /\ mid2 \in Nat \ {0}
      /\ VwapOverMid(s).n = s.spent * Unit * 2 /\ VwapOverMid(s).d = s.qty * mid2
  BY <1>1, <1>2, VwapFacts
<1>4. /\ b.spent \in Nat \ {0} /\ b.qty \in Nat \ {0}
      /\ VwapOverMid(b).n = b.spent * Unit * 2 /\ VwapOverMid(b).d = b.qty * mid2
  BY <1>1, <1>2, VwapFacts
<1>5. /\ s.spent * Unit <= bids[1].px * s.qty /\ asks[1].px * b.qty <= b.spent * Unit
  BY <1>1 DEF Priced
<1>6. bids[1].px \in Nat /\ asks[1].px \in Nat /\ bids[1].px < asks[1].px /\ Unit \in Nat
  <2>1. SideOK(bids, TRUE) /\ SideOK(asks, FALSE) /\ bids[1].px < asks[1].px
    BY <1>1 DEF Snapshot
  <2>2. Len(bids) \in Nat \ {0} /\ \A j \in 1..Len(bids) : bids[j].px \in Nat \ {0}
    BY <2>1, SideFacts
  <2>3. Len(asks) \in Nat \ {0} /\ \A j \in 1..Len(asks) : asks[j].px \in Nat \ {0}
    BY <2>1, SideFacts
  <2> QED
    BY <2>1, <2>2, <2>3, BookAssumption
<1> DEFINE x == s.spent
           y == b.spent
           p == s.qty
           q == b.qty
           bid == bids[1].px
           ask == asks[1].px
<1>7. /\ x \in Nat /\ y \in Nat /\ p \in Nat \ {0} /\ q \in Nat \ {0} /\ mid2 \in Nat \ {0}
      /\ bid \in Nat /\ ask \in Nat /\ bid < ask /\ Unit \in Nat
      /\ x * Unit <= bid * p /\ ask * q <= y * Unit
  BY <1>3, <1>4, <1>5, <1>6
<1> HIDE DEF x, y, p, q, bid, ask, mid2
<1> DEFINE xu == x * Unit
           yu == y * Unit
<1>8. xu \in Nat /\ yu \in Nat /\ xu <= bid * p /\ ask * q <= yu
  BY <1>7
<1> HIDE DEF xu, yu
<1>9. ASSUME NEW k \in Nat, NEW e \in Nat, NEW f \in Nat, e <= f PROVE k * e <= k * f
  <2>1. f - e \in Nat
    BY <1>9
  <2>2. k * (f - e) \in Nat /\ k * (f - e) = k * f - k * e /\ k * f \in Nat /\ k * e \in Nat
    BY <2>1
  <2> QED
    BY <2>2
<1>10. q * xu <= p * yu
  <2>1. q * xu <= q * (bid * p) /\ p * (ask * q) <= p * yu
    <3>1. bid * p \in Nat /\ ask * q \in Nat
      BY <1>7
    <3> QED
      BY <1>7, <1>8, <1>9, <3>1
  <2>2. q * (bid * p) = (p * q) * bid /\ p * (ask * q) = (p * q) * ask
    BY <1>7
  <2>3. (p * q) * bid <= (p * q) * ask
    <3>1. p * q \in Nat /\ bid <= ask
      BY <1>7
    <3> QED
      BY <1>7, <1>9, <3>1
  <2>4. /\ q * xu \in Nat /\ p * yu \in Nat /\ (p * q) * bid \in Nat /\ (p * q) * ask \in Nat
    BY <1>7, <1>8
  <2> QED
    BY <2>1, <2>2, <2>3, <2>4
<1>11. (xu * 2) * (q * mid2) <= (yu * 2) * (p * mid2)
  <2>1. (2 * mid2) * (q * xu) <= (2 * mid2) * (p * yu)
    <3>1. 2 * mid2 \in Nat /\ q * xu \in Nat /\ p * yu \in Nat
      BY <1>7, <1>8
    <3> QED
      BY <1>9, <1>10, <3>1
  <2>2. /\ (2 * mid2) * (q * xu) = (xu * 2) * (q * mid2)
        /\ (2 * mid2) * (p * yu) = (yu * 2) * (p * mid2)
    BY <1>7, <1>8
  <2> QED
    BY <2>1, <2>2
<1>12. xu * 2 \in Nat /\ yu * 2 \in Nat /\ p * mid2 \in Nat \ {0} /\ q * mid2 \in Nat \ {0}
  BY <1>7, <1>8, Positive
<1>13. /\ VwapOverMid(s).n = xu * 2 /\ VwapOverMid(s).d = p * mid2
       /\ VwapOverMid(b).n = yu * 2 /\ VwapOverMid(b).d = q * mid2
  BY <1>3, <1>4 DEF x, y, p, q, xu, yu
<1> QED
  BY <1>11, <1>12, <1>13

\* "profit(t) > 0 <=> mid(t) > breakeven_mid ... Direction B inverts the inequality":
\* M5's comparison with the breakeven says of every print what M4's profit formula
\* says; and a size the book cannot absorb has neither.
THEOREM BreakevenDecides == BookSpec => []BreakevenExact
<1>1. BookInv => BreakevenExact
  <2> SUFFICES ASSUME BookInv, Complete, NEW row \in QuotedRows, NEW gas \in Gas
               PROVE  IF DepthFor(row) < row.size_usd
                      THEN Breakeven(row, gas) = Null /\ \A m \in BybitMids : NetProfitUsd(row, gas, m) = Null
                      ELSE \A m \in BybitMids : Profitable(row, gas, m) <=> BeyondBreakeven(row, gas, m)
    BY DEF BreakevenExact
  <2>1. PICK mid \in PoolMids, cost \in PoolCosts, u \in Ladder : row \in RowsOf(mid, cost, u)
    BY DEF QuotedRows
  <2>2. row.size_usd = u
    BY <2>1, RowFacts
  <2>3. CASE DepthFor(row) < u
    <3>1. Slip(row) = Null
      BY <2>1, <2>3, RowFacts
    <3> QED
      BY <2>2, <2>3, <3>1 DEF Breakeven, NetProfitUsd
  <2>4. CASE ~(DepthFor(row) < u)
    <3> SUFFICES ASSUME NEW m \in BybitMids
                 PROVE  Profitable(row, gas, m) <=> BeyondBreakeven(row, gas, m)
      BY <2>2, <2>4
    <3>1. gas \in Int /\ m \in Int
      BY EconomicsAssumption
    <3>2. /\ row.direction = "A" \/ row.direction = "B"
          /\ row.usd_leg \in Fracs /\ Slip(row) # Null /\ CexFactor(row) \in Fracs
      BY <2>1, <2>4, RowFacts
    <3> QED
      BY <3>1, <3>2, ComparisonIsProfit
  <2> QED
    BY <2>3, <2>4
<1> QED
  BY <1>1, BookInvariance, PTL

\* At one moment the directions A and B pay together, in whatever sizes, only while
\* the two pools have drifted apart by more than both charge: never in one pool.
THEOREM OneDirectionPays == BookSpec => []NeverBothWays
<1>1. BookInv => NeverBothWays
  <2> SUFFICES ASSUME BookInv, Complete, NEW m \in BybitMids,
                      NEW a \in PayingRows(m), NEW b \in PayingRows(m),
                      a.direction = "A", b.direction = "B"
               PROVE  Exceeds(PoolPrice(b), PoolPrice(a))
    BY DEF NeverBothWays
  <2>1. PICK mid \in PoolMids, cost \in PoolCosts, u \in Ladder : a \in RowsOf(mid, cost, u)
    BY DEF PayingRows, QuotedRows
  <2>2. PICK mid2 \in PoolMids, cost2 \in PoolCosts, v \in Ladder : b \in RowsOf(mid2, cost2, v)
    BY DEF PayingRows, QuotedRows
  <2>3. PICK gas \in Gas : Slip(a) # Null /\ Profitable(a, gas, m)
    BY DEF PayingRows
  <2>4. PICK gas2 \in Gas : Slip(b) # Null /\ Profitable(b, gas2, m)
    BY DEF PayingRows
  <2> DEFINE sold == VwapOverMid(slips[u].sell)
             bought == VwapOverMid(slips[v].buy)
             P == mid + cost
             Q == mid2 - cost2
  <2>5. a.size_usd = u /\ b.size_usd = v
    BY <2>1, <2>2, RowFacts
  <2>6. WalkOf(a) = slips[u].sell /\ WalkOf(b) = slips[v].buy
    BY <2>5 DEF WalkOf
  <2>7. ~(DepthOf(bids) < u) /\ ~(DepthOf(asks) < v)
    <3>1. ~(DepthFor(a) < u)
      BY <2>1, <2>3, RowFacts
    <3>2. ~(DepthFor(b) < v)
      BY <2>2, <2>4, RowFacts
    <3> QED
      BY <3>1, <3>2 DEF DepthFor
  <2>8. sold.n * m > P * sold.d
    BY <2>1, <2>3, <2>6, ProfitSides
  <2>9. Q * bought.d > bought.n * m
    <3>1. b.direction # "A"
      OBVIOUS
    <3> QED
      BY <2>2, <2>4, <2>6, <3>1, ProfitSides
  <2>10. /\ sold.n \in Nat /\ sold.d \in Nat \ {0} /\ bought.n \in Nat /\ bought.d \in Nat \ {0}
         /\ sold.n * bought.d <= bought.n * sold.d
    BY <2>7, VwapsApart
  <2>11. /\ mid \in Nat /\ cost \in Nat /\ mid2 \in Nat \ {0} /\ cost2 \in Nat /\ cost2 < mid2
         /\ m \in Nat /\ u \in Nat \ {0} /\ v \in Nat \ {0}
    BY BookAssumption, EconomicsAssumption
  <2>12. P \in Nat /\ Q \in Nat
    BY <2>11
  <2>13. PoolPrice(a) = Frac(u * P, 1 * u) /\ PoolPrice(b) = Frac(v * Q * mid2, mid2 * v)
    <3>1. a.usd_leg = Int2Frac(u) /\ a.qty_mnt = Frac(u, P)
      BY <2>1 DEF RowsOf
    <3>2. b.usd_leg = Frac(v * Q, mid2) /\ b.qty_mnt = Frac(v, mid2)
      BY <2>2 DEF RowsOf
    <3> QED
      BY <3>1, <3>2 DEF PoolPrice, Over, Int2Frac, Frac
  <2> DEFINE w == sold.n
             x == sold.d
             y == bought.n
             z == bought.d
  <2>14. /\ w \in Nat /\ x \in Nat \ {0} /\ y \in Nat /\ z \in Nat \ {0} /\ w * z <= y * x
         /\ w * m > P * x /\ Q * z > y * m
    BY <2>8, <2>9, <2>10
  <2> HIDE DEF w, x, y, z, sold, bought, P, Q
  <2>15. ASSUME NEW k \in Nat \ {0}, NEW e \in Nat, NEW f \in Nat, e > f PROVE k * e > k * f
    <3>1. e - f \in Nat \ {0}
      BY <2>15
    <3>2. k * (e - f) \in Nat \ {0} /\ k * (e - f) = k * e - k * f /\ k * e \in Nat /\ k * f \in Nat
      BY <3>1, Positive
    <3> QED
      BY <3>2
  <2>16. z * (w * m) > z * (P * x) /\ x * (Q * z) > x * (y * m)
    <3>1. w * m \in Nat /\ P * x \in Nat /\ Q * z \in Nat /\ y * m \in Nat
      BY <2>11, <2>12, <2>14
    <3> QED
      BY <2>14, <2>15, <3>1
  <2>17. m * (w * z) <= m * (y * x)
    <3>1. w * z \in Nat /\ y * x \in Nat /\ y * x - w * z \in Nat
      BY <2>14
    <3>2. m * (y * x - w * z) \in Nat /\ m * (y * x - w * z) = m * (y * x) - m * (w * z)
      BY <2>11, <3>1
    <3>3. m * (y * x) \in Nat /\ m * (w * z) \in Nat
      BY <2>11, <3>1
    <3> QED
      BY <3>2, <3>3
  <2>18. Q > P
    <3>1. /\ z * (w * m) = m * (w * z) /\ x * (y * m) = m * (y * x)
          /\ z * (P * x) = (x * z) * P /\ x * (Q * z) = (x * z) * Q
      BY <2>11, <2>12, <2>14
    <3>2. x * z \in Nat \ {0}
      BY <2>14, Positive
    <3>3. (x * z) * P \in Nat /\ (x * z) * Q \in Nat
      BY <2>12, <3>2
    <3>4. m * (w * z) \in Nat /\ m * (y * x) \in Nat
      BY <2>11, <2>14
    <3>5. (x * z) * Q > (x * z) * P
      BY <2>16, <2>17, <3>1, <3>3, <3>4
    <3> QED
      BY <2>12, <3>2, <3>5, Cancel
  <2>19. (v * Q * mid2) * (1 * u) > (u * P) * (mid2 * v)
    <3>1. u * mid2 \in Nat \ {0}
      BY <2>11, Positive
    <3>2. (u * mid2) * v \in Nat \ {0}
      BY <2>11, <3>1, Positive
    <3>3. ((u * mid2) * v) * Q > ((u * mid2) * v) * P
      BY <2>12, <2>15, <2>18, <3>2
    <3>4. /\ ((u * mid2) * v) * Q = (v * Q * mid2) * (1 * u)
          /\ ((u * mid2) * v) * P = (u * P) * (mid2 * v)
      BY <2>11, <2>12
    <3> QED
      BY <3>3, <3>4
  <2> QED
    BY <2>13, <2>19 DEF Exceeds, Frac
<1> QED
  BY <1>1, BookInvariance, PTL

-----------------------------------------------------------------------------
(* The month of ProfitWindows: both tables are sorted by time. *)

Priceable == {b.breakeven : b \in Blocks}
PrintRows == [ts: 1..now, mid: Mids, tie: [Combos -> [Orders -> Int]]]
ChangeRows == [ts: 1..now, swap: {"A", "B", "none"}, breakeven: Priceable]

\* The inductive invariant: every row lies in the past, prints in order, changes in
\* strict order.
Month ==
    /\ now \in 1..LastMs
    /\ tape \in Seq(PrintRows)
    /\ \A i, j \in 1..Len(tape) : i <= j => tape[i].ts <= tape[j].ts
    /\ changes \in Seq(ChangeRows)
    /\ \A i, j \in 1..Len(changes) : i < j => changes[i].ts < changes[j].ts

\* What the invariant says of a row, ready to cite.
LEMMA MonthTypes ==
  ASSUME Month
  PROVE  /\ now \in Nat
         /\ Len(tape) \in Nat /\ Prints = 1..Len(tape)
         /\ \A i \in Prints : tape[i].ts \in 1..now /\ tape[i].ts \in Nat /\ tape[i].mid \in Mids
         /\ \A i \in Prints, c \in Combos, o \in Orders : tape[i].tie[c][o] \in Int
         /\ Len(changes) \in Nat /\ DOMAIN changes = 1..Len(changes)
         /\ \A b \in DOMAIN changes : /\ changes[b].ts \in 1..now /\ changes[b].ts \in Nat
                                      /\ changes[b].swap \in {"A", "B", "none"}
                                      /\ changes[b].breakeven \in Priceable
<1>1. /\ now \in Nat /\ Len(tape) \in Nat /\ Prints = 1..Len(tape)
      /\ Len(changes) \in Nat /\ DOMAIN changes = 1..Len(changes)
  BY WindowsAssumption DEF Month, Prints
<1>2. (\A i \in Prints : tape[i] \in PrintRows) /\ \A b \in DOMAIN changes : changes[b] \in ChangeRows
  BY <1>1 DEF Month
<1> QED
  BY <1>1, <1>2 DEF PrintRows, ChangeRows

\* The month begins with two empty tables.
LEMMA MonthStarts == Init => Month
  BY WindowsAssumption DEF Init, Month

\* A print is appended at the present.
LEMMA PrintKeeps == Month /\ BybitPrint => Month'
<1> SUFFICES ASSUME Month, BybitPrint PROVE Month'
  OBVIOUS
<1>1. PICK m \in Mids, tie \in Places : tape' = Append(tape, [ts |-> now, mid |-> m, tie |-> tie])
  BY DEF BybitPrint
<1>2. now' = now /\ changes' = changes
  BY DEF BybitPrint
<1>3. now \in Nat \ {0} /\ now \in 1..now /\ tape \in Seq(PrintRows)
  BY WindowsAssumption DEF Month
<1> DEFINE row == [ts |-> now, mid |-> m, tie |-> tie]
<1>4. row \in PrintRows
  <2>1. tie \in [Combos -> [Orders -> Int]]
    BY WindowsAssumption DEF Places, Alone
  <2> QED
    BY <1>3, <2>1 DEF PrintRows
<1> HIDE DEF row
<1>5. tape' \in Seq(PrintRows)
  BY <1>1, <1>3, <1>4 DEF row
<1>6. PrintRows' = PrintRows /\ ChangeRows' = ChangeRows
  BY <1>2 DEF PrintRows, ChangeRows
<1>7. /\ Len(tape') = Len(tape) + 1 /\ Len(tape) \in Nat
      /\ \A i \in 1..Len(tape) : tape'[i] = tape[i] /\ tape[i] \in PrintRows
      /\ tape'[Len(tape) + 1] = row
  BY <1>1, <1>3, <1>4 DEF row
<1>8. \A i \in 1..Len(tape) : tape[i].ts \in Nat /\ tape[i].ts <= now
  BY <1>3, <1>7 DEF PrintRows
<1>9. row.ts = now
  BY DEF row
<1>10. \A i, j \in 1..Len(tape') : i <= j => tape'[i].ts <= tape'[j].ts
  <2> SUFFICES ASSUME NEW i \in 1..Len(tape'), NEW j \in 1..Len(tape'), i <= j
               PROVE  tape'[i].ts <= tape'[j].ts
    OBVIOUS
  <2>1. CASE j \in 1..Len(tape)
    <3>1. i \in 1..Len(tape)
      BY <1>7, <2>1
    <3> QED
      BY <1>7, <2>1, <3>1 DEF Month
  <2>2. CASE j = Len(tape) + 1 /\ i \in 1..Len(tape)
    BY <1>7, <1>8, <1>9, <2>2
  <2>3. CASE j = Len(tape) + 1 /\ i = Len(tape) + 1
    BY <1>3, <1>7, <1>9, <2>3
  <2> QED
    BY <1>7, <2>1, <2>2, <2>3
<1> QED
  BY <1>2, <1>5, <1>6, <1>10 DEF Month

\* A state change is appended in a millisecond of its own.
LEMMA ChangeKeeps == Month /\ StateChange => Month'
<1> SUFFICES ASSUME Month, StateChange PROVE Month'
  OBVIOUS
<1>1. PICK b \in Blocks :
         changes' = Append(changes, [ts |-> now, swap |-> b.swap, breakeven |-> b.breakeven])
  BY DEF StateChange
<1>2. now' = now /\ tape' = tape
  BY DEF StateChange
<1>3. now \in Nat \ {0} /\ now \in 1..now /\ changes \in Seq(ChangeRows)
  BY WindowsAssumption DEF Month
<1> DEFINE row == [ts |-> now, swap |-> b.swap, breakeven |-> b.breakeven]
<1>4. row \in ChangeRows
  BY <1>3, WindowsAssumption DEF ChangeRows, Priceable
<1> HIDE DEF row
<1>5. changes' \in Seq(ChangeRows)
  BY <1>1, <1>3, <1>4 DEF row
<1>6. PrintRows' = PrintRows /\ ChangeRows' = ChangeRows
  BY <1>2 DEF PrintRows, ChangeRows
<1>7. /\ Len(changes') = Len(changes) + 1 /\ Len(changes) \in Nat
      /\ \A i \in 1..Len(changes) : changes'[i] = changes[i] /\ changes[i] \in ChangeRows
      /\ changes'[Len(changes) + 1] = row
  BY <1>1, <1>3, <1>4 DEF row
<1>8. \A i \in 1..Len(changes) : changes[i].ts \in Nat /\ changes[i].ts < now
  <2> SUFFICES ASSUME NEW i \in 1..Len(changes) PROVE changes[i].ts \in Nat /\ changes[i].ts < now
    OBVIOUS
  <2>1. changes # <<>> /\ Len(changes) \in 1..Len(changes)
    BY <1>3, <1>7
  <2>2. Last(changes) = changes[Len(changes)]
    BY DEF Last
  <2>3. changes[Len(changes)].ts < now
    BY <2>1, <2>2 DEF StateChange
  <2>4. changes[i].ts \in Nat /\ changes[Len(changes)].ts \in Nat
    BY <1>7, <2>1 DEF ChangeRows
  <2>5. i = Len(changes) \/ changes[i].ts < changes[Len(changes)].ts
    BY <1>7, <2>1 DEF Month
  <2> QED
    BY <1>3, <2>3, <2>4, <2>5
<1>9. row.ts = now
  BY DEF row
<1>10. \A i, j \in 1..Len(changes') : i < j => changes'[i].ts < changes'[j].ts
  <2> SUFFICES ASSUME NEW i \in 1..Len(changes'), NEW j \in 1..Len(changes'), i < j
               PROVE  changes'[i].ts < changes'[j].ts
    OBVIOUS
  <2>1. i \in 1..Len(changes)
    BY <1>7
  <2>2. CASE j \in 1..Len(changes)
    BY <1>7, <2>1, <2>2 DEF Month
  <2>3. CASE j = Len(changes) + 1
    BY <1>7, <1>8, <1>9, <2>1, <2>3
  <2> QED
    BY <1>7, <2>2, <2>3
<1> QED
  BY <1>2, <1>5, <1>6, <1>10 DEF Month

\* Time passes, and what was written stays in the past.
LEMMA TickKeeps == Month /\ Tick => Month'
<1> SUFFICES ASSUME Month, Tick PROVE Month'
  OBVIOUS
<1>1. now' = now + 1 /\ now < LastMs /\ tape' = tape /\ changes' = changes /\ now \in Nat /\ LastMs \in Nat
  BY WindowsAssumption DEF Tick, Month
<1>2. \A t \in 1..now : t \in 1..now'
  BY <1>1
<1>3. PrintRows \subseteq PrintRows' /\ ChangeRows \subseteq ChangeRows'
  BY <1>2 DEF PrintRows, ChangeRows
<1>4. tape' \in Seq(PrintRows') /\ changes' \in Seq(ChangeRows')
  BY <1>1, <1>3 DEF Month
<1>5. now' \in 1..LastMs
  BY <1>1 DEF Month
<1> QED
  BY <1>1, <1>4, <1>5 DEF Month

\* The inductive invariant of the month.
LEMMA MonthInvariance == Spec => []Month
<1>1. Month /\ UNCHANGED vars => Month'
  BY DEF vars, Month, PrintRows, ChangeRows
<1>2. Month /\ [Next]_vars => Month'
  BY <1>1, PrintKeeps, ChangeKeeps, TickKeeps DEF Next
<1> QED
  BY MonthStarts, <1>2, PTL DEF Spec

\* A bounded set of numbers that is not empty has a greatest one.
LEMMA MaxGreatest ==
  ASSUME NEW S \in SUBSET Nat, S # {}, NEW N \in Nat, \A y \in S : y <= N
  PROVE  Max(S) \in S /\ \A y \in S : y <= Max(S)
<1> DEFINE D == {d \in Nat : \E y \in S : d = N - y}
<1>1. D \in SUBSET Nat /\ D # {}
  <2>1. PICK y \in S : TRUE
    OBVIOUS
  <2>2. N - y \in Nat
    BY <2>1
  <2> QED
    BY <2>2
<1>2. Min(D) \in D /\ \A d \in D : Min(D) <= d
  <2> HIDE DEF D
  <2> QED
    BY <1>1, MinLeast
<1>3. PICK x \in S : Min(D) = N - x
  BY <1>2
<1>4. \A y \in S : x >= y
  <2> TAKE y \in S
  <2>1. N - y \in D
    OBVIOUS
  <2>2. N - x <= N - y
    BY <1>2, <1>3, <2>1
  <2> QED
    BY <2>2
<1>5. \E z \in S : \A y \in S : z >= y
  BY <1>4
<1>6. Max(S) \in S /\ \A y \in S : Max(S) >= y
  BY <1>5 DEF Max
<1>7. Max(S) \in Nat /\ S \subseteq Nat
  BY <1>6
<1> QED
  BY <1>6, <1>7

-----------------------------------------------------------------------------
\* Prints, and the block each of them falls into.
LEMMA Falls ==
  ASSUME Month, NEW i \in Observed
  PROVE  /\ i \in Prints
         /\ BlockOf(i) \in PoolBlocks /\ changes[BlockOf(i)].ts <= tape[i].ts
         /\ \A b \in PoolBlocks : changes[b].ts <= tape[i].ts => b <= BlockOf(i)
<1> DEFINE ts == {changes[b].ts : b \in PoolBlocks}
           S == AtOrBefore(i, PoolBlocks)
<1>1. PoolBlocks \subseteq DOMAIN changes
  BY DEF PoolBlocks, Rows
<1>2. ts # {} /\ i \in Prints /\ Min(ts) <= tape[i].ts
  BY DEF Observed, PrintsWithin
<1>3. ts \in SUBSET Nat
  BY <1>1, MonthTypes
<1>4. Min(ts) \in ts
  <2> HIDE DEF ts
  <2> QED
    BY <1>2, <1>3, MinLeast
<1>5. PICK b \in PoolBlocks : Min(ts) = changes[b].ts
  BY <1>4
<1>6. b \in S
  BY <1>2, <1>5 DEF AtOrBefore
<1>7. S \in SUBSET Nat /\ Len(changes) \in Nat /\ \A y \in S : y <= Len(changes)
  BY <1>1, MonthTypes DEF AtOrBefore
<1>8. Max(S) \in S /\ \A y \in S : y <= Max(S)
  <2> HIDE DEF S
  <2> QED
    BY <1>6, <1>7, MaxGreatest
<1>9. BlockOf(i) = Max(S)
  BY DEF BlockOf, Asg
<1> QED
  BY <1>2, <1>8, <1>9 DEF AtOrBefore

\* Whether a print pays, by the block it falls into.
Prof(c, i) == Pays(c, tape[i].mid, BlockOf(i))

\* What is kept, and what of it pays.
LEMMA KeptIs ==
  ASSUME NEW c
  PROVE  /\ Kept(c) = {i \in Observed : BlockOf(i) \in Rows(c)}
         /\ Good(c) = {i \in Kept(c) : Prof(c, i)}
<1>1. DOMAIN Asg = Observed
  BY DEF Asg
<1> QED
  BY <1>1 DEF Kept, Good, Prof, BlockOf

\* The kept prints, in order of time.
LEMMA KeptFacts ==
  ASSUME Month, NEW c
  PROVE  /\ Good(c) \subseteq Kept(c) /\ Kept(c) \subseteq Observed /\ Kept(c) \subseteq Prints
         /\ Kept(c) \in SUBSET Nat
         /\ \A i \in Kept(c) : tape[i].ts \in Nat /\ 1 <= tape[i].ts /\ tape[i].ts <= now
         /\ \A i, j \in Kept(c) : i <= j => tape[i].ts <= tape[j].ts
<1>1. Good(c) \subseteq Kept(c) /\ Kept(c) \subseteq Observed /\ Observed \subseteq Prints
  BY KeptIs DEF Observed, PrintsWithin
<1>2. /\ Prints = 1..Len(tape) /\ Len(tape) \in Nat /\ now \in Nat
      /\ \A i \in Prints : tape[i].ts \in 1..now /\ tape[i].ts \in Nat
  BY MonthTypes
<1>3. \A i \in Prints : tape[i].ts \in Nat /\ 1 <= tape[i].ts /\ tape[i].ts <= now
  BY <1>2
<1>4. \A i, j \in Kept(c) : i <= j => tape[i].ts <= tape[j].ts
  BY <1>1, <1>2 DEF Month
<1>5. Kept(c) \in SUBSET Nat
  <2>1. 1..Len(tape) \subseteq Nat
    BY <1>2
  <2>2. Kept(c) \subseteq 1..Len(tape)
    BY <1>1, <1>2
  <2> QED
    BY <2>1, <2>2
<1> QED
  BY <1>1, <1>3, <1>4, <1>5

\* Each order the SQL takes prints in is a strict total one, and refines that of time.
LEMMA BeforeOrder ==
  ASSUME Month, NEW c \in Combos, NEW o \in Orders
  PROVE  /\ \A i, j \in Prints : Before(c, o, i, j) => tape[i].ts <= tape[j].ts /\ i # j
         /\ \A i, j \in Prints : tape[i].ts < tape[j].ts => Before(c, o, i, j)
         /\ \A i, j \in Prints : i = j \/ Before(c, o, i, j) \/ Before(c, o, j, i)
         /\ \A i, j, k \in Prints : Before(c, o, i, j) /\ Before(c, o, j, k) => Before(c, o, i, k)
<1>1. \A i \in Prints : i \in Nat /\ tape[i].ts \in Nat /\ tape[i].tie[c][o] \in Int
  BY MonthTypes
<1> DEFINE key(k) == tape[k].tie[c][o]
<1>2. \A i, j \in Prints :
         Before(c, o, i, j) <=> \/ tape[i].ts < tape[j].ts
                               \/ /\ tape[i].ts = tape[j].ts
                                  /\ key(i) < key(j) \/ (key(i) = key(j) /\ i < j)
  BY DEF Before
<1>3. ASSUME NEW i \in Prints, NEW j \in Prints, Before(c, o, i, j)
      PROVE  tape[i].ts <= tape[j].ts /\ i # j
  <2>1. i \in Nat /\ tape[i].ts \in Nat /\ tape[j].ts \in Nat /\ key(i) \in Int
    BY <1>1
  <2>2. \/ tape[i].ts < tape[j].ts
        \/ tape[i].ts = tape[j].ts /\ (key(i) < key(j) \/ (key(i) = key(j) /\ i < j))
    BY <1>3 DEF Before
  <2>3. CASE tape[i].ts < tape[j].ts
    BY <2>1, <2>3
  <2>4. CASE tape[i].ts = tape[j].ts /\ (key(i) < key(j) \/ (key(i) = key(j) /\ i < j))
    <3>1. i = j => key(i) = key(j)
      OBVIOUS
    <3> HIDE DEF key
    <3> QED
      BY <2>1, <2>4, <3>1
  <2> QED
    BY <2>2, <2>3, <2>4
<1>4. ASSUME NEW i \in Prints, NEW j \in Prints
      PROVE  i = j \/ Before(c, o, i, j) \/ Before(c, o, j, i)
  <2>1. /\ i \in Nat /\ j \in Nat /\ tape[i].ts \in Nat /\ tape[j].ts \in Nat
        /\ key(i) \in Int /\ key(j) \in Int
    BY <1>1
  <2> HIDE DEF key
  <2> QED
    BY <1>2, <2>1
<1>5. ASSUME NEW i \in Prints, NEW j \in Prints, NEW k \in Prints,
             Before(c, o, i, j), Before(c, o, j, k)
      PROVE  Before(c, o, i, k)
  <2>1. /\ i \in Nat /\ j \in Nat /\ k \in Nat
        /\ tape[i].ts \in Nat /\ tape[j].ts \in Nat /\ tape[k].ts \in Nat
        /\ key(i) \in Int /\ key(j) \in Int /\ key(k) \in Int
    BY <1>1
  <2> HIDE DEF key
  <2> QED
    BY <1>2, <1>5, <2>1
<1>6. \A i, j \in Prints : tape[i].ts < tape[j].ts => Before(c, o, i, j)
  BY <1>2
<1> QED
  BY <1>3, <1>4, <1>5, <1>6

\* A kept print is held until the next one; the last one for no time.
LEMMA NextFacts ==
  ASSUME Month, NEW c \in Combos, NEW i \in Kept(c)
  PROVE  /\ NextTs(c, i) \in Nat /\ tape[i].ts <= NextTs(c, i) /\ NextTs(c, i) <= now
         /\ \A j \in Kept(c) : Before(c, "lead", i, j) => NextTs(c, i) <= tape[j].ts
         /\ \E n \in Kept(c) : NextTs(c, i) = tape[n].ts
<1> DEFINE after == {k \in Kept(c) : Before(c, "lead", i, k)}
           later == {tape[j].ts : j \in after}
<1>1. NextTs(c, i) = IF later = {} THEN tape[i].ts ELSE Min(later)
  BY DEF NextTs
<1>2. /\ Kept(c) \subseteq Prints
      /\ \A j \in Kept(c) : tape[j].ts \in Nat /\ tape[j].ts <= now
  BY KeptFacts
<1>3. \A j \in after : tape[i].ts <= tape[j].ts
  BY <1>2, BeforeOrder DEF Orders
<1>4. CASE later = {}
  <2>1. NextTs(c, i) = tape[i].ts /\ after = {}
    BY <1>1, <1>4
  <2> QED
    BY <1>2, <2>1
<1>5. CASE later # {}
  <2>1. later \in SUBSET Nat
    BY <1>2
  <2>2. Min(later) \in later /\ \A y \in later : Min(later) <= y
    <3> HIDE DEF later
    <3> QED
      BY <1>5, <2>1, MinLeast
  <2>3. PICK n \in after : NextTs(c, i) = tape[n].ts
    BY <1>1, <1>5, <2>2
  <2>4. \A j \in after : NextTs(c, i) <= tape[j].ts
    BY <1>1, <1>5, <2>2
  <2> QED
    BY <1>2, <1>3, <2>3, <2>4
<1> QED
  BY <1>4, <1>5

\* The changes counted up to a print, and the prints of the window it is in.
Upto(c, i) == {k \in Starts(c) : k = i \/ Before(c, "sum", k, i)}

RunOf(c, i) == {j \in Good(c) : Upto(c, j) = Upto(c, i)}

\* The counts of the code are those, and they grow in the order of SUM.
LEMMA RunsAre ==
  ASSUME Month, NEW c \in Combos
  PROVE  /\ Runs(c) = {RunOf(c, i) : i \in Good(c)}
         /\ \A i, j \in Kept(c) : Before(c, "sum", i, j) => Upto(c, i) \subseteq Upto(c, j)
<1>1. Good(c) \subseteq Kept(c) /\ Kept(c) \subseteq Prints
  BY KeptFacts
<1>2. \A i \in Kept(c) : Grp(c)[i] = Upto(c, i)
  BY DEF Grp, Upto
<1>3. Runs(c) = {{j \in Good(c) : Grp(c)[j] = Grp(c)[i]} : i \in Good(c)}
  BY DEF Runs
<1>4. \A i \in Good(c) : {j \in Good(c) : Grp(c)[j] = Grp(c)[i]} = RunOf(c, i)
  BY <1>1, <1>2 DEF RunOf
<1>5. Starts(c) \subseteq Prints
  BY <1>1 DEF Starts
<1>6. ASSUME NEW i \in Kept(c), NEW j \in Kept(c), Before(c, "sum", i, j)
      PROVE  Upto(c, i) \subseteq Upto(c, j)
  <2> SUFFICES ASSUME NEW k \in Upto(c, i) PROVE k \in Upto(c, j)
    OBVIOUS
  <2>1. k \in Starts(c) /\ (k = i \/ Before(c, "sum", k, i))
    BY DEF Upto
  <2>2. k \in Prints /\ i \in Prints /\ j \in Prints /\ "sum" \in Orders
    BY <1>1, <1>5, <2>1 DEF Orders
  <2>3. Before(c, "sum", k, j)
    BY <1>6, <2>1, <2>2, BeforeOrder
  <2> QED
    BY <2>1, <2>3 DEF Upto
<1>7. Runs(c) = {RunOf(c, i) : i \in Good(c)}
  <2> DEFINE grouped(i) == {j \in Good(c) : Grp(c)[j] = Grp(c)[i]}
  <2>1. Runs(c) = {grouped(i) : i \in Good(c)}
    BY <1>3
  <2>2. \A i \in Good(c) : grouped(i) = RunOf(c, i)
    BY <1>4
  <2> HIDE DEF grouped
  <2> QED
    BY <2>1, <2>2
<1> QED
  BY <1>6, <1>7

\* Runs part the profitable prints: each of them is in its own run, and the prints of a
\* run have one run.
LEMMA RunMembers ==
  ASSUME NEW c, NEW i \in Good(c)
  PROVE  /\ i \in RunOf(c, i)
         /\ \A j \in RunOf(c, i) : j \in Good(c) /\ RunOf(c, j) = RunOf(c, i)
BY DEF RunOf

\* A window spans its run, from the first print to the end of the last one's hold.
LEMMA WindowFacts ==
  ASSUME Month, NEW c \in Combos, NEW g \in Good(c)
  PROVE  LET run == RunOf(c, g)
             w == Window(c, run)
         IN  /\ run \subseteq Good(c) /\ run \subseteq Kept(c) /\ g \in run /\ w.prints = run
             /\ w.open_ts \in Nat /\ w.close_ts \in Nat
             /\ \E a \in run : w.open_ts = tape[a].ts
             /\ \A j \in run : w.open_ts <= tape[j].ts
             /\ \E z \in run : w.close_ts = NextTs(c, z)
             /\ \A j \in run : NextTs(c, j) <= w.close_ts
<1> DEFINE run == RunOf(c, g)
           w == Window(c, run)
           opens == {tape[i].ts : i \in run}
           ends == {NextTs(c, i) : i \in run}
<1>1. run \subseteq Good(c) /\ g \in run
  BY RunMembers DEF RunOf
<1>2. run \subseteq Kept(c) /\ now \in Nat
  BY <1>1, KeptFacts, MonthTypes
<1>3. w.open_ts = Min(opens) /\ w.close_ts = Max(ends) /\ w.prints = run
  BY DEF Window, CloseTs
<1> HIDE DEF run, w
<1>4. opens \in SUBSET Nat /\ opens # {}
  BY <1>1, <1>2, KeptFacts
<1>5. ends \in SUBSET Nat /\ ends # {} /\ \A y \in ends : y <= now
  BY <1>1, <1>2, NextFacts
<1>6. Min(opens) \in opens /\ \A y \in opens : Min(opens) <= y
  <2> HIDE DEF opens
  <2> QED
    BY <1>4, MinLeast
<1>7. Max(ends) \in ends /\ \A y \in ends : y <= Max(ends)
  <2> HIDE DEF ends
  <2> QED
    BY <1>2, <1>5, MaxGreatest
<1>8. /\ \E a \in run : w.open_ts = tape[a].ts
      /\ \A j \in run : w.open_ts <= tape[j].ts
  BY <1>3, <1>6
<1>9. /\ \E z \in run : w.close_ts = NextTs(c, z)
      /\ \A j \in run : NextTs(c, j) <= w.close_ts
  BY <1>3, <1>7
<1>10. w.open_ts \in Nat /\ w.close_ts \in Nat
  BY <1>3, <1>4, <1>5, <1>6, <1>7
<1> QED
  BY <1>1, <1>2, <1>3, <1>8, <1>9, <1>10 DEF run, w

-----------------------------------------------------------------------------
\* The time for which a kept print says whether the pair pays.
Holds(c, i, t) == tape[i].ts <= t /\ t < NextTs(c, i)

\* LEAD gives every moment to one print of a pair at most, and that is the last one so far.
LEMMA HeldOnce ==
  ASSUME Month, NEW c \in Combos, NEW t \in Nat, NEW i \in Kept(c), Holds(c, i, t)
  PROVE  /\ \A j \in Kept(c) : tape[j].ts <= t /\ j # i => Before(c, "lead", j, i)
         /\ \A j \in Kept(c) : Holds(c, j, t) => j = i
<1>1. Kept(c) \subseteq Prints /\ "lead" \in Orders /\ \A j \in Kept(c) : tape[j].ts \in Nat
  BY KeptFacts DEF Orders
<1>2. ASSUME NEW x \in Kept(c), NEW y \in Kept(c), Holds(c, x, t), tape[y].ts <= t
      PROVE  ~Before(c, "lead", x, y)
  <2> SUFFICES ASSUME Before(c, "lead", x, y) PROVE FALSE
    OBVIOUS
  <2>1. NextTs(c, x) \in Nat /\ NextTs(c, x) <= tape[y].ts /\ tape[y].ts \in Nat
    BY <1>1, NextFacts
  <2> QED
    BY <1>2, <2>1 DEF Holds
<1>3. ASSUME NEW j \in Kept(c), tape[j].ts <= t, j # i PROVE Before(c, "lead", j, i)
  BY <1>1, <1>2, <1>3, BeforeOrder
<1>4. ASSUME NEW j \in Kept(c), Holds(c, j, t), j # i PROVE FALSE
  <2>1. Before(c, "lead", j, i)
    BY <1>3, <1>4 DEF Holds
  <2> QED
    BY <1>2, <1>4, <2>1 DEF Holds
<1> QED
  BY <1>3, <1>4

\* A window that is open has a print of its run up to now, and one of them holds the
\* moment or another is still to come.
LEMMA InsideIsHeld ==
  ASSUME Month, NEW c \in Combos, NEW g \in Good(c), NEW t \in Nat,
         Inside(Window(c, RunOf(c, g)), t)
  PROVE  /\ \E x \in RunOf(c, g) : tape[x].ts <= t
         /\ (\E y \in RunOf(c, g) : Holds(c, y, t)) \/ (\E y \in RunOf(c, g) : t < tape[y].ts)
<1> DEFINE run == RunOf(c, g)
           w == Window(c, run)
<1>1. /\ run \subseteq Kept(c)
      /\ \E a \in run : w.open_ts = tape[a].ts
      /\ \E z \in run : w.close_ts = NextTs(c, z)
  BY WindowFacts
<1>2. PICK x \in run : tape[x].ts <= t
  BY <1>1 DEF Inside
<1>3. PICK z \in run : t < NextTs(c, z)
  BY <1>1 DEF Inside
<1>4. tape[z].ts \in Nat
  BY <1>1, KeptFacts
<1>5. Holds(c, z, t) \/ t < tape[z].ts
  BY <1>3, <1>4 DEF Holds
<1> QED
  BY <1>2, <1>5

\* The window of a print is open for as long as it holds.
LEMMA HeldIsInside ==
  ASSUME Month, NEW c \in Combos, NEW g \in Good(c), NEW t \in Nat, NEW i \in RunOf(c, g),
         Holds(c, i, t)
  PROVE  Inside(Window(c, RunOf(c, g)), t)
<1> DEFINE w == Window(c, RunOf(c, g))
<1>1. /\ w.open_ts \in Nat /\ w.close_ts \in Nat /\ w.open_ts <= tape[i].ts
      /\ NextTs(c, i) <= w.close_ts /\ i \in Kept(c)
  BY WindowFacts
<1>2. tape[i].ts \in Nat /\ NextTs(c, i) \in Nat
  BY <1>1, KeptFacts, NextFacts
<1> HIDE DEF w
<1>3. Inside(w, t)
  BY <1>1, <1>2 DEF Inside, Holds
<1> QED
  BY <1>3 DEF w

\* Two runs that were both begun and have both prints to come are one: of the changes
\* SUM has counted at two prints, one set contains the other.
LEMMA OneStraddles ==
  ASSUME Month, NEW c \in Combos, NEW t \in Nat, NEW g \in Good(c), NEW h \in Good(c),
         \E x \in RunOf(c, g) : tape[x].ts <= t, \E y \in RunOf(c, g) : t < tape[y].ts,
         \E x \in RunOf(c, h) : tape[x].ts <= t, \E y \in RunOf(c, h) : t < tape[y].ts
  PROVE  RunOf(c, g) = RunOf(c, h)
<1>1. PICK x \in RunOf(c, g), y \in RunOf(c, g), p \in RunOf(c, h), q \in RunOf(c, h) :
         tape[x].ts <= t /\ t < tape[y].ts /\ tape[p].ts <= t /\ t < tape[q].ts
  OBVIOUS
<1>2. /\ Upto(c, x) = Upto(c, g) /\ Upto(c, y) = Upto(c, g)
      /\ Upto(c, p) = Upto(c, h) /\ Upto(c, q) = Upto(c, h)
  BY DEF RunOf
<1>3. /\ x \in Kept(c) /\ y \in Kept(c) /\ p \in Kept(c) /\ q \in Kept(c)
      /\ Kept(c) \subseteq Prints /\ \A i \in Kept(c) : tape[i].ts \in Nat
  BY KeptFacts DEF RunOf
<1>4. tape[x].ts < tape[q].ts /\ tape[p].ts < tape[y].ts
  BY <1>1, <1>3
<1>5. Before(c, "sum", x, q) /\ Before(c, "sum", p, y)
  BY <1>3, <1>4, BeforeOrder DEF Orders
<1>6. Upto(c, x) \subseteq Upto(c, q) /\ Upto(c, p) \subseteq Upto(c, y)
  BY <1>3, <1>5, RunsAre
<1>7. Upto(c, g) = Upto(c, h)
  <2> DEFINE a == Upto(c, g)
             b == Upto(c, h)
  <2>1. a \subseteq b /\ b \subseteq a
    BY <1>2, <1>6
  <2> HIDE DEF a, b
  <2>2. a = b
    BY <2>1
  <2> QED
    BY <2>2 DEF a, b
<1> QED
  BY <1>7 DEF RunOf

\* The last print so far holds the moment if the pair kept it.
LEMMA LastPrintFacts ==
  ASSUME Month, NEW c \in Combos, NEW t \in Moments(c), NEW i \in LastPrint(c, t)
  PROVE  /\ t \in Nat /\ i \in Observed /\ tape[i].ts <= t
         /\ i \in Kept(c) => Holds(c, i, t)
<1>1. PICK k \in Kept(c) : t < tape[k].ts
  BY DEF Moments
<1>2. t \in Nat
  BY WindowsAssumption DEF Moments
<1>3. /\ i \in Observed /\ tape[i].ts <= t
      /\ \A j \in Observed : tape[j].ts <= t => j = i \/ Before(c, "lead", j, i)
  BY DEF LastPrint
<1>4. Kept(c) \subseteq Observed /\ Kept(c) \subseteq Prints /\ "lead" \in Orders
  BY KeptFacts DEF Orders
<1>5. ASSUME i \in Kept(c) PROVE t < NextTs(c, i)
  <2>1. tape[i].ts \in Nat /\ tape[k].ts \in Nat
    BY <1>5, KeptFacts
  <2>2. tape[i].ts < tape[k].ts
    BY <1>1, <1>2, <1>3, <2>1
  <2>3. Before(c, "lead", i, k)
    BY <1>4, <1>5, <2>2, BeforeOrder
  <2>4. i # k
    BY <2>1, <2>2
  <2> DEFINE after == {j \in Kept(c) : Before(c, "lead", i, j)}
             later == {tape[j].ts : j \in after}
  <2>5. k \in after /\ later # {} /\ later \in SUBSET Nat
    BY <2>3, KeptFacts
  <2>6. NextTs(c, i) = Min(later)
    BY <2>5 DEF NextTs
  <2>7. Min(later) \in later
    <3> HIDE DEF later
    <3> QED
      BY <2>5, MinLeast
  <2>8. PICK n \in after : NextTs(c, i) = tape[n].ts
    BY <2>6, <2>7
  <2>9. n \in Kept(c) /\ Before(c, "lead", i, n) /\ tape[n].ts \in Nat
    BY <2>8, KeptFacts
  <2>10. ~(tape[n].ts <= t)
    <3> SUFFICES ASSUME tape[n].ts <= t PROVE FALSE
      OBVIOUS
    <3>1. n = i \/ Before(c, "lead", n, i)
      BY <1>3, <1>4, <2>9
    <3>2. n # i
      BY <1>4, <1>5, <2>9, BeforeOrder
    <3>3. Before(c, "lead", i, i)
      BY <1>4, <1>5, <2>9, <3>1, <3>2, BeforeOrder
    <3> QED
      BY <1>4, <1>5, <3>3, BeforeOrder
  <2> QED
    BY <1>2, <2>8, <2>9, <2>10
<1> QED
  BY <1>2, <1>3, <1>5 DEF Holds

-----------------------------------------------------------------------------
\* Every window is that of the run of a profitable print.
LEMMA WindowOf ==
  ASSUME Month, NEW c \in Combos
  PROVE  /\ \A w \in Windows(c) : \E g \in Good(c) : w = Window(c, RunOf(c, g))
         /\ \A g \in Good(c) : Window(c, RunOf(c, g)) \in Windows(c)
BY RunsAre DEF Windows

\* Both tables are sorted and typed as M4 and M5 take them, and a window opens no later
\* than it closes, within the month.
THEOREM MonthTyping == Spec => []TypeOK
<1>1. ASSUME Month, NEW c \in Combos, NEW w \in Windows(c)
      PROVE  1 <= w.open_ts /\ w.open_ts <= w.close_ts /\ w.close_ts <= now
  <2>1. PICK g \in Good(c) : w = Window(c, RunOf(c, g))
    BY <1>1, WindowOf
  <2>2. /\ RunOf(c, g) \subseteq Kept(c) /\ g \in RunOf(c, g)
        /\ w.open_ts \in Nat /\ w.close_ts \in Nat /\ now \in Nat
        /\ w.open_ts <= tape[g].ts /\ NextTs(c, g) <= w.close_ts
    BY <1>1, <2>1, WindowFacts, MonthTypes
  <2>3. PICK a \in RunOf(c, g) : w.open_ts = tape[a].ts
    BY <1>1, <2>1, WindowFacts
  <2>4. PICK z \in RunOf(c, g) : w.close_ts = NextTs(c, z)
    BY <1>1, <2>1, WindowFacts
  <2>5. 1 <= tape[a].ts /\ NextTs(c, z) <= now
    BY <1>1, <2>2, KeptFacts, NextFacts
  <2>6. tape[g].ts \in Nat /\ NextTs(c, g) \in Nat /\ tape[g].ts <= NextTs(c, g)
    BY <1>1, <2>2, KeptFacts, NextFacts
  <2> QED
    BY <2>2, <2>3, <2>4, <2>5, <2>6
<1>2. Month => TypeOK
  <2> SUFFICES ASSUME Month PROVE TypeOK
    OBVIOUS
  <2>1. \A i \in Prints : tape[i].ts \in 1..now /\ tape[i].mid \in Mids
    BY MonthTypes
  <2>2. Prints = 1..Len(tape) /\ DOMAIN changes = 1..Len(changes)
    BY MonthTypes
  <2>3. /\ \A i, j \in Prints : i <= j => tape[i].ts <= tape[j].ts
        /\ \A i, j \in DOMAIN changes : i < j => changes[i].ts < changes[j].ts
    BY <2>2 DEF Month
  <2>4. now \in 1..LastMs
    BY DEF Month
  <2> QED
    BY <1>1, <2>1, <2>3, <2>4 DEF TypeOK
<1> QED
  BY MonthInvariance, <1>2, PTL

\* A swap inside a window has a print before it, the one that opened the window, so the
\* inner join of M6 keeps it.
LEMMA KeepsTakers == Month => TakersKept
<1> SUFFICES ASSUME Month, NEW c \in Combos, NEW w \in Windows(c)
             PROVE  Took(c, w) = {b \in TookBlind(w) : changes[b].swap = c.direction}
  BY DEF TakersKept
<1>1. PICK g \in Good(c) : w = Window(c, RunOf(c, g))
  BY WindowOf
<1>2. PICK a \in Prints : w.open_ts = tape[a].ts
  BY <1>1, WindowFacts, KeptFacts
<1>3. ASSUME NEW b \in DOMAIN changes, Inside(w, changes[b].ts) PROVE Joined(b)
  BY <1>2, <1>3 DEF Inside, Joined
<1> QED
  BY <1>3 DEF Took, TookBlind, DecodedSwaps

\* took_it: reading M6's table instead of the raw logs loses no taker of a window, and
\* the count without M6 is an upper bound of the count with it.
THEOREM NoTakerIsLost == Spec => []TakersKept
BY MonthInvariance, KeepsTakers, PTL

\* Two windows of a pair that are open at once: one has the print that holds the moment and
\* the other straddles it, which only one can.  Had that print a millisecond of its own, it
\* would stand between the prints of the straddling run in SUM's order, and be one of them.
LEMMA OpenTwice ==
  ASSUME Month, NEW c \in Combos, NEW t \in Nat, NEW v \in Windows(c), NEW w \in Windows(c),
         Inside(v, t), Inside(w, t), v # w
  PROVE  Shared(c, t) /\ \A u \in Windows(c) : Inside(u, t) => u \in {v, w}
<1> DEFINE Has(g) == \E y \in RunOf(c, g) : Holds(c, y, t)
           Straddles(g) == /\ \E x \in RunOf(c, g) : tape[x].ts <= t
                           /\ \E y \in RunOf(c, g) : t < tape[y].ts
           Open(g) == Inside(Window(c, RunOf(c, g)), t)
<1>1. ASSUME NEW g \in Good(c), NEW h \in Good(c), Has(g), Has(h) PROVE RunOf(c, g) = RunOf(c, h)
  <2>1. PICK y \in RunOf(c, g), z \in RunOf(c, h) : Holds(c, y, t) /\ Holds(c, z, t)
    BY <1>1
  <2>2. y = z
    BY <2>1, HeldOnce, RunMembers, KeptFacts
  <2> QED
    BY <2>2, RunMembers
<1>2. \A g, h \in Good(c) : Straddles(g) /\ Straddles(h) => RunOf(c, g) = RunOf(c, h)
  BY OneStraddles
<1>3. \A g \in Good(c) : Open(g) => Has(g) \/ Straddles(g)
  BY InsideIsHeld
<1>4. PICK g \in Good(c), h \in Good(c) : v = Window(c, RunOf(c, g)) /\ w = Window(c, RunOf(c, h))
  BY WindowOf
<1> HIDE DEF Has, Straddles
<1>5. RunOf(c, g) # RunOf(c, h) /\ Open(g) /\ Open(h)
  BY <1>4
<1>6. \A u \in Windows(c) : Inside(u, t) => u \in {v, w}
  <2> SUFFICES ASSUME NEW u \in Windows(c), Inside(u, t) PROVE u = v \/ u = w
    OBVIOUS
  <2>1. PICK k \in Good(c) : u = Window(c, RunOf(c, k))
    BY WindowOf
  <2>2. RunOf(c, k) = RunOf(c, g) \/ RunOf(c, k) = RunOf(c, h)
    BY <1>1, <1>2, <1>3, <1>5, <2>1
  <2> QED
    BY <1>4, <2>1, <2>2
<1>7. ASSUME NEW k \in Good(c), NEW l \in Good(c), Has(k), Straddles(l), RunOf(c, k) # RunOf(c, l)
      PROVE  Shared(c, t)
  <2>1. PICK z \in RunOf(c, k) : Holds(c, z, t)
    BY <1>7 DEF Has
  <2>2. PICK x \in RunOf(c, l), y \in RunOf(c, l) : tape[x].ts <= t /\ t < tape[y].ts
    BY <1>7 DEF Straddles
  <2>3. /\ x \in Kept(c) /\ y \in Kept(c) /\ z \in Kept(c) /\ Kept(c) \subseteq Prints
        /\ \A i \in Kept(c) : tape[i].ts \in Nat
    BY KeptFacts DEF RunOf
  <2>4. x # z
    BY <1>7, RunMembers
  <2>5. \A j \in Kept(c) : tape[j].ts <= t => tape[j].ts <= tape[z].ts
    <3> SUFFICES ASSUME NEW j \in Kept(c), tape[j].ts <= t, j # z PROVE tape[j].ts <= tape[z].ts
      BY <2>3
    <3>1. Before(c, "lead", j, z)
      BY <2>1, <2>3, HeldOnce
    <3> QED
      BY <2>3, <3>1, BeforeOrder DEF Orders
  <2>6. ~(tape[x].ts < tape[z].ts)
    <3> SUFFICES ASSUME tape[x].ts < tape[z].ts PROVE FALSE
      OBVIOUS
    <3>1. tape[z].ts < tape[y].ts
      BY <2>1, <2>2, <2>3 DEF Holds
    <3>2. Before(c, "sum", x, z) /\ Before(c, "sum", z, y)
      BY <2>3, <3>1, BeforeOrder DEF Orders
    <3>3. Upto(c, x) \subseteq Upto(c, z) /\ Upto(c, z) \subseteq Upto(c, y)
      BY <2>3, <3>2, RunsAre
    <3>4. Upto(c, z) = Upto(c, l) /\ Upto(c, z) = Upto(c, k)
      BY <2>1, <2>2, <3>3 DEF RunOf
    <3> QED
      BY <1>7, <3>4 DEF RunOf
  <2>7. tape[x].ts = tape[z].ts
    BY <2>2, <2>3, <2>5, <2>6
  <2> DEFINE past == {i \in Kept(c) : tape[i].ts <= t}
  <2>8. x \in past /\ z \in past /\ \A j \in past : tape[j].ts <= tape[x].ts
    BY <2>2, <2>3, <2>5, <2>7
  <2> QED
    BY <2>4, <2>7, <2>8 DEF Shared
<1>8. Shared(c, t)
  BY <1>1, <1>2, <1>3, <1>5, <1>7
<1> QED
  BY <1>6, <1>8

\* Two windows that a swap took are open at its moment.
LEMMA TakesOnce == Month => TookOnceUnlessShared
<1> SUFFICES ASSUME Month, NEW c \in Combos, NEW v \in Windows(c), NEW w \in Windows(c),
                    NEW b \in Took(c, v) \cap Took(c, w), v # w
             PROVE  /\ Shared(c, changes[b].ts)
                    /\ \A u \in Windows(c) : b \in Took(c, u) => u \in {v, w}
  BY DEF TookOnceUnlessShared
<1> DEFINE s == changes[b].ts
<1>1. s \in Nat /\ Inside(v, s) /\ Inside(w, s)
  BY MonthTypes DEF Took, DecodedSwaps
<1>2. \A u \in Windows(c) : b \in Took(c, u) => Inside(u, s)
  BY DEF Took
<1> HIDE DEF s
<1>3. Shared(c, s) /\ \A u \in Windows(c) : Inside(u, s) => u \in {v, w}
  BY <1>1, OpenTwice
<1> QED
  BY <1>2, <1>3 DEF s

\* find_windows and took_it: in whatever orders LAG, LEAD and SUM take the prints of a
\* millisecond, a swap is inside one window of a direction and size, unless the last prints
\* before it share theirs; and inside two at most.
THEOREM OneWindowEach == Spec => []TookOnceUnlessShared
BY MonthInvariance, TakesOnce, PTL

\* The last print before the swap is profitable, and is held until a later one.
LEMMA CountsTakers == Month => TakerCounted
<1> SUFFICES ASSUME Month, NEW c \in Combos, NEW b \in DOMAIN changes,
                    changes[b].swap = c.direction, changes[b].ts \in Moments(c),
                    NEW i \in LastPrint(c, changes[b].ts), i \in Good(c)
             PROVE  \E w \in Windows(c) : b \in Took(c, w)
  BY DEF TakerCounted
<1> DEFINE s == changes[b].ts
           w == Window(c, RunOf(c, i))
<1>1. i \in RunOf(c, i) /\ i \in Kept(c) /\ i \in Prints
  BY RunMembers, KeptFacts
<1>2. s \in Nat /\ Holds(c, i, s)
  BY <1>1, LastPrintFacts
<1>3. Inside(w, s)
  BY <1>1, <1>2, HeldIsInside
<1>4. w \in Windows(c)
  BY WindowOf
<1>5. b \in DecodedSwaps
  BY <1>1, <1>2, WindowsAssumption DEF DecodedSwaps, Joined, Holds
<1>6. b \in Took(c, w)
  BY <1>3, <1>5 DEF Took
<1> QED
  BY <1>4, <1>6

\* took_it: a swap that lands while the last print says its direction pays is counted as
\* taking a window, though M5 closes a window at the block the swap itself makes.
THEOREM TakersAreCounted == Spec => []TakerCounted
BY MonthInvariance, CountsTakers, PTL

\* The change in force at a moment a pair was observed at.
LEMMA InForceFacts ==
  ASSUME Month, NEW c \in Combos, NEW t \in Moments(c)
  PROVE  /\ InForce(t) \in DOMAIN changes /\ changes[InForce(t)].ts <= t
         /\ \A b \in DOMAIN changes : changes[b].ts <= t => b <= InForce(t)
<1> DEFINE S == {b \in DOMAIN changes : changes[b].ts <= t}
<1>1. PICK j \in Kept(c) : tape[j].ts <= t
  BY DEF Moments
<1>2. t \in Nat
  BY WindowsAssumption DEF Moments
<1>3. BlockOf(j) \in PoolBlocks /\ changes[BlockOf(j)].ts <= tape[j].ts
  BY KeptFacts, Falls
<1>4. BlockOf(j) \in DOMAIN changes
  BY <1>3 DEF PoolBlocks, Rows
<1>5. tape[j].ts \in Nat /\ changes[BlockOf(j)].ts \in Nat
  BY <1>4, KeptFacts, MonthTypes
<1>6. BlockOf(j) \in S
  BY <1>1, <1>2, <1>3, <1>4, <1>5
<1>7. S \in SUBSET Nat /\ Len(changes) \in Nat /\ \A y \in S : y <= Len(changes)
  BY MonthTypes
<1>8. Max(S) \in S /\ \A y \in S : y <= Max(S)
  <2> HIDE DEF S
  <2> QED
    BY <1>6, <1>7, MaxGreatest
<1> QED
  BY <1>8 DEF InForce

\* A window that is open beyond a print that does not pay has met a shared millisecond: or
\* LAG would have seen the first such print as a change, and SUM have ended the run there.
LEMMA UntiedIsExact ==
  ASSUME Month, NEW c \in Combos, NEW t \in Nat, NEW g \in Good(c), NEW i \in Kept(c), Holds(c, i, t),
         Inside(Window(c, RunOf(c, g)), t), Untied(c, Window(c, RunOf(c, g)).open_ts, t)
  PROVE  i \in Good(c)
<1> DEFINE run == RunOf(c, g)
           w == Window(c, run)
<1>1. PICK x \in run : w.open_ts = tape[x].ts
  BY WindowFacts
<1>2. CASE \E y \in run : Holds(c, y, t)
  <2>1. PICK y \in run : Holds(c, y, t)
    BY <1>2
  <2>2. y \in Good(c) /\ y \in Kept(c)
    BY KeptFacts DEF RunOf
  <2> QED
    BY <2>1, <2>2, HeldOnce
<1>3. CASE \E y \in run : t < tape[y].ts
  <2>1. PICK y \in run : t < tape[y].ts
    BY <1>3
  <2>2. /\ x \in Kept(c) /\ y \in Kept(c) /\ x \in Good(c) /\ Upto(c, x) = Upto(c, y)
        /\ Kept(c) \subseteq Prints /\ Kept(c) \in SUBSET Nat
        /\ \A j \in Kept(c) : tape[j].ts \in Nat
        /\ \A j, k \in Kept(c) : j <= k => tape[j].ts <= tape[k].ts
    BY KeptFacts DEF RunOf
  <2>3. tape[x].ts <= t /\ tape[i].ts <= t
    BY <1>1 DEF Inside, Holds
  <2>4. \A j, k \in Kept(c) :
           tape[j].ts = tape[k].ts /\ tape[x].ts <= tape[j].ts /\ tape[j].ts <= t => j = k
    BY <1>1 DEF Untied
  <2> HIDE DEF run, w
  <2> SUFFICES ASSUME i \notin Good(c) PROVE FALSE
    OBVIOUS
  <2>5. tape[x].ts < tape[i].ts
    <3>1. x # i /\ Before(c, "lead", x, i)
      BY <2>2, <2>3, HeldOnce
    <3>2. tape[x].ts <= tape[i].ts
      BY <2>2, <3>1, BeforeOrder DEF Orders
    <3> QED
      BY <2>2, <2>3, <2>4, <3>1, <3>2
  <2> DEFINE K == {k \in Kept(c) : k \notin Good(c) /\ tape[x].ts < tape[k].ts /\ tape[k].ts <= tape[i].ts}
             k == Min(K)
  <2>6. k \in K /\ \A j \in K : k <= j
    <3>1. K \in SUBSET Nat /\ i \in K
      BY <2>2, <2>5
    <3> HIDE DEF K
    <3> QED
      BY <3>1, MinLeast
  <2>7. k \in Kept(c) /\ k \notin Good(c) /\ tape[x].ts < tape[k].ts /\ tape[k].ts <= tape[i].ts
    BY <2>6
  <2> HIDE DEF k
  <2>8. tape[k].ts <= t /\ tape[k].ts < tape[y].ts
    BY <2>1, <2>2, <2>3, <2>7
  <2>9. Upto(c, k) = Upto(c, x)
    <3>1. Before(c, "sum", x, k) /\ Before(c, "sum", k, y)
      BY <2>2, <2>7, <2>8, BeforeOrder DEF Orders
    <3>2. Upto(c, x) \subseteq Upto(c, k) /\ Upto(c, k) \subseteq Upto(c, y)
      BY <2>2, <2>7, <3>1, RunsAre
    <3> QED
      BY <2>2, <3>2
  <2>10. k \notin Starts(c)
    <3> SUFFICES ASSUME k \in Upto(c, x) PROVE FALSE
      BY <2>9 DEF Upto
    <3>1. k = x \/ Before(c, "sum", k, x)
      BY DEF Upto
    <3>2. tape[k].ts <= tape[x].ts
      BY <2>2, <2>7, <3>1, BeforeOrder DEF Orders
    <3> QED
      BY <2>2, <2>7, <3>2
  <2>11. PICK j \in LagOf(c, Kept(c), k) : j \notin Good(c)
    BY <2>7, <2>10 DEF Starts
  <2>12. /\ j \in Kept(c) /\ Before(c, "lag", j, k)
         /\ \A m \in Kept(c) : Before(c, "lag", m, k) => m = j \/ Before(c, "lag", m, j)
    BY <2>11 DEF LagOf
  <2>13. tape[x].ts < tape[j].ts
    <3>1. Before(c, "lag", x, k)
      BY <2>2, <2>7, BeforeOrder DEF Orders
    <3>2. x # j
      BY <2>2, <2>11
    <3>3. Before(c, "lag", x, j)
      BY <2>2, <2>12, <3>1, <3>2
    <3>4. tape[x].ts <= tape[j].ts
      BY <2>2, <2>12, <3>3, BeforeOrder DEF Orders
    <3> QED
      BY <2>2, <2>3, <2>4, <2>12, <3>2, <3>4
  <2>14. tape[j].ts < tape[k].ts
    <3>1. tape[j].ts <= tape[k].ts /\ j # k
      BY <2>2, <2>7, <2>12, BeforeOrder DEF Orders
    <3> QED
      BY <2>2, <2>4, <2>7, <2>8, <2>12, <2>13, <3>1
  <2>15. j \in K
    BY <2>2, <2>7, <2>11, <2>12, <2>13, <2>14
  <2>16. k <= j
    BY <2>6, <2>15
  <2>17. tape[k].ts <= tape[j].ts
    BY <2>2, <2>7, <2>12, <2>16
  <2> QED
    BY <2>2, <2>7, <2>12, <2>14, <2>17
<1> QED
  BY <1>2, <1>3, InsideIsHeld

\* The interval a print falls into is the change in force, as the first kept print before
\* it shows that change to be joined; so the pair kept the last print, and it holds t.
LEMMA ExactWindows == Month => ExactBetweenChanges
<1> SUFFICES ASSUME Month, NEW c \in Combos, NEW t \in Moments(c), NEW i \in LastPrint(c, t),
                    changes[InForce(t)].ts <= tape[i].ts, Quoted(c, t)
             PROVE  LET good == IF c.direction = "A"
                                THEN tape[i].mid > changes[InForce(t)].breakeven[c]
                                ELSE tape[i].mid < changes[InForce(t)].breakeven[c]
                    IN  /\ good => Covered(c, t)
                        /\ \A w \in Windows(c) : Inside(w, t) /\ Untied(c, w.open_ts, t) => good
  BY DEF ExactBetweenChanges
<1> DEFINE b == InForce(t)
<1>1. t \in Nat /\ i \in Observed /\ tape[i].ts <= t /\ (i \in Kept(c) => Holds(c, i, t))
  BY LastPrintFacts
<1>2. /\ b \in DOMAIN changes /\ changes[b].ts <= t /\ changes[b].ts <= tape[i].ts
      /\ \A k \in DOMAIN changes : changes[k].ts <= t => k <= b
  BY InForceFacts
<1>3. /\ i \in Prints /\ BlockOf(i) \in PoolBlocks /\ changes[BlockOf(i)].ts <= tape[i].ts
      /\ \A k \in PoolBlocks : changes[k].ts <= tape[i].ts => k <= BlockOf(i)
  BY <1>1, Falls
<1>4. c \in DOMAIN changes[b].breakeven
  BY DEF Quoted
<1> HIDE DEF b
<1>5. BlockOf(i) \in DOMAIN changes /\ Joined(BlockOf(i))
  BY <1>3 DEF PoolBlocks, Rows
<1>6. tape[i].ts \in Nat /\ changes[b].ts \in Nat /\ changes[BlockOf(i)].ts \in Nat
  BY <1>2, <1>3, <1>5, MonthTypes
<1>7. b \in Nat /\ BlockOf(i) \in Nat
  BY <1>2, <1>5, MonthTypes
<1>8. BlockOf(i) <= b
  BY <1>1, <1>2, <1>3, <1>5, <1>6
<1>9. Joined(b)
  <2>1. PICK p \in Prints : tape[p].ts <= changes[BlockOf(i)].ts
    BY <1>5 DEF Joined
  <2>2. BlockOf(i) = b \/ changes[BlockOf(i)].ts < changes[b].ts
    <3>1. DOMAIN changes = 1..Len(changes)
      BY MonthTypes
    <3> QED
      BY <1>2, <1>5, <1>7, <1>8, <3>1 DEF Month
  <2>3. tape[p].ts \in Nat
    BY <2>1, MonthTypes
  <2>4. tape[p].ts <= changes[b].ts
    BY <1>6, <2>1, <2>2, <2>3
  <2> QED
    BY <2>1, <2>4 DEF Joined
<1>10. b \in Rows(c) /\ b \in PoolBlocks
  BY <1>2, <1>4, <1>9 DEF Rows, PoolBlocks
<1>11. BlockOf(i) = b
  BY <1>2, <1>3, <1>7, <1>8, <1>10
<1>12. i \in Kept(c)
  BY <1>1, <1>10, <1>11, KeptIs
<1>13. i \in Good(c) <=> Pays(c, tape[i].mid, b)
  BY <1>11, <1>12, KeptIs DEF Prof
<1>14. i \in Good(c) => Covered(c, t)
  <2> SUFFICES ASSUME i \in Good(c) PROVE Covered(c, t)
    OBVIOUS
  <2>1. i \in RunOf(c, i) /\ Holds(c, i, t)
    BY <1>1, <1>12, RunMembers
  <2>2. Inside(Window(c, RunOf(c, i)), t)
    BY <1>1, <2>1, HeldIsInside
  <2> QED
    BY <2>2, WindowOf DEF Covered
<1>15. ASSUME NEW w \in Windows(c), Inside(w, t), Untied(c, w.open_ts, t) PROVE i \in Good(c)
  <2>1. PICK g \in Good(c) : w = Window(c, RunOf(c, g))
    BY WindowOf
  <2> QED
    BY <1>1, <1>12, <1>15, <2>1, UntiedIsExact
<1> QED
  BY <1>13, <1>14, <1>15 DEF Pays, b

\* find_windows and assign_prints: at a moment whose state has not changed since the last
\* print and was quoted for the pair, a window is open if the pair pays at that print, and
\* one that has met no shared millisecond is open only then; whatever blocks failed for the
\* pair in between and in whatever orders the SQL takes the prints of a millisecond.
THEOREM WindowsAreExact == Spec => []ExactBetweenChanges
BY MonthInvariance, ExactWindows, PTL

-----------------------------------------------------------------------------
\* Every window has one row, at the first print of its run.
LEMMA RowsAre ==
  ASSUME Month, NEW c \in Combos
  PROVE  /\ \A w \in Windows(c) : \E i \in DOMAIN WindowAt(c) : w = WindowAt(c)[i]
         /\ \A i \in DOMAIN WindowAt(c) :
               /\ WindowAt(c)[i] \in Windows(c)
               /\ i = Min(WindowAt(c)[i].prints)
               /\ i \in Good(c) /\ WindowAt(c)[i] = Window(c, RunOf(c, i))
               /\ \A j \in RunOf(c, i) : i <= j
<1> DEFINE rows == WindowAt(c)
           firsts == {Min(w.prints) : w \in Windows(c)}
<1>1. rows = [i \in firsts |-> CHOOSE w \in Windows(c) : i = Min(w.prints)]
  BY DEF WindowAt, ByPrint
<1>2. ASSUME NEW w \in Windows(c), NEW m, m = Min(w.prints)
      PROVE  m \in Good(c) /\ w = Window(c, RunOf(c, m)) /\ \A j \in RunOf(c, m) : m <= j
  <2>1. PICK g \in Good(c) : w = Window(c, RunOf(c, g))
    BY WindowOf
  <2> DEFINE run == RunOf(c, g)
  <2>2. w.prints = run /\ run \subseteq Kept(c) /\ g \in run
    BY <2>1, WindowFacts
  <2>3. run \in SUBSET Nat /\ run # {}
    BY <2>2, KeptFacts
  <2>4. m \in run /\ \A j \in run : m <= j
    <3> HIDE DEF run
    <3> QED
      BY <1>2, <2>2, <2>3, MinLeast
  <2>5. m \in Good(c) /\ RunOf(c, m) = run
    BY <2>4, RunMembers
  <2> QED
    BY <2>1, <2>4, <2>5
<1>3. ASSUME NEW i \in firsts PROVE rows[i] \in Windows(c) /\ i = Min(rows[i].prints)
  <2>1. \E w \in Windows(c) : i = Min(w.prints)
    BY <1>3
  <2>2. rows[i] = CHOOSE w \in Windows(c) : i = Min(w.prints)
    BY <1>1
  <2> HIDE DEF rows
  <2> QED
    BY <2>1, <2>2
<1>4. DOMAIN rows = firsts
  BY <1>1
<1> HIDE DEF rows
<1>5. ASSUME NEW w \in Windows(c) PROVE \E i \in firsts : w = rows[i]
  <2>1. Min(w.prints) \in firsts
    BY <1>5
  <2>2. PICK i \in firsts : i = Min(w.prints)
    BY <2>1
  <2>3. rows[i] \in Windows(c) /\ i = Min(rows[i].prints)
    BY <1>3
  <2>4. w = Window(c, RunOf(c, i)) /\ rows[i] = Window(c, RunOf(c, i))
    BY <1>2, <2>2, <2>3
  <2> QED
    BY <2>4
<1>6. ASSUME NEW i \in firsts
      PROVE  /\ i \in Good(c) /\ rows[i] = Window(c, RunOf(c, i))
             /\ \A j \in RunOf(c, i) : i <= j
  BY <1>2, <1>3, <1>6
<1> QED
  BY <1>3, <1>4, <1>5, <1>6 DEF rows

\* That print opens the window, and another one of the pair closes it.
LEMMA OpenedAtRow ==
  ASSUME Month, NEW c \in Combos, NEW i \in DOMAIN WindowAt(c)
  PROVE  /\ i \in Kept(c) /\ i \in Prints
         /\ WindowAt(c)[i].open_ts = tape[i].ts /\ tape[i].ts \in Nat
         /\ WindowAt(c)[i].close_ts \in Nat /\ tape[i].ts <= WindowAt(c)[i].close_ts
         /\ \E n \in Kept(c) : WindowAt(c)[i].close_ts = tape[n].ts
<1> DEFINE w == Window(c, RunOf(c, i))
<1>1. i \in Good(c) /\ WindowAt(c)[i] = w /\ \A j \in RunOf(c, i) : i <= j
  BY RowsAre
<1>2. /\ RunOf(c, i) \subseteq Kept(c) /\ i \in RunOf(c, i)
      /\ w.open_ts \in Nat /\ w.close_ts \in Nat
      /\ w.open_ts <= tape[i].ts /\ NextTs(c, i) <= w.close_ts
  BY <1>1, WindowFacts
<1>3. PICK x \in RunOf(c, i) : w.open_ts = tape[x].ts
  BY <1>1, WindowFacts
<1>4. PICK z \in RunOf(c, i) : w.close_ts = NextTs(c, z)
  BY <1>1, WindowFacts
<1>5. /\ tape[i].ts <= tape[x].ts /\ tape[i].ts \in Nat /\ tape[x].ts \in Nat
      /\ i \in Kept(c) /\ i \in Prints
  BY <1>1, <1>2, KeptFacts
<1>6. NextTs(c, i) \in Nat /\ tape[i].ts <= NextTs(c, i)
  BY <1>2, NextFacts
<1>7. \E n \in Kept(c) : NextTs(c, z) = tape[n].ts
  BY <1>2, NextFacts
<1> HIDE DEF w
<1> QED
  BY <1>1, <1>2, <1>3, <1>4, <1>5, <1>6, <1>7

\* The moments a pair's windows are open.
LEMMA OpenMoments ==
  ASSUME Month, NEW c \in Combos
  PROVE  /\ UNION {{t \in 1..LastMs : Inside(w, t)} : w \in Windows(c)} = {t \in 1..LastMs : Covered(c, t)}
         /\ \A t \in Nat, i \in DOMAIN WindowAt(c) : Inside(WindowAt(c)[i], t) => t \in 1..LastMs
<1>1. ASSUME NEW t \in Nat, NEW i \in DOMAIN WindowAt(c), Inside(WindowAt(c)[i], t)
      PROVE  t \in 1..LastMs
  <2>1. PICK n \in Kept(c) : WindowAt(c)[i].close_ts = tape[n].ts
    BY OpenedAtRow
  <2>2. /\ i \in Kept(c) /\ 1 <= tape[i].ts /\ tape[i].ts \in Nat
        /\ tape[n].ts \in Nat /\ tape[n].ts <= now
    BY OpenedAtRow, KeptFacts
  <2>3. tape[i].ts <= t /\ t < tape[n].ts
    BY <1>1, <2>1, OpenedAtRow DEF Inside
  <2>4. now \in Nat /\ now <= LastMs /\ LastMs \in Nat
    BY WindowsAssumption DEF Month
  <2> QED
    BY <2>2, <2>3, <2>4
<1>2. UNION {{t \in 1..LastMs : Inside(w, t)} : w \in Windows(c)} = {t \in 1..LastMs : Covered(c, t)}
  BY DEF Covered
<1> QED
  BY <1>1, <1>2

\* As no moment is in three windows, the durations of those opened so far add up to the
\* moments that are in one of them, and once more those that are in two: by induction over
\* the prints that open one.
LEMMA MomentsAddUp ==
  ASSUME Month, NEW c \in Combos
  PROVE  LET open == {t \in 1..LastMs : Covered(c, t)}
         IN  /\ IsFiniteSet(open) /\ Cardinality(open) <= TotalMs(c)
             /\ TotalMs(c) <= Cardinality(open) + Cardinality({t \in open : Shared(c, t)})
<1> DEFINE N == Len(tape)
           rows == WindowAt(c)
           f == [i \in Prints |-> IF i \in DOMAIN rows THEN Duration(rows[i]) ELSE 0]
           Open(n) == {t \in Nat : \E j \in DOMAIN rows : j <= n /\ Inside(rows[j], t)}
           Twice(n) == {t \in Nat : \E j, k \in DOMAIN rows :
                                       j < k /\ k <= n /\ Inside(rows[j], t) /\ Inside(rows[k], t)}
           holds == {n \in Nat : n <= N => /\ IsFiniteSet(Open(n)) /\ IsFiniteSet(Twice(n))
                                           /\ Cardinality(Open(n)) + Cardinality(Twice(n)) = SumTo(f, n)}
<1>1. N \in Nat /\ Prints = 1..N
  BY MonthTypes
<1>2. \A i \in DOMAIN rows :
         /\ i \in Prints /\ i \in Nat /\ i # 0 /\ i <= N /\ rows[i] \in Windows(c)
         /\ tape[i].ts \in Nat /\ rows[i].open_ts = tape[i].ts
         /\ rows[i].close_ts \in Nat /\ tape[i].ts <= rows[i].close_ts
         /\ \A j \in DOMAIN rows : rows[j] = rows[i] => j = i
  BY <1>1, OpenedAtRow, RowsAre
<1> HIDE DEF rows
<1>3. 0 \in holds
  <2>1. SumTo(f, 0) = 0
    BY SumEquation
  <2>2. Open(0) = {} /\ Twice(0) = {}
    BY <1>2
  <2>3. IsFiniteSet({}) /\ Cardinality({}) = 0
    BY FS_EmptySet
  <2> HIDE DEF f, Open, Twice
  <2>4. Cardinality(Open(0)) = 0 /\ Cardinality(Twice(0)) = 0
    BY <2>2, <2>3
  <2>5. Cardinality(Open(0)) + Cardinality(Twice(0)) = SumTo(f, 0)
    BY <2>1, <2>4
  <2>6. 0 \in Nat /\ IsFiniteSet(Open(0)) /\ IsFiniteSet(Twice(0))
    BY <2>2, <2>3
  <2> QED
    BY <2>5, <2>6
<1>4. ASSUME NEW n \in holds PROVE n + 1 \in holds
  <2>1. n \in Nat /\ n + 1 \in Nat
    OBVIOUS
  <2>2. SUFFICES ASSUME n + 1 <= N
                 PROVE  /\ IsFiniteSet(Open(n + 1)) /\ IsFiniteSet(Twice(n + 1))
                        /\ Cardinality(Open(n + 1)) + Cardinality(Twice(n + 1)) = SumTo(f, n + 1)
    BY <2>1
  <2>3. SumTo(f, n + 1) = SumTo(f, n) + f[n + 1]
    BY <2>1, SumEquation
  <2>4. /\ IsFiniteSet(Open(n)) /\ IsFiniteSet(Twice(n))
        /\ Cardinality(Open(n)) + Cardinality(Twice(n)) = SumTo(f, n)
    BY <2>1, <2>2
  <2>5. n + 1 \in Prints
    BY <1>1, <2>1, <2>2
  <2>6. Cardinality(Open(n)) \in Nat /\ Cardinality(Twice(n)) \in Nat
    <3> HIDE DEF Open, Twice
    <3> QED
      BY <2>4, FS_CardinalityType
  <2>7. \A j \in DOMAIN rows : j <= n + 1 <=> j <= n \/ j = n + 1
    BY <1>2, <2>1
  <2>8. CASE n + 1 \notin DOMAIN rows
    <3>1. f[n + 1] = 0
      BY <2>5, <2>8
    <3>2. Open(n + 1) = Open(n) /\ Twice(n + 1) = Twice(n)
      BY <2>7, <2>8
    <3> HIDE DEF f, Open, Twice
    <3> QED
      BY <2>3, <2>4, <2>6, <3>1, <3>2
  <2>9. CASE n + 1 \in DOMAIN rows
    <3> DEFINE w == rows[n + 1]
               o == tape[n + 1].ts
               z == w.close_ts
               new == o..(z - 1)
               both == Open(n) \cap new
    <3>1. f[n + 1] = z - o /\ o \in Nat /\ z \in Nat /\ o <= z /\ w.open_ts = o
      BY <1>2, <2>5, <2>9 DEF Duration
    <3>2. (\A t \in Nat : Inside(w, t) <=> t \in new) /\ new \subseteq Nat
      BY <3>1 DEF Inside
    <3>3. \A j \in DOMAIN rows : j < n + 1 <=> j <= n
      BY <1>2, <2>1
    <3>4. Open(n + 1) = Open(n) \cup new
      <4>1. \A t \in Nat : t \in Open(n + 1) <=> t \in Open(n) \/ Inside(w, t)
        BY <2>7, <2>9
      <4>2. Open(n + 1) \subseteq Nat /\ Open(n) \subseteq Nat
        OBVIOUS
      <4> HIDE DEF Open, w, new
      <4> QED
        BY <3>2, <4>1, <4>2
    <3>5. Twice(n + 1) = Twice(n) \cup both
      <4>1. ASSUME NEW t \in Nat
            PROVE  t \in Twice(n + 1) <=> t \in Twice(n) \/ (t \in Open(n) /\ Inside(w, t))
        <5>1. ASSUME NEW j \in DOMAIN rows, NEW k \in DOMAIN rows, j < k, k <= n + 1,
                     Inside(rows[j], t), Inside(rows[k], t)
              PROVE  t \in Twice(n) \/ (t \in Open(n) /\ Inside(w, t))
          <6>1. k <= n \/ (k = n + 1 /\ j <= n)
            BY <2>7, <3>3, <5>1
          <6> QED
            BY <5>1, <6>1
        <5>2. ASSUME t \in Twice(n) PROVE t \in Twice(n + 1)
          BY <2>7, <5>2
        <5>3. ASSUME t \in Open(n), Inside(w, t) PROVE t \in Twice(n + 1)
          <6>1. PICK j \in DOMAIN rows : j <= n /\ Inside(rows[j], t)
            BY <5>3
          <6>2. j < n + 1 /\ n + 1 <= n + 1
            BY <2>1, <3>3, <6>1
          <6> QED
            BY <2>9, <5>3, <6>1, <6>2
        <5> QED
          BY <5>1, <5>2, <5>3
      <4>2. Twice(n + 1) \subseteq Nat /\ Twice(n) \subseteq Nat /\ Open(n) \subseteq Nat
        OBVIOUS
      <4> HIDE DEF Open, Twice, w, new
      <4> QED
        BY <3>2, <4>1, <4>2
    <3>6. Twice(n) \cap both = {}
      <4> SUFFICES ASSUME NEW t \in Twice(n), t \in new PROVE FALSE
        OBVIOUS
      <4>1. PICK j \in DOMAIN rows, k \in DOMAIN rows :
               j < k /\ k <= n /\ Inside(rows[j], t) /\ Inside(rows[k], t)
        OBVIOUS
      <4>2. t \in Nat /\ Inside(w, t) /\ k # n + 1 /\ j # n + 1 /\ j # k
        BY <1>2, <2>1, <3>2, <4>1
      <4>3. rows[j] # rows[k] /\ rows[j] # w /\ rows[k] # w
        BY <1>2, <2>9, <4>2
      <4>4. rows[j] \in Windows(c) /\ rows[k] \in Windows(c) /\ w \in Windows(c)
        BY <1>2, <2>9
      <4> HIDE DEF w
      <4> QED
        BY <4>1, <4>2, <4>3, <4>4, OpenTwice
    <3>7. IsFiniteSet(new) /\ Cardinality(new) = z - o
      <4>1. o \in Int /\ z - 1 \in Int
        BY <3>1
      <4>2. IsFiniteSet(new) /\ Cardinality(new) = IF o > z - 1 THEN 0 ELSE (z - 1) - o + 1
        BY <4>1, FS_Interval
      <4> HIDE DEF o, z, new
      <4> QED
        BY <3>1, <4>2
    <3> HIDE DEF f, Open, Twice, w, o, z, new
    <3>8. IsFiniteSet(both) /\ Cardinality(both) \in Nat
      <4>1. both \subseteq new
        OBVIOUS
      <4>2. IsFiniteSet(both)
        BY <3>7, <4>1, FS_Subset
      <4> QED
        BY <4>2, FS_CardinalityType
    <3>9. /\ IsFiniteSet(Open(n) \cup new)
          /\ Cardinality(Open(n) \cup new) = Cardinality(Open(n)) + Cardinality(new) - Cardinality(both)
      BY <2>4, <3>7, FS_Union
    <3> HIDE DEF both
    <3>10. /\ IsFiniteSet(Twice(n) \cup both)
           /\ Cardinality(Twice(n) \cup both) = Cardinality(Twice(n)) + Cardinality(both)
      <4>1. /\ IsFiniteSet(Twice(n) \cup both)
            /\ Cardinality(Twice(n) \cup both)
                 = Cardinality(Twice(n)) + Cardinality(both) - Cardinality(Twice(n) \cap both)
        BY <2>4, <3>8, FS_Union
      <4>2. Cardinality(Twice(n) \cap both) = 0
        BY <3>6, FS_EmptySet
      <4> QED
        BY <2>6, <3>8, <4>1, <4>2
    <3>11. Cardinality(Open(n + 1)) + Cardinality(Twice(n + 1)) = SumTo(f, n) + f[n + 1]
      <4> DEFINE p == Cardinality(Open(n))
                 q == Cardinality(Twice(n))
                 r == Cardinality(both)
      <4>1. Cardinality(Open(n + 1)) = p + Cardinality(new) - r
        BY <3>4, <3>9
      <4>2. Cardinality(Twice(n + 1)) = q + r
        BY <3>5, <3>10
      <4>3. p \in Nat /\ q \in Nat /\ r \in Nat /\ Cardinality(new) \in Nat
        BY <2>6, <3>7, <3>8, FS_CardinalityType
      <4>4. p + q = SumTo(f, n) /\ Cardinality(new) = f[n + 1]
        BY <2>4, <3>1, <3>7
      <4> HIDE DEF p, q, r
      <4> QED
        BY <4>1, <4>2, <4>3, <4>4
    <3> QED
      BY <2>3, <3>4, <3>5, <3>9, <3>10, <3>11
  <2> QED
    BY <2>8, <2>9
<1>5. holds = Nat
  <2>1. holds \in SUBSET Nat
    OBVIOUS
  <2> HIDE DEF holds
  <2> QED
    BY <1>3, <1>4, <2>1, NatIsLeast
<1>6. /\ IsFiniteSet(Open(N)) /\ IsFiniteSet(Twice(N))
      /\ Cardinality(Open(N)) + Cardinality(Twice(N)) = SumTo(f, N)
  <2>1. N \in holds
    BY <1>1, <1>5
  <2> QED
    BY <1>1, <2>1
<1> DEFINE open == {t \in 1..LastMs : Covered(c, t)}
           shared == {t \in open : Shared(c, t)}
<1>7. Open(N) = open
  <2>1. ASSUME NEW t \in Nat PROVE t \in Open(N) <=> Covered(c, t)
    BY <1>1, <1>2, RowsAre DEF Covered, rows
  <2>2. ASSUME NEW t \in Open(N) PROVE t \in 1..LastMs
    BY OpenMoments DEF rows
  <2>3. Open(N) \subseteq Nat /\ 1..LastMs \subseteq Nat
    BY WindowsAssumption
  <2> HIDE DEF Open
  <2> QED
    BY <2>1, <2>2, <2>3
<1>8. Twice(N) \subseteq shared
  <2> SUFFICES ASSUME NEW t \in Twice(N) PROVE t \in open /\ Shared(c, t)
    OBVIOUS
  <2>1. PICK j \in DOMAIN rows, k \in DOMAIN rows :
           j < k /\ k <= N /\ Inside(rows[j], t) /\ Inside(rows[k], t)
    OBVIOUS
  <2>2. t \in Nat /\ rows[j] # rows[k] /\ rows[j] \in Windows(c) /\ rows[k] \in Windows(c)
    BY <1>2, <2>1
  <2>3. Shared(c, t)
    BY <2>1, <2>2, OpenTwice
  <2>4. t \in Open(N)
    BY <2>1
  <2> QED
    BY <1>7, <2>3, <2>4
<1>9. TotalMs(c) = SumTo(f, N)
  BY DEF TotalMs, rows
<1>10. IsFiniteSet(shared) /\ Cardinality(Twice(N)) <= Cardinality(shared)
  <2>1. shared \subseteq open /\ IsFiniteSet(open)
    BY <1>6, <1>7
  <2>2. IsFiniteSet(shared)
    <3> HIDE DEF shared, open
    <3> QED
      BY <2>1, FS_Subset
  <2> HIDE DEF shared, Twice
  <2> QED
    BY <1>8, <2>2, FS_Subset
<1> HIDE DEF f, Open, Twice, open, shared
<1>11. /\ Cardinality(open) \in Nat /\ Cardinality(Twice(N)) \in Nat /\ Cardinality(shared) \in Nat
  BY <1>6, <1>7, <1>10, FS_CardinalityType
<1>12. /\ IsFiniteSet(open) /\ Cardinality(open) <= TotalMs(c)
       /\ TotalMs(c) <= Cardinality(open) + Cardinality(shared)
  BY <1>6, <1>7, <1>9, <1>10, <1>11
<1> QED
  BY <1>12 DEF open, shared

\* The moments a window is open rows lie between the first and the last print observed.
LEMMA FitsSpan ==
  ASSUME Month, NEW c \in Combos
  PROVE  Cardinality({t \in 1..LastMs : Covered(c, t)}) <= Span
<1> DEFINE open == {t \in 1..LastMs : Covered(c, t)}
<1>1. \A t \in open : t \in Nat /\ \E i, n \in Observed : tape[i].ts <= t /\ t < tape[n].ts
  <2> SUFFICES ASSUME NEW t \in open
               PROVE  t \in Nat /\ \E i, n \in Observed : tape[i].ts <= t /\ t < tape[n].ts
    OBVIOUS
  <2>1. PICK i \in DOMAIN WindowAt(c) : Inside(WindowAt(c)[i], t)
    BY RowsAre DEF Covered
  <2>2. PICK n \in Kept(c) : WindowAt(c)[i].close_ts = tape[n].ts
    BY OpenedAtRow
  <2>3. i \in Observed /\ n \in Observed /\ tape[i].ts <= t /\ t < tape[n].ts
    BY <2>1, <2>2, OpenedAtRow, KeptFacts DEF Inside
  <2> QED
    BY <2>3, WindowsAssumption
<1>2. CASE Observed = {}
  <2>1. open = {} /\ Span = 0
    BY <1>1, <1>2 DEF Span, SpanOf
  <2> HIDE DEF open
  <2>2. Cardinality(open) <= Span
    BY <2>1, FS_EmptySet
  <2> QED
    BY <2>2 DEF open
<1>3. CASE Observed # {}
  <2> DEFINE ts == {tape[i].ts : i \in Observed}
  <2>1. Observed \subseteq Prints /\ now \in Nat /\ \A i \in Prints : tape[i].ts \in 1..now
    BY MonthTypes DEF Observed, PrintsWithin
  <2>2. ts \in SUBSET Nat /\ ts # {} /\ \A y \in ts : y <= now
    BY <1>3, <2>1
  <2>3. Span = Max(ts) - Min(ts)
    BY <1>3 DEF Span, SpanOf
  <2>4. /\ Min(ts) \in ts /\ (\A y \in ts : Min(ts) <= y)
        /\ Max(ts) \in ts /\ (\A y \in ts : y <= Max(ts))
    <3> HIDE DEF ts
    <3> QED
      BY <2>1, <2>2, MinLeast, MaxGreatest
  <2>5. \A i \in Observed : tape[i].ts \in ts
    OBVIOUS
  <2> HIDE DEF ts
  <2>6. Min(ts) \in Nat /\ Max(ts) \in Nat
    BY <2>2, <2>4
  <2>7. Min(ts) <= Max(ts)
    BY <2>4
  <2> DEFINE time == Min(ts)..(Max(ts) - 1)
  <2>8. open \subseteq time
    <3> SUFFICES ASSUME NEW t \in open PROVE t \in time
      OBVIOUS
    <3>1. PICK i \in Observed, n \in Observed : t \in Nat /\ tape[i].ts <= t /\ t < tape[n].ts
      BY <1>1
    <3>2. /\ Min(ts) <= tape[i].ts /\ tape[i].ts \in Nat
          /\ tape[n].ts <= Max(ts) /\ tape[n].ts \in Nat
      BY <2>2, <2>4, <2>5
    <3> QED
      BY <2>6, <3>1, <3>2
  <2>9. IsFiniteSet(time) /\ Cardinality(time) = Max(ts) - Min(ts)
    <3>1. Min(ts) \in Int /\ Max(ts) - 1 \in Int
      BY <2>6
    <3>2. /\ IsFiniteSet(time)
          /\ Cardinality(time) = IF Min(ts) > Max(ts) - 1 THEN 0 ELSE (Max(ts) - 1) - Min(ts) + 1
      BY <3>1, FS_Interval
    <3> HIDE DEF time
    <3> QED
      BY <2>6, <2>7, <3>2
  <2> HIDE DEF open, time
  <2>10. Cardinality(open) <= Cardinality(time)
    BY <2>8, <2>9, FS_Subset
  <2> QED
    BY <2>3, <2>9, <2>10 DEF open
<1> QED
  BY <1>2, <1>3

\* _summarise: the durations of a pair add up to the number of moments at which one of its
\* windows is open, which is no more than the time observed; and what they count beyond it,
\* they count once more where the last prints share a millisecond.
THEOREM NoMomentTwice == Spec => []TimeCountedOnceUnlessShared
<1>1. ASSUME Month, NEW c \in Combos
      PROVE  LET open == UNION {{t \in 1..LastMs : Inside(w, t)} : w \in Windows(c)}
             IN  /\ Cardinality(open) <= TotalMs(c)
                 /\ TotalMs(c) <= Cardinality(open) + Cardinality({t \in open : Shared(c, t)})
                 /\ Cardinality(open) <= Span
  <2> DEFINE open == {t \in 1..LastMs : Covered(c, t)}
  <2>1. UNION {{t \in 1..LastMs : Inside(w, t)} : w \in Windows(c)} = open
    BY <1>1, OpenMoments
  <2>2. /\ Cardinality(open) <= TotalMs(c)
        /\ TotalMs(c) <= Cardinality(open) + Cardinality({t \in open : Shared(c, t)})
    BY <1>1, MomentsAddUp
  <2>3. Cardinality(open) <= Span
    BY <1>1, FitsSpan
  <2> HIDE DEF open
  <2> QED
    BY <2>1, <2>2, <2>3
<1>2. Month => TimeCountedOnceUnlessShared
  BY <1>1 DEF TimeCountedOnceUnlessShared
<1> QED
  BY <1>2, MonthInvariance, PTL

-----------------------------------------------------------------------------
(* Verdict: the time a profit took is time that was carried. *)

\* Adding up zeros.
LEMMA SumOfNothing ==
  ASSUME NEW N \in Nat, NEW f, \A i \in 1..N : f[i] = 0
  PROVE  SumTo(f, N) = 0
<1> DEFINE none == {n \in Nat : n <= N => SumTo(f, n) = 0}
<1>1. 0 \in none
  BY SumEquation
<1>2. ASSUME NEW n \in none PROVE n + 1 \in none
  <2>1. n \in Nat /\ n + 1 \in Nat
    OBVIOUS
  <2>2. SUFFICES ASSUME n + 1 <= N PROVE SumTo(f, n + 1) = 0
    BY <2>1
  <2>3. SumTo(f, n) = 0 /\ f[n + 1] = 0
    BY <2>1, <2>2
  <2>4. SumTo(f, n + 1) = SumTo(f, n) + f[n + 1]
    BY <2>1, SumEquation
  <2> QED
    BY <2>3, <2>4
<1>3. none = Nat
  <2>1. none \in SUBSET Nat
    OBVIOUS
  <2> HIDE DEF none
  <2> QED
    BY <1>1, <1>2, <2>1, NatIsLeast
<1>4. N \in none
  BY <1>3
<1> QED
  BY <1>4

\* The time between two prints that were assigned to a block is within the span the carry
\* is charged for, which runs over the chain's blocks.
LEMMA TimeIsCarried ==
  ASSUME Month
  PROVE  /\ IvSpan \in Nat
         /\ \A i, j \in Observed : tape[j].ts - tape[i].ts <= IvSpan
<1> DEFINE ts == {changes[b].ts : b \in PoolBlocks}
<1>1. IvSpan = IF ts = {} THEN 0 ELSE Max(ts) - Min(ts)
  BY DEF IvSpan
<1>2. Observed = IF ts = {} THEN {} ELSE {i \in Prints : Min(ts) <= tape[i].ts /\ tape[i].ts <= Max(ts)}
  BY DEF Observed, PrintsWithin
<1>3. ts \in SUBSET Nat /\ now \in Nat /\ \A y \in ts : y <= now
  <2>1. PoolBlocks \subseteq DOMAIN changes
    BY DEF PoolBlocks, Rows
  <2>2. now \in Nat /\ \A b \in DOMAIN changes : changes[b].ts \in Nat /\ changes[b].ts <= now
    BY MonthTypes
  <2> QED
    BY <2>1, <2>2
<1> HIDE DEF ts
<1>4. CASE ts = {}
  BY <1>1, <1>2, <1>4
<1>5. CASE ts # {}
  <2>1. /\ Min(ts) \in ts /\ (\A y \in ts : Min(ts) <= y)
        /\ Max(ts) \in ts /\ (\A y \in ts : y <= Max(ts))
    BY <1>3, <1>5, MinLeast, MaxGreatest
  <2>2. Min(ts) \in Nat /\ Max(ts) \in Nat
    BY <1>3, <2>1
  <2>3. Min(ts) <= Max(ts)
    BY <2>1
  <2>4. IvSpan = Max(ts) - Min(ts)
    BY <1>1, <1>5
  <2>5. \A i \in Observed : Min(ts) <= tape[i].ts /\ tape[i].ts <= Max(ts) /\ tape[i].ts \in Nat
    BY <1>2, <1>5, MonthTypes
  <2>6. IvSpan \in Nat
    BY <2>2, <2>3, <2>4
  <2>7. ASSUME NEW i \in Observed, NEW j \in Observed PROVE tape[j].ts - tape[i].ts <= IvSpan
    <3>1. /\ Min(ts) <= tape[i].ts /\ tape[i].ts \in Nat
          /\ tape[j].ts <= Max(ts) /\ tape[j].ts \in Nat
      BY <2>5
    <3> QED
      BY <2>2, <2>4, <3>1
  <2> QED
    BY <2>6, <2>7
<1> QED
  BY <1>4, <1>5

\* Some print of a run is the first one in each of the SQL's orders: by induction over the
\* length of the tape its prints are taken from.
LEMMA FirstExists ==
  ASSUME Month, NEW c \in Combos, NEW o \in Orders, NEW S \in SUBSET Prints, S # {}
  PROVE  \E i \in S : \A j \in S : j = i \/ Before(c, o, i, j)
<1> DEFINE First(T) == \E i \in T : \A j \in T : j = i \/ Before(c, o, i, j)
           holds == {n \in Nat : \A T \in SUBSET Prints : T # {} /\ (\A i \in T : i <= n) => First(T)}
<1>1. Len(tape) \in Nat /\ Prints = 1..Len(tape)
  BY MonthTypes
<1>2. 0 \in holds
  <2>1. ASSUME NEW T \in SUBSET Prints, T # {}, \A i \in T : i <= 0 PROVE FALSE
    <3>1. PICK i \in T : TRUE
      BY <2>1
    <3>2. i \in 1..Len(tape) /\ i <= 0
      BY <1>1, <2>1
    <3> QED
      BY <1>1, <3>2
  <2> HIDE DEF First
  <2> QED
    BY <2>1
<1>3. ASSUME NEW n \in holds PROVE n + 1 \in holds
  <2>1. n \in Nat /\ n + 1 \in Nat
    OBVIOUS
  <2>2. SUFFICES ASSUME NEW T \in SUBSET Prints, T # {}, \A i \in T : i <= n + 1 PROVE First(T)
    BY <2>1
  <2> DEFINE rest == T \ {n + 1}
  <2>3. rest \in SUBSET Prints /\ \A i \in rest : i <= n
    <3>1. \A i \in rest : i \in 1..Len(tape) /\ i <= n + 1 /\ i # n + 1
      BY <1>1, <2>2
    <3>2. \A i \in rest : i <= n
      BY <1>1, <2>1, <3>1
    <3> QED
      BY <3>2
  <2>4. CASE rest = {}
    <3>1. T = {n + 1}
      BY <2>2, <2>4
    <3> QED
      BY <3>1
  <2>5. CASE rest # {}
    <3>1. PICK i \in rest : \A j \in rest : j = i \/ Before(c, o, i, j)
      BY <2>1, <2>3, <2>5
    <3>2. CASE n + 1 \notin T \/ Before(c, o, i, n + 1)
      BY <3>1, <3>2
    <3>3. CASE n + 1 \in T /\ Before(c, o, n + 1, i)
      <4>1. \A j \in rest : Before(c, o, n + 1, j)
        BY <2>2, <2>3, <3>1, <3>3, BeforeOrder
      <4> QED
        BY <3>3, <4>1
    <3>4. n + 1 \in T => Before(c, o, i, n + 1) \/ Before(c, o, n + 1, i)
      BY <2>2, <2>3, <3>1, BeforeOrder
    <3> QED
      BY <3>2, <3>3, <3>4
  <2> QED
    BY <2>4, <2>5
<1>4. holds = Nat
  <2>1. holds \in SUBSET Nat
    OBVIOUS
  <2> HIDE DEF holds
  <2> QED
    BY <1>2, <1>3, <2>1, NatIsLeast
<1>5. Len(tape) \in holds
  BY <1>1, <1>4
<1>6. \A i \in S : i <= Len(tape)
  BY <1>1
<1> QED
  BY <1>5, <1>6

\* A profit is a sum of gains: there is one just if there is a window to reach, and
\* none where no time is carried.
LEMMA UncapturedFacts ==
  ASSUME Month, NEW c \in Combos
  PROVE  /\ UncapturedActionable(c) \in Nat
         /\ UncapturedActionable(c) = 0 <=> Actionable(c) = {}
         /\ IvSpan = 0 => Actionable(c) = {}
<1> DEFINE N == Len(tape)
           rows == WindowAt(c)
           reached == {i \in DOMAIN rows : Duration(rows[i]) >= ActionableMs}
           f == [i \in Prints |-> IF i \in reached THEN AtOpen(c, rows[i]) ELSE 0]
<1>1. N \in Nat /\ Prints = 1..N /\ UncapturedActionable(c) = SumTo(f, N)
  <2>1. f = [i \in Prints |-> IF i \in DOMAIN rows /\ Duration(rows[i]) >= ActionableMs
                               THEN AtOpen(c, rows[i]) ELSE 0]
    OBVIOUS
  <2>2. UncapturedActionable(c) = SumTo(f, N)
    BY <2>1 DEF UncapturedActionable, Profits
  <2> QED
    BY <2>2, MonthTypes
<1> HIDE DEF rows
<1>2. ASSUME NEW i \in reached PROVE i \in Prints /\ AtOpen(c, rows[i]) \in Nat \ {0}
  <2> DEFINE run == RunOf(c, i)
             First(j) == \A k \in run : k = j \/ Before(c, "first", j, k)
             m == CHOOSE j \in run : First(j)
  <2>1. i \in Good(c) /\ i \in Prints
    BY RowsAre, OpenedAtRow DEF rows
  <2>2. run \subseteq Good(c) /\ run \subseteq Kept(c) /\ i \in run /\ rows[i].prints = run
    BY <2>1, RowsAre, WindowFacts DEF rows
  <2>3. m \in run
    <3>1. \E j \in run : First(j)
      BY <2>2, KeptFacts, FirstExists DEF Orders
    <3> QED
      BY <3>1
  <2>4. AtOpen(c, rows[i]) = ProfitUsd(c, m)
    BY <2>2 DEF AtOpen
  <2> HIDE DEF run, m
  <2>5. m \in Kept(c) /\ m \in Prints /\ Prof(c, m)
    BY <2>2, <2>3, KeptFacts, KeptIs
  <2>6. BlockOf(m) \in DOMAIN changes /\ c \in DOMAIN changes[BlockOf(m)].breakeven
    BY <2>5, KeptIs DEF Rows
  <2>7. PICK b \in Blocks : changes[BlockOf(m)].breakeven = b.breakeven
    BY <2>6, MonthTypes DEF Priceable
  <2>8. changes[BlockOf(m)].breakeven[c] \in Nat
    <3>1. c \in DOMAIN b.breakeven
      BY <2>6, <2>7
    <3>2. b.breakeven[c] \in Nat
      BY <3>1, WindowsAssumption
    <3> QED
      BY <2>7, <3>2
  <2>9. tape[m].mid \in Nat
    <3>1. tape[m].mid \in Mids
      BY <2>5, MonthTypes
    <3>2. \A x \in Mids : x \in Nat
      BY WindowsAssumption
    <3> QED
      BY <3>1, <3>2
  <2>10. c.size_usd \in Nat \ {0}
    BY VerdictAssumption
  <2> DEFINE gain == IF c.direction = "A" THEN tape[m].mid - changes[BlockOf(m)].breakeven[c]
                                          ELSE changes[BlockOf(m)].breakeven[c] - tape[m].mid
  <2>11. gain \in Nat \ {0}
    BY <2>5, <2>8, <2>9 DEF Prof, Pays
  <2>12. ProfitUsd(c, m) = c.size_usd * gain
    BY DEF ProfitUsd
  <2> HIDE DEF gain
  <2>13. c.size_usd * gain \in Nat \ {0}
    BY <2>10, <2>11, Positive
  <2> QED
    BY <2>1, <2>4, <2>12, <2>13
<1>3. f \in [1..N -> Nat]
  <2>1. \A i \in Prints : (IF i \in reached THEN AtOpen(c, rows[i]) ELSE 0) \in Nat
    BY <1>2
  <2> QED
    BY <1>1, <2>1
<1>4. SumTo(f, N) \in Nat
  <2> HIDE DEF f
  <2> QED
    BY <1>1, <1>3, SumType
<1>5. ASSUME NEW i \in reached PROVE SumTo(f, N) # 0
  <2>1. i \in 1..N /\ f[i] \in Nat \ {0}
    BY <1>1, <1>2
  <2> HIDE DEF f
  <2>2. i - 1 \in Nat /\ (i - 1) + 1 = i /\ i - 1 \in 0..N /\ i \in 0..N /\ N \in i..N
    BY <1>1, <2>1
  <2>3. SumTo(f, i) = SumTo(f, i - 1) + f[i]
    BY <2>2, SumEquation
  <2>4. SumTo(f, i - 1) \in Nat /\ SumTo(f, i) \in Nat
    BY <1>1, <1>3, <2>2, SumType
  <2>5. SumTo(f, i) <= SumTo(f, N)
    BY <1>1, <1>3, <2>2, SumGrows
  <2> QED
    BY <1>4, <2>1, <2>3, <2>4, <2>5
<1>6. ASSUME reached = {} PROVE SumTo(f, N) = 0
  <2>1. \A i \in 1..N : f[i] = 0
    BY <1>1, <1>6
  <2> HIDE DEF f
  <2> QED
    BY <1>1, <2>1, SumOfNothing
<1>7. Actionable(c) = {} <=> reached = {}
  BY RowsAre DEF Actionable, rows
<1>8. ASSUME IvSpan = 0, NEW i \in reached PROVE FALSE
  <2>1. PICK n \in Kept(c) : rows[i].close_ts = tape[n].ts
    BY OpenedAtRow DEF rows
  <2>2. /\ i \in Kept(c) /\ rows[i].open_ts = tape[i].ts
        /\ tape[i].ts \in Nat /\ tape[n].ts \in Nat
    BY OpenedAtRow, KeptFacts DEF rows
  <2>3. tape[n].ts - tape[i].ts <= 0
    BY <1>8, <2>1, <2>2, KeptFacts, TimeIsCarried
  <2>4. tape[n].ts - tape[i].ts >= ActionableMs
    BY <2>1, <2>2 DEF Duration
  <2>5. ActionableMs \in Nat /\ ActionableMs # 0
    BY VerdictAssumption
  <2> QED
    BY <2>2, <2>3, <2>4, <2>5
<1> HIDE DEF f, reached
<1> QED
  BY <1>1, <1>4, <1>5, <1>6, <1>7, <1>8

\* A rung with a window to reach has a profit to weigh, and a carry to weigh it against.
LEMMA CarryFacts ==
  ASSUME Month, NEW s \in Rungs
  PROVE  /\ U(s) \in Nat /\ Carry(s) \in Nat
         /\ U(s) = 0 <=> \A c \in Combos : c.size_usd = s => Actionable(c) = {}
         /\ U(s) > 0 => Carry(s) > 0
<1>1. s \in Nat \ {0} /\ CarryRate \in Nat \ {0} /\ IvSpan \in Nat
  BY VerdictAssumption, TimeIsCarried DEF Rungs
<1> DEFINE Pair(d) == [direction |-> d, size_usd |-> s]
           Out(d) == Pair(d) \in Combos => Actionable(Pair(d)) = {}
<1>2. ASSUME NEW d \in {"A", "B"}
      PROVE  /\ Uncaptured(d, s) \in Nat
             /\ Uncaptured(d, s) = 0 <=> Out(d)
             /\ IvSpan = 0 => Out(d)
  <2>1. Uncaptured(d, s) = IF Pair(d) \in Combos THEN UncapturedActionable(Pair(d)) ELSE 0
    BY DEF Uncaptured
  <2> HIDE DEF Pair
  <2> QED
    BY <2>1, UncapturedFacts
<1>3. (\A c \in Combos : c.size_usd = s => Actionable(c) = {}) <=> Out("A") /\ Out("B")
  <2>1. ASSUME NEW c \in Combos, c.size_usd = s PROVE c = Pair("A") \/ c = Pair("B")
    <3>1. c \in [direction: {"A", "B"}, size_usd: Nat \ {0}]
      BY VerdictAssumption
    <3> QED
      BY <2>1, <3>1
  <2>2. Pair("A").size_usd = s /\ Pair("B").size_usd = s
    OBVIOUS
  <2> HIDE DEF Pair
  <2> QED
    BY <2>1, <2>2
<1>4. /\ Uncaptured("A", s) \in Nat /\ (Uncaptured("A", s) = 0 <=> Out("A")) /\ (IvSpan = 0 => Out("A"))
      /\ Uncaptured("B", s) \in Nat /\ (Uncaptured("B", s) = 0 <=> Out("B")) /\ (IvSpan = 0 => Out("B"))
  BY <1>2
<1> HIDE DEF Pair, Out
<1>5. U(s) \in Nat /\ (U(s) = 0 <=> Out("A") /\ Out("B"))
  BY <1>4 DEF U
<1> DEFINE rate == s * CarryRate
<1>6. rate \in Nat \ {0}
  BY <1>1, Positive
<1>7. Carry(s) = rate * IvSpan
  BY DEF Carry
<1> HIDE DEF rate
<1>8. Carry(s) \in Nat /\ (IvSpan # 0 => Carry(s) > 0)
  BY <1>1, <1>6, <1>7
<1> QED
  BY <1>1, <1>3, <1>4, <1>5, <1>8

\* A ladder has a largest rung: by induction over the number of pairs.
LEMMA RungsAreBounded ==
  \E top \in Nat : \A s \in Rungs : s \in Nat /\ s <= top
<1> DEFINE holds == {n \in Nat : \A S \in SUBSET Combos :
                        IsFiniteSet(S) /\ Cardinality(S) = n
                           => \E top \in Nat : \A c \in S : c.size_usd <= top}
<1>1. \A c \in Combos : c.size_usd \in Nat
  BY VerdictAssumption
<1>2. 0 \in holds
  <2>1. ASSUME NEW S, IsFiniteSet(S), Cardinality(S) = 0 PROVE S = {}
    BY <2>1, FS_EmptySet
  <2> QED
    BY <2>1
<1>3. ASSUME NEW n \in holds PROVE n + 1 \in holds
  <2>1. n \in Nat /\ n + 1 \in Nat /\ n + 1 # 0 /\ (n + 1) - 1 = n
    OBVIOUS
  <2>2. SUFFICES ASSUME NEW S \in SUBSET Combos, IsFiniteSet(S), Cardinality(S) = n + 1
                 PROVE  \E top \in Nat : \A c \in S : c.size_usd <= top
    BY <2>1
  <2>3. PICK x \in S : TRUE
    BY <2>1, <2>2, FS_EmptySet
  <2>4. S \ {x} \in SUBSET Combos /\ IsFiniteSet(S \ {x}) /\ Cardinality(S \ {x}) = n
    BY <2>1, <2>2, <2>3, FS_RemoveElement
  <2>5. PICK low \in Nat : \A c \in S \ {x} : c.size_usd <= low
    BY <2>4
  <2>6. x.size_usd \in Nat /\ low + x.size_usd \in Nat
    BY <1>1, <2>3
  <2>7. \A c \in S : c.size_usd <= low + x.size_usd
    BY <1>1, <2>2, <2>3, <2>5, <2>6
  <2> QED
    BY <2>6, <2>7
<1>4. holds = Nat
  <2>1. holds \in SUBSET Nat
    OBVIOUS
  <2> HIDE DEF holds
  <2> QED
    BY <1>2, <1>3, <2>1, NatIsLeast
<1>5. IsFiniteSet(Combos) /\ Cardinality(Combos) \in Nat
  BY VerdictAssumption, FS_CardinalityType
<1>6. PICK top \in Nat : \A c \in Combos : c.size_usd <= top
  BY <1>4, <1>5
<1>7. \A s \in Rungs : s \in Nat /\ s <= top
  BY <1>1, <1>6 DEF Rungs
<1> QED
  BY <1>7

\* What _rungs names, of whatever rungs: all of them, and others only in between.
LEMMA NamesThosePassed ==
  ASSUME NEW sizes \in SUBSET Rungs
  PROVE  /\ sizes \subseteq Named(sizes)
         /\ \A s \in Named(sizes) \ sizes : \E x, y \in sizes : x < s /\ s < y
<1>1. CASE Cardinality(sizes) <= 1
  BY <1>1 DEF Named
<1>2. CASE ~(Cardinality(sizes) <= 1)
  <2>1. PICK top \in Nat : \A s \in Rungs : s \in Nat /\ s <= top
    BY RungsAreBounded
  <2>2. sizes # {}
    BY <1>2, FS_EmptySet
  <2>3. sizes \in SUBSET Nat /\ Rungs \in SUBSET Nat /\ Rungs # {} /\ \A s \in sizes : s <= top
    BY <2>1, <2>2
  <2>4. /\ Min(sizes) \in sizes /\ (\A s \in sizes : Min(sizes) <= s)
        /\ Max(sizes) \in sizes /\ (\A s \in sizes : s <= Max(sizes))
        /\ \A s \in Rungs : Min(Rungs) <= s
    BY <2>2, <2>3, MinLeast, MaxGreatest
  <2>5. Named(sizes) = IF Min(sizes) = Min(Rungs) THEN {s \in Rungs : s <= Max(sizes)}
                       ELSE {s \in Rungs : Min(sizes) <= s /\ s <= Max(sizes)}
    BY <1>2 DEF Named
  <2>6. \A s \in sizes : s \in Named(sizes)
    BY <2>4, <2>5
  <2>7. ASSUME NEW s \in Named(sizes), s \notin sizes
        PROVE  Min(sizes) < s /\ s < Max(sizes)
    <3>1. s \in Rungs /\ s <= Max(sizes) /\ Min(sizes) <= s
      BY <2>4, <2>5
    <3>2. s # Min(sizes) /\ s # Max(sizes)
      BY <2>4, <2>7
    <3>3. s \in Nat /\ Min(sizes) \in Nat /\ Max(sizes) \in Nat
      BY <2>3, <2>4, <3>1
    <3> QED
      BY <3>1, <3>2, <3>3
  <2> QED
    BY <2>4, <2>6, <2>7
<1> QED
  BY <1>1, <1>2

\* A verdict of the table is one of the two good ones just if the rung clears its carry.
LEMMA Agrees == Month => VerdictsAgree
<1> SUFFICES ASSUME Month PROVE VerdictsAgree
  OBVIOUS
<1>1. ASSUME NEW s \in Rungs
      PROVE  /\ VerdictOf(s) # "division by zero"
             /\ VerdictOf(s) = "no profit at all" <=> U(s) = 0
             /\ VerdictOf(s) \in {"clears", "marginal"} <=> s \in Clears
  <2> DEFINE u == U(s)
             carry == Carry(s)
  <2>1. u \in Nat /\ carry \in Nat /\ (u > 0 => carry > 0)
    BY CarryFacts
  <2>2. s \in Clears <=> RatioAbove1(u, carry)
    BY DEF Clears
  <2>3. VerdictOf(s) = IF u <= 0 THEN "no profit at all"
                       ELSE IF RatioAtLeast(u, carry, 2) THEN "clears"
                       ELSE IF RatioAbove1(u, carry) THEN "marginal"
                       ELSE IF carry > 0 THEN "short" ELSE "division by zero"
    BY DEF VerdictOf, Judged
  <2> HIDE DEF u, carry
  <2>4. RatioAbove1(u, carry) <=> carry > 0 /\ u > carry
    BY DEF RatioAbove1
  <2>5. RatioAtLeast(u, carry, 2) <=> carry > 0 /\ u >= 2 * carry
    BY DEF RatioAtLeast
  <2>6. /\ RatioAtLeast(u, carry, 2) => RatioAbove1(u, carry)
        /\ RatioAbove1(u, carry) => ~(u <= 0)
    BY <2>1, <2>4, <2>5
  <2>7. (~(u <= 0) => carry > 0) /\ (u <= 0 <=> u = 0)
    BY <2>1
  <2>8. /\ VerdictOf(s) # "division by zero"
        /\ VerdictOf(s) = "no profit at all" <=> u = 0
        /\ VerdictOf(s) \in {"clears", "marginal"} <=> s \in Clears
    BY <2>2, <2>3, <2>6, <2>7
  <2> QED
    BY <2>8 DEF u
<1> DEFINE reached == UNION {{c.size_usd : w \in Actionable(c)} : c \in Combos}
           verdicts == {<<s, VerdictOf(s)>> : s \in Rungs}
           given(v) == {s \in Rungs : <<s, v>> \in verdicts}
<1>2. \A v : given(v) = {s \in Rungs : VerdictOf(s) = v}
  OBVIOUS
<1>3. \A s \in Rungs : s \in reached <=> ~(\A c \in Combos : c.size_usd = s => Actionable(c) = {})
  OBVIOUS
<1> HIDE DEF verdicts, reached, given
<1>4. given("division by zero") = {} /\ given("no profit at all") = Rungs \ reached
  BY <1>1, <1>2, <1>3, CarryFacts
<1>5. BottomLine = "No" <=> given("clears") \cup given("marginal") = {}
  <2>1. BottomLine = "No" <=> Clears = {}
    BY DEF BottomLine
  <2>2. Clears \subseteq Rungs
    BY DEF Clears
  <2> QED
    BY <1>1, <1>2, <2>1, <2>2
<1>6. /\ Robust \subseteq Named(Robust)
      /\ \A s \in Named(Robust) \ Robust : \E x, y \in Robust : x < s /\ s < y
  <2>1. Robust \in SUBSET Rungs
    BY DEF Robust
  <2> QED
    BY <2>1, NamesThosePassed
<1> QED
  BY <1>4, <1>5, <1>6 DEF VerdictsAgree, given, verdicts, reached

\* _carry_table, _rungs and _write_md: no rung's verdict divides by a ratio of 0, so the
\* report is written; "no profit at all" is said just of the rungs without a window to
\* reach; the bottom line says "No" just if no rung of the table has a good verdict, and
\* the phrase for the rungs that pass twice over leaves none of them out.
THEOREM VerdictsTellOneStory == Spec => []VerdictsAgree
BY MonthInvariance, Agrees, PTL
=============================================================================
