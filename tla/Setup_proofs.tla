---------------------------- MODULE Setup_proofs ----------------------------
(***************************************************************************)
(* Proofs about Options, Serializers and Setup, for any owners, options,   *)
(* values and types.  First the recursive checks of values and types: by   *)
(* induction over the levels that are left, they accept what is fine to    *)
(* that many levels.  Then the inductive invariant of the options: Types   *)
(* says that every SerializationConfig is one of Limits, which the checks  *)
(* can be trusted with, and Uses how the registrations and the count of    *)
(* applications belong together: a serializer whose option was applied     *)
(* once is registered with one owner at most, so that no other owner       *)
(* configures it.                                                          *)
(***************************************************************************)
EXTENDS Setup, WellFoundedInduction, TLAPS

(* Induction and recursion over the natural numbers                        *)

\* A set of natural numbers has a least element.
LEMMA LeastElement ==
  ASSUME NEW T \in SUBSET Nat, T # {}
  PROVE  \E n \in T : \A m \in T : n <= m
<1> DEFINE R == OpToRel(<, Nat)
<1>1. IsWellFoundedOn(R, Nat)
  BY NatLessThanWellFounded
<1>2. \A m, n \in Nat : m < n => <<m, n>> \in R
  BY DEF OpToRel
<1> HIDE DEF R
<1>3. PICK n \in T : \A m \in T : ~ (<<m, n>> \in R)
  BY <1>1, WFMin
<1>4. n \in Nat /\ \A m \in T : m \in Nat /\ ~ (m < n)
  BY <1>2, <1>3
<1>5. \A m \in T : n <= m
  BY <1>4
<1> QED BY <1>5

\* Induction over the natural numbers, in terms of a set.
LEMMA SetInduction ==
  ASSUME NEW S \in SUBSET Nat, 0 \in S, \A n \in S : n + 1 \in S
  PROVE  S = Nat
<1> SUFFICES ASSUME Nat \ S # {} PROVE FALSE
  OBVIOUS
<1>1. PICK n \in Nat \ S : \A m \in Nat \ S : n <= m
  BY LeastElement
<1>2. n # 0 /\ n - 1 \in Nat /\ n = (n - 1) + 1
  BY <1>1
<1>3. n - 1 \in S
  BY <1>1, <1>2
<1> QED BY <1>1, <1>2, <1>3

\* A function that is defined by recursion over the natural numbers exists.
LEMMA Iteration ==
  ASSUME NEW S, NEW a \in S, NEW H \in [S -> S]
  PROVE  \E f \in [Nat -> S] : f[0] = a /\ \A n \in Nat : f[n + 1] = H[f[n]]
<1> DEFINE Good(n, g) == g \in [0 .. n -> S] /\ g[0] = a /\ \A i \in 0 .. n - 1 : g[i + 1] = H[g[i]]
           Starts == {n \in Nat : \E g : Good(n, g)}
<1>1. 0 \in Starts
  <2>1. Good(0, [i \in 0 .. 0 |-> a])
    OBVIOUS
  <2> QED BY <2>1
<1>2. ASSUME NEW n \in Starts PROVE n + 1 \in Starts
  <2>1. n \in Nat /\ n + 1 \in Nat
    OBVIOUS
  <2>2. PICK g : Good(n, g)
    OBVIOUS
  <2> DEFINE h == [i \in 0 .. n + 1 |-> IF i = n + 1 THEN H[g[n]] ELSE g[i]]
  <2>3. \A i \in 0 .. n : g[i] \in S
    BY <2>2
  <2>4. h \in [0 .. n + 1 -> S]
    BY <2>1, <2>3
  <2>5. h[0] = a /\ h[n + 1] = H[g[n]] /\ \A i \in 0 .. n : h[i] = g[i]
    BY <2>1, <2>2
  <2>6. ASSUME NEW i \in 0 .. n PROVE h[i + 1] = H[h[i]]
    <3>1. CASE i = n
      BY <3>1, <2>1, <2>5
    <3>2. CASE i # n
      <4>1. i \in 0 .. n - 1 /\ i + 1 \in 0 .. n
        BY <3>2, <2>1
      <4>2. g[i + 1] = H[g[i]]
        BY <4>1, <2>2
      <4> QED BY <4>1, <4>2, <2>5
    <3> QED BY <3>1, <3>2
  <2> HIDE DEF h
  <2>7. (n + 1) - 1 = n
    BY <2>1
  <2>8. Good(n + 1, h)
    BY <2>4, <2>5, <2>6, <2>7
  <2> QED BY <2>1, <2>8
<1>3. Starts = Nat
  BY <1>1, <1>2, SetInduction
<1> DEFINE G(n) == CHOOSE g : Good(n, g)
           f == [n \in Nat |-> G(n)[n]]
<1>4. \A n \in Nat : Good(n, G(n))
  BY <1>3
<1> HIDE DEF G
<1>5. ASSUME NEW n \in Nat PROVE G(n)[n] = G(n + 1)[n]
  <2> DEFINE Same == {i \in Nat : i <= n => G(n)[i] = G(n + 1)[i]}
  <2>1. 0 \in Same
    BY <1>4
  <2>2. ASSUME NEW i \in Same PROVE i + 1 \in Same
    <3> SUFFICES ASSUME i + 1 <= n PROVE G(n)[i + 1] = G(n + 1)[i + 1]
      OBVIOUS
    <3>1. i \in 0 .. n - 1 /\ i \in 0 .. (n + 1) - 1 /\ G(n)[i] = G(n + 1)[i]
      OBVIOUS
    <3>2. G(n)[i + 1] = H[G(n)[i]]
      BY <3>1, <1>4
    <3>3. G(n + 1)[i + 1] = H[G(n + 1)[i]]
      BY <3>1, <1>4
    <3> QED BY <3>1, <3>2, <3>3
  <2>3. Same = Nat
    BY <2>1, <2>2, SetInduction
  <2> QED BY <2>3
<1>6. \A n \in Nat : G(n)[n] \in S
  BY <1>4
<1>7. f \in [Nat -> S]
  BY <1>6
<1>8. f[0] = a
  BY <1>4
<1>9. ASSUME NEW n \in Nat PROVE f[n + 1] = H[f[n]]
  <2>1. n + 1 \in Nat /\ n \in 0 .. (n + 1) - 1
    OBVIOUS
  <2>2. G(n + 1)[n + 1] = H[G(n + 1)[n]]
    BY <2>1, <1>4
  <2>3. f[n + 1] = G(n + 1)[n + 1] /\ f[n] = G(n)[n]
    BY <2>1
  <2> QED BY <2>2, <2>3, <1>5
<1> QED BY <1>7, <1>8, <1>9

-----------------------------------------------------------------------------
(* The levels below a value or a type                                      *)

\* What is one level below the set S.
Below(c, S) == UNION {c[y] : y \in S}

\* l holds the levels below x.
LevelsFrom(N, c, x, l) ==
  /\ l[0] = [at |-> {x}, above |-> {}]
  /\ \A n \in Nat : /\ l[n].at \subseteq N /\ l[n].above \subseteq N
                    /\ l[n + 1].at = Below(c, l[n].at)
                    /\ l[n + 1].above = l[n].above \cup l[n].at

\* The recursive function of Levels conforms to its equation.
LEMMA LevelsDef ==
  ASSUME NEW N, NEW c \in [N -> SUBSET N], NEW x \in N
  PROVE  LevelsFrom(N, c, x, Levels(c, x))
<1> DEFINE S == [at : SUBSET N, above : SUBSET N]
           Top == [at |-> {x}, above |-> {}]
           Under(l) == [at |-> Below(c, l.at), above |-> l.above \cup l.at]
           H == [l \in S |-> Under(l)]
           Rec(f) == [n \in Nat |-> IF n = 0 THEN Top ELSE Under(f[n - 1])]
<1>1. /\ \A l \in S : Under(l) \in S
      /\ \A l : Under(l).at = Below(c, l.at) /\ Under(l).above = l.above \cup l.at
  BY DEF Below
<1>2. H \in [S -> S] /\ Top \in S
  BY <1>1
<1>3a. \A l \in S : l.at \subseteq N /\ l.above \subseteq N
  OBVIOUS
<1> HIDE DEF H, S, Top
<1>3. PICK f \in [Nat -> S] : f[0] = Top /\ \A n \in Nat : f[n + 1] = H[f[n]]
  BY <1>2, Iteration
<1> HIDE DEF Under
<1>4. \A n \in Nat : f[n + 1] = Under(f[n])
  BY <1>3 DEF H
<1>5. f = Rec(f)
  <2> SUFFICES ASSUME NEW n \in Nat PROVE f[n] = Rec(f)[n]
    BY <1>3
  <2>1. CASE n = 0
    BY <2>1, <1>3
  <2>2. CASE n # 0
    <3>1. n - 1 \in Nat /\ (n - 1) + 1 = n
      BY <2>2
    <3>2. f[n] = Under(f[n - 1])
      BY <3>1, <1>4
    <3> QED BY <2>2, <3>2
  <2> QED BY <2>1, <2>2
<1>6. Levels(c, x) = CHOOSE g : g = Rec(g)
  BY DEF Levels, Below, Rec, Under, Top
<1> HIDE DEF Rec
<1>7. Levels(c, x) = Rec(Levels(c, x))
  BY <1>5, <1>6
<1> DEFINE L == Levels(c, x)
<1>8. L = Rec(L)
  BY <1>7
<1> HIDE DEF L, Under
<1>9. L[0] = Top
  BY <1>8 DEF Rec
<1>10. ASSUME NEW n \in Nat PROVE L[n + 1] = Under(L[n])
  <2>1. n + 1 \in Nat /\ n + 1 # 0 /\ (n + 1) - 1 = n
    OBVIOUS
  <2>2. Rec(L)[n + 1] = Under(L[n])
    BY <2>1 DEF Rec
  <2> QED BY <2>2, <1>8
<1> DEFINE T == {n \in Nat : L[n] \in S}
<1>11. T = Nat
  <2>1. 0 \in T
    BY <1>2, <1>9
  <2>2. ASSUME NEW n \in T PROVE n + 1 \in T
    BY <1>1, <1>10
  <2> HIDE DEF T
  <2>3. T \subseteq Nat
    BY DEF T
  <2> QED BY <2>1, <2>2, <2>3, SetInduction
<1>12. \A n \in Nat : L[n].at \subseteq N /\ L[n].above \subseteq N
  BY <1>3a, <1>11
<1>13. \A n \in Nat : /\ L[n + 1].at = Below(c, L[n].at)
                      /\ L[n + 1].above = L[n].above \cup L[n].at
  BY <1>1, <1>10
<1> QED BY <1>9, <1>12, <1>13 DEF L, Top, LevelsFrom

\* The levels below x are x itself and the levels below its children.
LEMMA LevelsBelow ==
  ASSUME NEW N, NEW c \in [N -> SUBSET N], NEW n \in Nat
  PROVE  \A x \in N : /\ Levels(c, x)[n + 1].at = UNION {Levels(c, y)[n].at : y \in c[x]}
                      /\ Levels(c, x)[n + 1].above = {x} \cup UNION {Levels(c, y)[n].above : y \in c[x]}
<1> DEFINE At(x, m) == Levels(c, x)[m].at
           Above(x, m) == Levels(c, x)[m].above
           T == {m \in Nat : \A x \in N : /\ At(x, m + 1) = UNION {At(y, m) : y \in c[x]}
                                          /\ Above(x, m + 1) = {x} \cup UNION {Above(y, m) : y \in c[x]}}
<1>1. ASSUME NEW x \in N PROVE At(x, 0) = {x} /\ Above(x, 0) = {}
  <2>1. LevelsFrom(N, c, x, Levels(c, x))
    BY LevelsDef
  <2> QED BY <2>1 DEF LevelsFrom
<1>2. ASSUME NEW x \in N, NEW m \in Nat
      PROVE  /\ At(x, m) \subseteq N
             /\ At(x, m + 1) = Below(c, At(x, m))
             /\ Above(x, m + 1) = Above(x, m) \cup At(x, m)
  <2>1. LevelsFrom(N, c, x, Levels(c, x))
    BY LevelsDef
  <2> QED BY <2>1 DEF LevelsFrom
<1> HIDE DEF At, Above
<1>3. 0 \in T
  <2> SUFFICES ASSUME NEW x \in N
               PROVE  /\ At(x, 1) = UNION {At(y, 0) : y \in c[x]}
                      /\ Above(x, 1) = {x} \cup UNION {Above(y, 0) : y \in c[x]}
    OBVIOUS
  <2>1. \A y \in c[x] : y \in N /\ At(y, 0) = {y} /\ Above(y, 0) = {}
    BY <1>1
  <2>2. At(x, 1) = c[x] /\ Above(x, 1) = {x}
    <3>1. At(x, 1) = Below(c, At(x, 0)) /\ Above(x, 1) = Above(x, 0) \cup At(x, 0)
      BY <1>2, 0 + 1 = 1
    <3>2. At(x, 0) = {x} /\ Above(x, 0) = {}
      BY <1>1
    <3> QED BY <3>1, <3>2 DEF Below
  <2> QED BY <2>1, <2>2
<1>4. ASSUME NEW m \in T PROVE m + 1 \in T
  <2> SUFFICES ASSUME NEW x \in N
               PROVE  /\ At(x, m + 1 + 1) = UNION {At(y, m + 1) : y \in c[x]}
                      /\ Above(x, m + 1 + 1) = {x} \cup UNION {Above(y, m + 1) : y \in c[x]}
    OBVIOUS
  <2>1. \A y \in c[x] : y \in N
    OBVIOUS
  <2>2. At(x, m + 1 + 1) = Below(c, At(x, m + 1))
        /\ Above(x, m + 1 + 1) = Above(x, m + 1) \cup At(x, m + 1)
    BY <1>2
  <2>3. \A y \in c[x] : At(y, m + 1) = Below(c, At(y, m)) /\ Above(y, m + 1) = Above(y, m) \cup At(y, m)
    BY <1>2, <2>1
  <2>4. /\ At(x, m + 1) = UNION {At(y, m) : y \in c[x]}
        /\ Above(x, m + 1) = {x} \cup UNION {Above(y, m) : y \in c[x]}
    OBVIOUS
  <2>5. At(x, m + 1 + 1) = UNION {At(y, m + 1) : y \in c[x]}
    <3>1. \A v : v \in At(x, m + 1 + 1) <=> \E w \in At(x, m + 1) : v \in c[w]
      BY <2>2 DEF Below
    <3>2. \A v : v \in At(x, m + 1 + 1) <=> \E y \in c[x] : \E w \in At(y, m) : v \in c[w]
      BY <3>1, <2>4
    <3>3. \A v : v \in At(x, m + 1 + 1) <=> \E y \in c[x] : v \in At(y, m + 1)
      BY <3>2, <2>3 DEF Below
    <3> QED BY <3>3
  <2>6. Above(x, m + 1 + 1) = {x} \cup UNION {Above(y, m + 1) : y \in c[x]}
    <3>1. \A v : v \in Above(x, m + 1 + 1) <=> v = x \/ \E y \in c[x] : v \in Above(y, m) \/ v \in At(y, m)
      BY <2>2, <2>4
    <3>2. \A v : v \in Above(x, m + 1 + 1) <=> v = x \/ \E y \in c[x] : v \in Above(y, m + 1)
      BY <3>1, <2>3
    <3> QED BY <3>2
  <2> QED BY <2>5, <2>6
<1> HIDE DEF T
<1>5. T = Nat
  <2>1. T \subseteq Nat
    BY DEF T
  <2> QED BY <1>3, <1>4, <2>1, SetInduction
<1>6. n \in T
  BY <1>5
<1> QED BY <1>6 DEF T, At, Above

\* The levels below x end before the k-th, and all that is on them is in F.
Inside(c, F, k, x) == Levels(c, x)[k].at = {} /\ Levels(c, x)[k].above \subseteq F

\* x is fine to one level more when it is in F and its children are fine.
LEMMA InsideStep ==
  ASSUME NEW N, NEW c \in [N -> SUBSET N], NEW F, NEW x \in N
  PROVE  /\ ~ Inside(c, F, 0, x)
         /\ \A k \in Nat : Inside(c, F, k + 1, x) <=> x \in F /\ \A y \in c[x] : Inside(c, F, k, y)
<1>1. ~ Inside(c, F, 0, x)
  <2>1. LevelsFrom(N, c, x, Levels(c, x))
    BY LevelsDef
  <2> QED BY <2>1 DEF LevelsFrom, Inside
<1>2. ASSUME NEW k \in Nat PROVE Inside(c, F, k + 1, x) <=> x \in F /\ \A y \in c[x] : Inside(c, F, k, y)
  <2>1. /\ Levels(c, x)[k + 1].at = UNION {Levels(c, y)[k].at : y \in c[x]}
        /\ Levels(c, x)[k + 1].above = {x} \cup UNION {Levels(c, y)[k].above : y \in c[x]}
    BY LevelsBelow
  <2>2. Levels(c, x)[k + 1].at = {} <=> \A y \in c[x] : Levels(c, y)[k].at = {}
    BY <2>1
  <2>3. Levels(c, x)[k + 1].above \subseteq F <=> x \in F /\ \A y \in c[x] : Levels(c, y)[k].above \subseteq F
    BY <2>1
  <2> QED BY <2>2, <2>3 DEF Inside
<1> QED BY <1>1, <1>2

\* What is fine is fine to any level beyond.
LEMMA InsideMore ==
  ASSUME NEW N, NEW c \in [N -> SUBSET N], NEW F, NEW k \in Nat
  PROVE  \A x \in N : Inside(c, F, k, x) => Inside(c, F, k + 1, x)
<1> DEFINE I(m, x) == Inside(c, F, m, x)
           T == {m \in Nat : \A x \in N : I(m, x) => I(m + 1, x)}
<1>1. ASSUME NEW x \in N PROVE ~ I(0, x)
  BY InsideStep
<1>2. ASSUME NEW x \in N, NEW m \in Nat PROVE I(m + 1, x) <=> x \in F /\ \A y \in c[x] : I(m, y)
  BY InsideStep
<1> HIDE DEF I
<1>3. 0 \in T
  BY <1>1
<1>4. ASSUME NEW m \in T PROVE m + 1 \in T
  <2> SUFFICES ASSUME NEW x \in N, I(m + 1, x) PROVE I(m + 1 + 1, x)
    OBVIOUS
  <2>1. x \in F /\ \A y \in c[x] : y \in N /\ I(m, y)
    BY <1>2
  <2>2. \A y \in c[x] : I(m + 1, y)
    BY <2>1
  <2> QED BY <1>2, <2>1, <2>2
<1> HIDE DEF T
<1>5. T = Nat
  <2>1. T \subseteq Nat
    BY DEF T
  <2> QED BY <1>3, <1>4, <2>1, SetInduction
<1>6. k \in T
  BY <1>5
<1> QED BY <1>6 DEF T, I

-----------------------------------------------------------------------------
(* The recursive checks, for any children, limits and depth                *)

\* One unfolding of a check: at a depth, of x, and of its children one deeper.
Checked(N, c, F, max, g) ==
  [depth \in Nat |-> [x \in N |-> depth <= max /\ x \in F /\ \A y \in c[x] : g[depth + 1][y]]]

\* A check that unfolds so exists.
LEMMA CheckExists ==
  ASSUME NEW N, NEW c \in [N -> SUBSET N], NEW F, NEW max \in Nat
  PROVE  \E g : g = Checked(N, c, F, max, g)
<1> DEFINE I(k, x) == Inside(c, F, k, x)
           g == [depth \in Nat |-> [x \in N |-> depth <= max /\ I(max - depth + 1, x)]]
<1>1. ASSUME NEW x \in N PROVE ~ I(0, x)
  BY InsideStep
<1>2. ASSUME NEW x \in N, NEW k \in Nat PROVE I(k + 1, x) <=> x \in F /\ \A y \in c[x] : I(k, y)
  BY InsideStep
<1> HIDE DEF I
<1>3. ASSUME NEW depth \in Nat, NEW x \in N
      PROVE  depth <= max /\ I(max - depth + 1, x)
             <=> depth <= max /\ x \in F /\ \A y \in c[x] : g[depth + 1][y]
  <2>1. \A y \in c[x] : y \in N /\ (g[depth + 1][y] <=> depth + 1 <= max /\ I(max - (depth + 1) + 1, y))
    <3> SUFFICES ASSUME NEW y \in N
                 PROVE  g[depth + 1][y] <=> depth + 1 <= max /\ I(max - (depth + 1) + 1, y)
      OBVIOUS
    <3>1. depth + 1 \in Nat
      OBVIOUS
    <3>2. g[depth + 1][y] = (depth + 1 <= max /\ I(max - (depth + 1) + 1, y))
      BY <3>1, Zenon
    <3> HIDE DEF g
    <3> QED BY <3>2
  <2> HIDE DEF g
  <2>2. CASE depth > max
    BY <2>2
  <2>3. CASE depth = max
    <3>1. max - depth + 1 = 0 + 1 /\ ~ (depth + 1 <= max)
      BY <2>3
    <3>2. \A y \in c[x] : ~ g[depth + 1][y] /\ ~ I(0, y)
      BY <1>1, <2>1, <3>1
    <3>3. I(max - depth + 1, x) <=> x \in F /\ \A y \in c[x] : I(0, y)
      BY <1>2, <3>1
    <3> QED BY <3>2, <3>3
  <2>4. CASE depth < max
    <3>1. max - depth \in Nat /\ max - (depth + 1) + 1 = max - depth /\ depth + 1 <= max
      BY <2>4
    <3>2. \A y \in c[x] : g[depth + 1][y] <=> I(max - depth, y)
      BY <2>1, <3>1
    <3>3. I(max - depth + 1, x) <=> x \in F /\ \A y \in c[x] : I(max - depth, y)
      BY <1>2, <3>1
    <3> QED BY <3>2, <3>3
  <2>5. depth > max \/ depth = max \/ depth < max
    OBVIOUS
  <2> QED BY <2>2, <2>3, <2>4, <2>5
<1>4. g = Checked(N, c, F, max, g)
  <2> DEFINE h == g
  <2>1. g = [depth \in Nat |-> [x \in N |-> depth <= max /\ x \in F /\ \A y \in c[x] : h[depth + 1][y]]]
    <3>1. ASSUME NEW depth \in Nat, NEW x \in N
          PROVE  (depth <= max /\ I(max - depth + 1, x))
                 <=> (depth <= max /\ x \in F /\ \A y \in c[x] : h[depth + 1][y])
      BY <1>3
    <3> HIDE DEF h
    <3> QED BY <3>1
  <2> QED BY <2>1 DEF Checked
<1> QED BY <1>4

\* And it accepts what is fine to as many levels as are left.
LEMMA CheckInside ==
  ASSUME NEW N, NEW c \in [N -> SUBSET N], NEW F, NEW max \in Nat, NEW g, g = Checked(N, c, F, max, g),
         NEW depth \in Nat, depth <= max, NEW x \in N
  PROVE  g[depth][x] <=> Inside(c, F, max - depth + 1, x)
<1> DEFINE I(k, y) == Inside(c, F, k, y)
           T == {k \in Nat : \A d \in Nat : d + k = max => \A y \in N : g[d][y] <=> I(k + 1, y)}
<1>1. ASSUME NEW y \in N PROVE ~ I(0, y)
  BY InsideStep
<1>2. ASSUME NEW y \in N, NEW k \in Nat PROVE I(k + 1, y) <=> y \in F /\ \A w \in c[y] : I(k, w)
  BY InsideStep
<1> HIDE DEF I
<1>3. ASSUME NEW d \in Nat, NEW y \in N
      PROVE  g[d][y] <=> d <= max /\ y \in F /\ \A w \in c[y] : g[d + 1][w]
  <2>1. g[d][y] = Checked(N, c, F, max, g)[d][y]
    OBVIOUS
  <2> QED BY <2>1 DEF Checked
<1>4. 0 \in T
  <2> SUFFICES ASSUME NEW y \in N PROVE g[max][y] <=> I(0 + 1, y)
    OBVIOUS
  <2>1. \A w \in c[y] : w \in N /\ ~ g[max + 1][w] /\ ~ I(0, w)
    BY <1>1, <1>3
  <2> QED BY <1>2, <1>3, <2>1
<1>5. ASSUME NEW k \in T PROVE k + 1 \in T
  <2> SUFFICES ASSUME NEW d \in Nat, d + (k + 1) = max, NEW y \in N PROVE g[d][y] <=> I(k + 1 + 1, y)
    OBVIOUS
  <2>1. \A w \in c[y] : w \in N /\ (g[d + 1][w] <=> I(k + 1, w))
    <3>1. d + 1 \in Nat /\ (d + 1) + k = max
      OBVIOUS
    <3> QED BY <3>1
  <2>2. g[d][y] <=> y \in F /\ \A w \in c[y] : g[d + 1][w]
    BY <1>3
  <2>3. I(k + 1 + 1, y) <=> y \in F /\ \A w \in c[y] : I(k + 1, w)
    BY <1>2
  <2> QED BY <2>1, <2>2, <2>3
<1> HIDE DEF T
<1>6. T = Nat
  <2>1. T \subseteq Nat
    BY DEF T
  <2> QED BY <1>4, <1>5, <2>1, SetInduction
<1>7. max - depth \in T /\ depth + (max - depth) = max
  BY <1>6
<1> QED BY <1>7 DEF T, I

-----------------------------------------------------------------------------
(* ValidateValue and ValidateType                                          *)

\* What the limits of z let through, at any depth.
FineValues(z) == {v \in Value : SizeWithin(z, v)}
FineTypes(z) == {t \in Type \cup {NoType} : TypeAllowed(z, t)}

LEMMA FineValue ==
  ASSUME NEW z, NEW v \in Value
  PROVE  v \in FineValues(z) <=> /\ ValueKind[v] = "map" => Size[v] <= z.MaxKeys
                                 /\ ValueKind[v] = "slice" => Size[v] <= z.MaxElements
                                 /\ ValueKind[v] = "string" => Size[v] <= z.MaxStringLength
<1>1. Size[v] \in Nat
  BY ValuesAssumption
<1>2. Size[v] <= Size[v]
  BY <1>1
<1>3. CASE ValueKind[v] = "map"
  BY <1>3 DEF FineValues, SizeWithin
<1>4. CASE ValueKind[v] = "slice"
  BY <1>4 DEF FineValues, SizeWithin
<1>5. CASE ValueKind[v] = "string"
  BY <1>5 DEF FineValues, SizeWithin
<1>6. CASE ValueKind[v] \notin {"map", "slice", "string"}
  <2>1. SizeWithin(z, v) <=> Size[v] <= Size[v]
    BY <1>6 DEF SizeWithin
  <2> QED BY <1>2, <1>6, <2>1 DEF FineValues
<1> QED BY <1>3, <1>4, <1>5, <1>6

LEMMA ValueCheck ==
  ASSUME NEW z, z.MaxDepth \in Nat
  PROVE  ValidAtDepth(z) = Checked(Value, Parts, FineValues(z), z.MaxDepth, ValidAtDepth(z))
<1> DEFINE Rec(g) == [depth \in Nat |-> [v \in Value |->
                        /\ depth <= z.MaxDepth
                        /\ ValueKind[v] = "map" => Size[v] <= z.MaxKeys
                        /\ ValueKind[v] = "slice" => Size[v] <= z.MaxElements
                        /\ ValueKind[v] = "string" => Size[v] <= z.MaxStringLength
                        /\ ValueKind[v] \in Composite => \A p \in Parts[v] : g[depth + 1][p]]]
           Chk(g) == Checked(Value, Parts, FineValues(z), z.MaxDepth, g)
<1>1. ASSUME NEW g PROVE Rec(g) = Chk(g)
  <2>1. ASSUME NEW depth \in Nat, NEW v \in Value
        PROVE  (/\ depth <= z.MaxDepth
                /\ ValueKind[v] = "map" => Size[v] <= z.MaxKeys
                /\ ValueKind[v] = "slice" => Size[v] <= z.MaxElements
                /\ ValueKind[v] = "string" => Size[v] <= z.MaxStringLength
                /\ ValueKind[v] \in Composite => \A p \in Parts[v] : g[depth + 1][p])
               <=> (depth <= z.MaxDepth /\ v \in FineValues(z) /\ \A p \in Parts[v] : g[depth + 1][p])
    BY FineValue, ValuesAssumption
  <2> QED BY <2>1 DEF Checked
<1>2. PICK h : h = Chk(h)
  BY ValuesAssumption, CheckExists
<1>3. ValidAtDepth(z) = CHOOSE g : g = Rec(g)
  BY DEF ValidAtDepth, Deeper
<1> HIDE DEF Rec, Chk
<1>4. h = Rec(h)
  BY <1>1, <1>2
<1>5. ValidAtDepth(z) = Rec(ValidAtDepth(z))
  BY <1>3, <1>4
<1>6. ValidAtDepth(z) = Chk(ValidAtDepth(z))
  BY <1>1, <1>5
<1> QED BY <1>6 DEF Chk

LEMMA TypeCheck ==
  ASSUME NEW z, z.MaxDepth \in Nat
  PROVE  AllowedAtDepth(z) = Checked(Type \cup {NoType}, Components, FineTypes(z), z.MaxDepth, AllowedAtDepth(z))
<1> DEFINE Rec(g) == [depth \in Nat |-> [t \in Type \cup {NoType} |->
                        /\ depth <= z.MaxDepth
                        /\ t # NoType =>
                             /\ Words[t] \cap z.DisallowedTypes = {}
                             /\ TypeKind[t] \notin {"func", "chan", "unsafe.Pointer"}
                             /\ \A u \in Elems[t] : g[depth + 1][u]]]
           Chk(g) == Checked(Type \cup {NoType}, Components, FineTypes(z), z.MaxDepth, g)
<1>0. Components \in [Type \cup {NoType} -> SUBSET (Type \cup {NoType})]
  BY TypesAssumption DEF Components
<1>1. ASSUME NEW g PROVE Rec(g) = Chk(g)
  <2>1. ASSUME NEW depth \in Nat, NEW t \in Type \cup {NoType}
        PROVE  (/\ depth <= z.MaxDepth
                /\ t # NoType =>
                     /\ Words[t] \cap z.DisallowedTypes = {}
                     /\ TypeKind[t] \notin {"func", "chan", "unsafe.Pointer"}
                     /\ \A u \in Elems[t] : g[depth + 1][u])
               <=> (depth <= z.MaxDepth /\ t \in FineTypes(z) /\ \A u \in Components[t] : g[depth + 1][u])
    <3>1. t \in FineTypes(z) <=> TypeAllowed(z, t)
      BY DEF FineTypes
    <3>2. Components[t] = IF t = NoType THEN {} ELSE Elems[t]
      BY DEF Components
    <3> QED BY <3>1, <3>2 DEF TypeAllowed
  <2> QED BY <2>1 DEF Checked
<1>2. PICK h : h = Chk(h)
  BY <1>0, CheckExists
<1>3. AllowedAtDepth(z) = CHOOSE g : g = Rec(g)
  BY DEF AllowedAtDepth
<1> HIDE DEF Rec, Chk
<1>4. h = Rec(h)
  BY <1>1, <1>2
<1>5. AllowedAtDepth(z) = Rec(AllowedAtDepth(z))
  BY <1>3, <1>4
<1>6. AllowedAtDepth(z) = Chk(AllowedAtDepth(z))
  BY <1>1, <1>5
<1> QED BY <1>6 DEF Chk

\* ValidateValue and ValidateType at a depth: what is left of the levels is fine.
LEMMA ValueValidated ==
  ASSUME NEW z, z.MaxDepth \in Nat, NEW v \in Value, NEW depth \in Nat, depth <= z.MaxDepth
  PROVE  ValidateValue(z, v, depth) <=> Inside(Parts, FineValues(z), z.MaxDepth - depth + 1, v)
<1>1. Parts \in [Value -> SUBSET Value]
  BY ValuesAssumption
<1>2. ValidAtDepth(z) = Checked(Value, Parts, FineValues(z), z.MaxDepth, ValidAtDepth(z))
  BY ValueCheck
<1> QED BY <1>1, <1>2, CheckInside DEF ValidateValue

LEMMA TypeValidated ==
  ASSUME NEW z, z.MaxDepth \in Nat, NEW t \in Type \cup {NoType}, NEW depth \in Nat, depth <= z.MaxDepth
  PROVE  ValidateType(z, t, depth) <=> Inside(Components, FineTypes(z), z.MaxDepth - depth + 1, t)
<1>1. Components \in [Type \cup {NoType} -> SUBSET (Type \cup {NoType})]
  BY TypesAssumption DEF Components
<1>2. AllowedAtDepth(z) = Checked(Type \cup {NoType}, Components, FineTypes(z), z.MaxDepth, AllowedAtDepth(z))
  BY TypeCheck
<1> QED BY <1>1, <1>2, CheckInside DEF ValidateType

\* And the references.
LEMMA ValueReference ==
  ASSUME NEW z, z.MaxDepth \in Nat, NEW v \in Value
  PROVE  ValueWithin(z, v) <=> Inside(Parts, FineValues(z), z.MaxDepth + 1, v)
<1>1. LevelsFrom(Value, Parts, v, Levels(Parts, v))
  BY ValuesAssumption, LevelsDef
<1>2. Levels(Parts, v)[z.MaxDepth + 1].above \subseteq Value
  BY <1>1 DEF LevelsFrom
<1> QED BY <1>2 DEF ValueWithin, Within, Inside, FineValues

LEMMA TypeReference ==
  ASSUME NEW z, z.MaxDepth \in Nat, NEW t \in Type \cup {NoType}
  PROVE  TypeWithin(z, t) <=> Inside(Components, FineTypes(z), z.MaxDepth + 1, t)
<1>1. Components \in [Type \cup {NoType} -> SUBSET (Type \cup {NoType})]
  BY TypesAssumption DEF Components
<1>2. LevelsFrom(Type \cup {NoType}, Components, t, Levels(Components, t))
  BY <1>1, LevelsDef
<1>3. Levels(Components, t)[z.MaxDepth + 1].above \subseteq Type \cup {NoType}
  BY <1>2 DEF LevelsFrom
<1> QED BY <1>3 DEF TypeWithin, Within, Inside, FineTypes

-----------------------------------------------------------------------------
(* The options                                                             *)

Types ==
  /\ phase \in [Owner -> {"none", "building", "failed", "ready", "started"}]
  /\ config \in [Owner -> Config]
  /\ serializers \in [Owner -> [Encoding -> Serializer \cup {NoSerializer}]]
  /\ limits \in [Serializer -> Limits]
  /\ uses \in [Prepared -> Nat] /\ applied \in 0 .. MaxOptions
  /\ \A o \in Prepared : uses[o] <= applied

Uses ==
  /\ \A o \in Prepared : uses[o] = 0 =>
       limits[o] = Original(o) /\ \A x \in Owner : o \notin Registered(x)
  /\ \A o \in Prepared : \A x, y \in Owner :
       uses[o] = 1 /\ o \in Registered(x) /\ o \in Registered(y) => x = y
  /\ \A s \in Server : \A x \in Owner : Default(s) \in Registered(x) => x = s

Served == \A s \in Server : phase[s] = "started" => Registered(s) # {}

IInv == Types /\ Uses /\ LimitsKnown /\ Served

LEMMA DefaultsValid == DefaultSerializerConfig \in Limits /\ DefaultConfig \in Config
<1>1. DefaultSerializerConfig \in Limits
  BY DEF DefaultSerializerConfig, Limits, Positive, KindName
<1>2. DefaultConfig \in Config
  <2>1. 8080 \in PortNumber
    BY DEF PortNumber
  <2> QED BY <1>1, <2>1 DEF DefaultConfig, Config, Positive, Encoding
<1> QED BY <1>1, <1>2

\* What a serializer was made with is such a configuration.
LEMMA OriginalValid ==
  ASSUME NEW o \in Serializer
  PROVE  Original(o) \in Limits
BY DefaultsValid, OptionsAssumption DEF Original

\* An option that is accepted makes a configuration of a configuration, and
\* leaves the limits of the serializers alone.
LEMMA OptionValid ==
  ASSUME NEW c \in Config, NEW option \in HandlerOption(c) \cup ServerOption(c), NEW d \in option
  PROVE  d \in Config /\ d.Serialization = c.Serialization
<1> DEFINE Good == d \in Config /\ d.Serialization = c.Serialization
<1>1. ASSUME NEW n \in Numbers, option = WithMaxConnections(c, n) PROVE Good
  <2>1. d = [c EXCEPT !.MaxConnections = n] /\ n \in Positive
    BY <1>1, OptionsAssumption DEF WithMaxConnections, Refused, Positive
  <2> QED BY <2>1 DEF Config
<1>2. ASSUME NEW n \in Numbers, option = WithMessageSize(c, n) PROVE Good
  <2>1. d = [c EXCEPT !.MessageSize = n] /\ n \in Positive
    BY <1>2, OptionsAssumption DEF WithMessageSize, Refused, Positive
  <2> QED BY <2>1 DEF Config
<1>3. ASSUME NEW n \in Numbers, option = WithMessageBufferSize(c, n) PROVE Good
  <2>1. d = [c EXCEPT !.MessageChanBufSize = n] /\ n \in Int
    BY <1>3, OptionsAssumption DEF WithMessageBufferSize
  <2> QED BY <2>1 DEF Config
<1>4. ASSUME NEW m \in Numbers, NEW n \in Numbers, option = WithTimeout(c, m, n) PROVE Good
  <2>1. d = [c EXCEPT !.ReadTimeout = m, !.WriteTimeout = n] /\ m \in Positive /\ n \in Positive
    BY <1>4, OptionsAssumption DEF WithTimeout, Refused, Positive
  <2> QED BY <2>1 DEF Config
<1>5. ASSUME NEW m \in Periods, NEW n \in Periods, option = WithPingPong(c, m, n) PROVE Good
  <2>1. d = [c EXCEPT !.PingPeriod = m, !.PongWait = n] /\ m \in Positive /\ n \in Positive
    BY <1>5, OptionsAssumption DEF WithPingPong, Refused, Positive
  <2> QED BY <2>1 DEF Config
<1>6. ASSUME NEW e \in Chosen, option = WithEncoding(c, e) PROVE Good
  <2>1. d = [c EXCEPT !.DefaultEncoding = e] /\ e \in Encoding
    BY <1>6, OptionsAssumption DEF WithEncoding
  <2> QED BY <2>1 DEF Config
<1>7. ASSUME NEW n \in Ports, option = WithPort(c, n) PROVE Good
  <2>1. d = [c EXCEPT !.Port = n] /\ n \in Int /\ 0 < n /\ n <= 65535
    BY <1>7 DEF WithPort, Refused, Ports
  <2>2. n \in PortNumber
    BY <2>1 DEF PortNumber
  <2> QED BY <2>1, <2>2 DEF Config
<1>8. ASSUME NEW p \in Paths, option = WithPath(c, p) PROVE Good
  <2>1. d = [c EXCEPT !.Path = "slash"] /\ p = p
    BY <1>8, OptionsAssumption DEF WithPath
  <2> QED BY <2>1 DEF Config
<1>9. ASSUME NEW f \in CertFiles, option = WithSSL(c, f) PROVE Good
  <2>1. d = [c EXCEPT !.EnableSSL = "on", !.Files = f] /\ f = {"cert", "key"}
    BY <1>9, OptionsAssumption DEF WithSSL, Refused
  <2> QED BY <2>1 DEF Config
<1>10. ASSUME option \in UNION {{WithMaxConnections(c, n), WithMessageSize(c, n), WithMessageBufferSize(c, n)} : n \in Numbers} PROVE Good
  BY <1>1, <1>2, <1>3, <1>10
<1>11. ASSUME option \in UNION {{WithTimeout(c, m, n) : m \in Numbers} : n \in Numbers} PROVE Good
  BY <1>4, <1>11
<1>12. ASSUME option \in UNION {{WithPingPong(c, m, n) : m \in Periods} : n \in Periods} PROVE Good
  BY <1>5, <1>12
<1>13. ASSUME option \in {WithEncoding(c, e) : e \in Chosen} PROVE Good
  BY <1>6, <1>13
<1>14. ASSUME option \in {WithPort(c, n) : n \in Ports} PROVE Good
  BY <1>7, <1>14
<1>15. ASSUME option \in {WithPath(c, p) : p \in Paths} PROVE Good
  BY <1>8, <1>15
<1>16. ASSUME option \in {WithSSL(c, f) : f \in CertFiles} PROVE Good
  BY <1>9, <1>16
<1>17. ASSUME option \in HandlerOption(c) PROVE Good
  <2> HIDE DEF Good
  <2> QED BY <1>10, <1>11, <1>12, <1>13, <1>17, Zenon DEF HandlerOption
<1>18. ASSUME option \in ServerOption(c) PROVE Good
  <2> HIDE DEF Good
  <2> QED BY <1>14, <1>15, <1>16, <1>18, Zenon DEF ServerOption
<1> QED BY <1>17, <1>18, Zenon

-----------------------------------------------------------------------------
(* The serializers                                                         *)

LEMMA SerializerKinds ==
  /\ Serializer = Prepared \cup Server
  /\ \A o \in Prepared : o \notin Server
  /\ NoSerializer \notin Serializer
BY OptionsAssumption DEF Serializer, Default

LEMMA RegisteredSerializers ==
  ASSUME Types, NEW x \in Owner
  PROVE  Registered(x) \subseteq Serializer
BY DEF Types, Registered

\* The registrations are the same, for every owner, while serializers is.
LEMMA RegisteredSame ==
  ASSUME UNCHANGED serializers
  PROVE  \A x \in Owner : Registered(x)' = Registered(x)
BY DEF Registered

\* A registration adds a serializer to those of one owner, and may replace another.
LEMMA RegisteredOne ==
  ASSUME Types, NEW x \in Owner, NEW e \in Encoding, NEW o \in Serializer,
         serializers' = [serializers EXCEPT ![x][e] = o]
  PROVE  /\ serializers' \in [Owner -> [Encoding -> Serializer \cup {NoSerializer}]]
         /\ o \in Registered(x)'
         /\ Registered(x)' \subseteq Registered(x) \cup {o}
         /\ \A y \in Owner : y # x => Registered(y)' = Registered(y)
<1>1. serializers' \in [Owner -> [Encoding -> Serializer \cup {NoSerializer}]]
  BY DEF Types
<1>2. serializers'[x][e] = o /\ \A f \in Encoding : f # e => serializers'[x][f] = serializers[x][f]
  BY DEF Types
<1>3. \A y \in Owner : y # x => serializers'[y] = serializers[y]
  BY DEF Types
<1>4. o \in Registered(x)' /\ Registered(x)' \subseteq Registered(x) \cup {o}
  BY <1>2, SerializerKinds DEF Registered
<1>5. \A y \in Owner : y # x => Registered(y)' = Registered(y)
  BY <1>3 DEF Registered
<1> QED BY <1>1, <1>4, <1>5
-----------------------------------------------------------------------------
(* The inductive invariant, action by action                               *)

LEMMA InitInv == Init => IInv
<1> SUFFICES ASSUME Init PROVE IInv OBVIOUS
<1>1. \A x \in Owner : config[x] = DefaultConfig /\ Registered(x) = {}
  BY DEF Init, Registered
<1>2. Types
  BY DefaultsValid, OriginalValid, OptionsAssumption DEF Init, Types
<1>3. Served
  BY DEF Init, Owner, Served
<1>4. Uses /\ LimitsKnown
  BY <1>1, SerializerKinds DEF Init, Uses, LimitsKnown
<1> QED BY <1>2, <1>3, <1>4 DEF IInv

\* A step that leaves the registrations and the limits of the configurations
\* alone keeps what is known about the limits.
LEMMA LimitsKept ==
  ASSUME IInv, UNCHANGED <<serializers, limits, uses>>,
         \A x \in Owner : config'[x].Serialization = config[x].Serialization
  PROVE  Uses' /\ LimitsKnown'
<1>1. \A x \in Owner : Registered(x)' = Registered(x)
  BY RegisteredSame
<1> QED BY <1>1 DEF IInv, Uses, LimitsKnown, Default

LEMMA NewStep ==
  ASSUME IInv, NEW x \in Owner, New(x) PROVE IInv'
<1> USE DEF New
<1>1. Types'
  BY DEF IInv, Types
<1>2. Uses' /\ LimitsKnown'
  BY LimitsKept
<1>3. Served'
  BY RegisteredSame DEF IInv, Types, Served, Owner
<1> QED BY <1>1, <1>2, <1>3 DEF IInv

LEMMA BuiltStep ==
  ASSUME IInv, NEW x \in Owner, Built(x) PROVE IInv'
<1> USE DEF Built
<1>1. Types'
  BY DEF IInv, Types
<1>2. Uses' /\ LimitsKnown'
  BY LimitsKept
<1>3. Served'
  BY RegisteredSame DEF IInv, Types, Served, Owner
<1> QED BY <1>1, <1>2, <1>3 DEF IInv

\* A refused option ends the making of its owner, or changes nothing.
LEMMA FailStep ==
  ASSUME IInv, NEW x \in Owner, MayApply(x), Fail(x) PROVE IInv'
<1> USE DEF Fail, MayApply
<1>1. Types'
  BY OptionsAssumption DEF IInv, Types
<1>2. Uses' /\ LimitsKnown'
  BY LimitsKept
<1>3. Served'
  BY RegisteredSame DEF IInv, Types, Served, Owner
<1> QED BY <1>1, <1>2, <1>3 DEF IInv

LEMMA OptionStep ==
  ASSUME IInv, NEW x \in Owner, ApplyOption(x) PROVE IInv'
<1>1. PICK option \in HandlerOption(config[x]) \cup (IF x \in Server THEN ServerOption(config[x]) ELSE {Refused}) :
        \/ option = Refused /\ Fail(x)
        \/ /\ \E c \in option : config' = [config EXCEPT ![x] = c]
           /\ UNCHANGED <<phase, serializers, limits, uses>>
  BY DEF ApplyOption
<1>2. CASE option = Refused /\ Fail(x)
  BY <1>2, FailStep DEF ApplyOption
<1>3. ASSUME NEW c \in option, config' = [config EXCEPT ![x] = c],
             UNCHANGED <<phase, serializers, limits, uses>>
      PROVE  IInv'
  <2>1. config \in [Owner -> Config] /\ config[x] \in Config
    BY DEF IInv, Types
  <2>2. option \in HandlerOption(config[x]) \cup ServerOption(config[x])
    BY <1>1, <1>3 DEF Refused
  <2>3. c \in Config /\ c.Serialization = config[x].Serialization
    BY <2>1, <2>2, OptionValid
  <2>4. config' \in [Owner -> Config] /\ config'[x] = c /\ \A y \in Owner : y # x => config'[y] = config[y]
    BY <1>3, <2>1, <2>3
  <2>5. Types'
    BY <1>3, <2>4, OptionsAssumption DEF IInv, Types, ApplyOption, MayApply
  <2>6. Uses' /\ LimitsKnown'
    BY <1>3, <2>3, <2>4, LimitsKept
  <2>7. Served'
    BY <1>3, RegisteredSame DEF IInv, Served, Owner
  <2> QED BY <2>5, <2>6, <2>7 DEF IInv
<1> QED BY <1>1, <1>2, <1>3

\* An accepted limit is a configuration z with which every registered serializer
\* is configured.
Limit(x, z) ==
  /\ config' = [config EXCEPT ![x].Serialization = z]
  /\ Configure(x)
  /\ UNCHANGED <<phase, serializers, uses>>

\* Every option of serialization fails or does this: none of them lacks its loop.
LEMMA LimitCases ==
  ASSUME Types, NEW x \in Owner, ApplyLimit(x)
  PROVE  Fail(x) \/ \E z \in Limits : Limit(x, z)
<1> DEFINE y == config[x].Serialization
           Done == Fail(x) \/ \E z \in Limits : Limit(x, z)
<1>1. y \in Limits /\ config \in [Owner -> Config] /\ config[x] \in Config
  BY DEF Types, Config
<1>2. ASSUME NEW n \in Numbers, WithMaxKeys(x, n) PROVE Done
  <2>1. CASE n < 1
    BY <1>2, <2>1, Zenon DEF WithMaxKeys
  <2>2. CASE ~ (n < 1)
    <3>1. n \in Positive
      BY <2>2, OptionsAssumption DEF Positive
    <3>2. [y EXCEPT !.MaxKeys = n] \in Limits
      BY <1>1, <3>1 DEF Limits
    <3>3. Limit(x, [y EXCEPT !.MaxKeys = n])
      BY <1>2, <2>2, Zenon DEF WithMaxKeys, Limit
    <3> QED BY <3>2, <3>3, Zenon
  <2> QED BY <2>1, <2>2
<1>3. ASSUME NEW n \in Numbers, WithMaxElements(x, n) PROVE Done
  <2>1. CASE n < 1
    BY <1>3, <2>1, Zenon DEF WithMaxElements
  <2>2. CASE ~ (n < 1)
    <3>1. n \in Positive
      BY <2>2, OptionsAssumption DEF Positive
    <3>2. [y EXCEPT !.MaxElements = n] \in Limits
      BY <1>1, <3>1 DEF Limits
    <3>3. Limit(x, [y EXCEPT !.MaxElements = n])
      BY <1>3, <2>2, Zenon DEF WithMaxElements, Limit
    <3> QED BY <3>2, <3>3, Zenon
  <2> QED BY <2>1, <2>2
<1>4. ASSUME NEW n \in Numbers, WithMaxBinarySize(x, n) PROVE Done
  <2>1. CASE n <= 0
    BY <1>4, <2>1, Zenon DEF WithMaxBinarySize
  <2>2. CASE ~ (n <= 0)
    <3>1. n \in Positive
      BY <2>2, OptionsAssumption DEF Positive
    <3>2. [y EXCEPT !.MaxBinarySize = n] \in Limits
      BY <1>1, <3>1 DEF Limits
    <3>3. Limit(x, [y EXCEPT !.MaxBinarySize = n])
      BY <1>4, <2>2, Zenon DEF WithMaxBinarySize, Limit
    <3> QED BY <3>2, <3>3, Zenon
  <2> QED BY <2>1, <2>2
<1>5. ASSUME NEW n \in Periods, WithMaxDepth(x, n) PROVE Done
  <2>1. CASE n < 1
    BY <1>5, <2>1, Zenon DEF WithMaxDepth
  <2>2. CASE ~ (n < 1)
    <3>1. n \in Positive
      BY <2>2, OptionsAssumption DEF Positive
    <3>2. [y EXCEPT !.MaxDepth = n] \in Limits
      BY <1>1, <3>1 DEF Limits
    <3>3. Limit(x, [y EXCEPT !.MaxDepth = n])
      BY <1>5, <2>2, Zenon DEF WithMaxDepth, Limit
    <3> QED BY <3>2, <3>3, Zenon
  <2> QED BY <2>1, <2>2
<1>6. ASSUME WithDisallowedTypes(x, {}) PROVE Done
  <2>1. [y EXCEPT !.DisallowedTypes = {}] \in Limits
    BY <1>1 DEF Limits
  <2>2. Limit(x, [y EXCEPT !.DisallowedTypes = {}])
    BY <1>6, Zenon DEF WithDisallowedTypes, Limit
  <2> QED BY <2>1, <2>2, Zenon
<1>7. ASSUME WithStrictSerialization(x, FALSE) PROVE Done
  <2>1. [y EXCEPT !.EnableStrict = FALSE] \in Limits
    BY <1>1 DEF Limits
  <2>2. Limit(x, [y EXCEPT !.EnableStrict = FALSE])
    BY <1>7, Zenon DEF WithStrictSerialization, Limit
  <2> QED BY <2>1, <2>2, Zenon
<1> HIDE DEF Done
<1>8. Done
  BY <1>2, <1>3, <1>4, <1>5, <1>6, <1>7, Zenon DEF ApplyLimit
<1> QED BY <1>8 DEF Done

\* What an accepted limit does to the configurations and the serializers.
LEMMA LimitEffect ==
  ASSUME IInv, NEW x \in Owner, NEW z \in Limits, Limit(x, z)
  PROVE  /\ config' \in [Owner -> Config]
         /\ config'[x].Serialization = z
         /\ \A y \in Owner : y # x => config'[y] = config[y]
         /\ limits' \in [Serializer -> Limits]
         /\ \A o \in Registered(x) : limits'[o] = z
         /\ \A o \in Serializer \ Registered(x) : limits'[o] = limits[o]
<1> DEFINE c == config[x]
<1> DEFINE d == config'[x]
<1>1. config \in [Owner -> Config] /\ c \in Config /\ limits \in [Serializer -> Limits]
  BY DEF IInv, Types
<1>2. d = [c EXCEPT !.Serialization = z] /\ \A y \in Owner : y # x => config'[y] = config[y]
  BY <1>1 DEF Limit
<1>3. d \in Config /\ d.Serialization = z
  <2> HIDE DEF c, d
  <2> QED BY <1>1, <1>2 DEF Config
<1>4. config' \in [Owner -> Config]
  BY <1>1, <1>3 DEF Limit
<1>5. Registered(x) \subseteq Serializer
  BY RegisteredSerializers DEF IInv
<1>6. /\ limits' \in [Serializer -> Limits]
      /\ \A o \in Registered(x) : limits'[o] = z
      /\ \A o \in Serializer \ Registered(x) : limits'[o] = limits[o]
  BY <1>1, <1>3, <1>5 DEF Limit, Configure
<1> QED BY <1>2, <1>3, <1>4, <1>6

LEMMA LimitStep ==
  ASSUME IInv, NEW x \in Owner, ApplyLimit(x) PROVE IInv'
<1>1. CASE Fail(x)
  BY <1>1, FailStep DEF ApplyLimit
<1>2. ASSUME NEW z \in Limits, Limit(x, z)
      PROVE  IInv'
  <2>1. /\ config' \in [Owner -> Config]
        /\ config'[x].Serialization = z
        /\ \A y \in Owner : y # x => config'[y] = config[y]
        /\ limits' \in [Serializer -> Limits]
        /\ \A o \in Registered(x) : limits'[o] = z
        /\ \A o \in Serializer \ Registered(x) : limits'[o] = limits[o]
    BY <1>2, LimitEffect
  <2>2. UNCHANGED <<phase, serializers, uses>>
    BY <1>2 DEF Limit
  <2>3. \A y \in Owner : Registered(y)' = Registered(y) /\ Registered(y) \subseteq Serializer
    BY <2>2, RegisteredSame, RegisteredSerializers DEF IInv
  <2>4. Types'
    BY <2>1, <2>2, OptionsAssumption DEF IInv, Types, ApplyLimit, MayApply
  <2>5. Uses'
    BY <2>1, <2>2, <2>3, SerializerKinds DEF IInv, Uses, Default
  \* A serializer of another owner is not one of x, unless it was applied twice.
  <2>6. LimitsKnown'
    <3> SUFFICES ASSUME NEW y \in Owner, NEW o \in Registered(y), o \in Prepared => uses[o] = 1
                 PROVE  limits'[o] \in {config'[y].Serialization, Original(o)}
      BY <2>2, <2>3 DEF LimitsKnown
    <3>1. CASE y = x
      BY <2>1, <3>1
    <3>2. CASE y # x
      <4>1. o \notin Registered(x)
        BY <3>2, <2>3, SerializerKinds DEF IInv, Uses, Default
      <4> QED BY <2>1, <2>3, <3>2, <4>1 DEF IInv, LimitsKnown
    <3> QED BY <3>1, <3>2
  <2>7. Served'
    BY <2>2, <2>3 DEF IInv, Served, Owner
  <2> QED BY <2>4, <2>5, <2>6, <2>7 DEF IInv
<1> QED BY <1>1, <1>2, LimitCases DEF IInv

LEMMA RegisterStep ==
  ASSUME IInv, NEW x \in Owner, NEW o \in Prepared, WithSerializer(x, o) PROVE IInv'
<1> USE DEF WithSerializer
<1>1. /\ o \in Serializer /\ EncodingOf[o] \in Encoding
      /\ serializers' \in [Owner -> [Encoding -> Serializer \cup {NoSerializer}]]
      /\ o \in Registered(x)'
      /\ Registered(x)' \subseteq Registered(x) \cup {o}
      /\ \A y \in Owner : y # x => Registered(y)' = Registered(y)
  <2>1. o \in Serializer /\ EncodingOf[o] \in Encoding
    BY SerializerKinds, OptionsAssumption
  <2> QED BY <2>1, RegisteredOne DEF IInv
<1>2. /\ uses' \in [Prepared -> Int] /\ uses[o] \in Nat /\ uses'[o] = uses[o] + 1
      /\ \A q \in Prepared : q # o => uses'[q] = uses[q]
  BY OptionsAssumption DEF IInv, Types
<1>3. Types'
  BY <1>1, <1>2, OptionsAssumption DEF IInv, Types, MayApply
<1>4. Uses'
  <2>1. \A q \in Prepared : uses'[q] = 0 => q # o /\ uses[q] = 0
    BY <1>2
  <2>2. \A q \in Prepared : uses'[q] = 0 =>
          limits'[q] = Original(q) /\ \A y \in Owner : q \notin Registered(y)'
    BY <1>1, <2>1 DEF IInv, Uses
  <2>3. uses'[o] = 1 => \A y \in Owner : o \notin Registered(y)
    BY <1>2 DEF IInv, Uses
  <2>4. \A q \in Prepared : \A y, z \in Owner :
          uses'[q] = 1 /\ q \in Registered(y)' /\ q \in Registered(z)' => y = z
    BY <1>1, <1>2, <2>3 DEF IInv, Uses
  <2>5. \A s \in Server : \A y \in Owner : Default(s) \in Registered(y)' => y = s
    BY <1>1, SerializerKinds DEF IInv, Uses, Default
  <2> QED BY <2>2, <2>4, <2>5 DEF Uses
<1>5. LimitsKnown'
  <2> SUFFICES ASSUME NEW y \in Owner, NEW q \in Registered(y)', q \in Prepared => uses'[q] = 1
               PROVE  limits[q] \in {config[y].Serialization, Original(q)}
    BY DEF LimitsKnown
  <2>1. CASE q = o
    <3>1. uses[o] = 0
      BY <1>2, <2>1
    <3> QED BY <2>1, <3>1 DEF IInv, Uses
  <2>2. CASE q # o
    <3>1. q \in Registered(y)
      BY <1>1, <2>2
    <3>2. q \in Prepared => uses[q] = 1
      BY <1>2, <2>2
    <3> QED BY <3>1, <3>2 DEF IInv, LimitsKnown
  <2> QED BY <2>1, <2>2
<1>6. Served'
  BY <1>1 DEF IInv, Served, Owner
<1> QED BY <1>3, <1>4, <1>5, <1>6 DEF IInv

\* Start and BroadcastData: the default serializer of a server is its own.
LEMMA DefaultStep ==
  ASSUME IInv, NEW s \in Server, AddDefaultSerializer(s),
         phase' \in [Owner -> {"none", "building", "failed", "ready", "started"}],
         \A x \in Owner : phase'[x] # phase[x] => x = s /\ phase[x] = "ready" /\ phase'[x] = "started",
         UNCHANGED <<config, uses, applied>>
  PROVE  IInv'
<1> USE DEF AddDefaultSerializer
<1>1. s \in Owner /\ "JSON" \in Encoding /\ Default(s) \in Serializer /\ Default(s) \notin Prepared
  BY SerializerKinds DEF Owner, Encoding, Default
<1>2. /\ serializers' \in [Owner -> [Encoding -> Serializer \cup {NoSerializer}]]
      /\ Default(s) \in Registered(s)'
      /\ Registered(s)' \subseteq Registered(s) \cup {Default(s)}
      /\ \A y \in Owner : y # s => Registered(y)' = Registered(y)
  BY <1>1, RegisteredOne DEF IInv
<1>3. /\ limits' \in [Serializer -> Limits]
      /\ limits'[Default(s)] = DefaultSerializerConfig
      /\ \A o \in Serializer : o # Default(s) => limits'[o] = limits[o]
  BY <1>1, DefaultsValid DEF IInv, Types
<1>4. Types'
  BY <1>2, <1>3 DEF IInv, Types
<1>5. Uses'
  BY <1>1, <1>2, <1>3, SerializerKinds DEF IInv, Uses, Default
<1>6. LimitsKnown'
  <2> SUFFICES ASSUME NEW y \in Owner, NEW q \in Registered(y)', q \in Prepared => uses[q] = 1
               PROVE  limits'[q] \in {config[y].Serialization, Original(q)}
    BY DEF LimitsKnown
  <2>1. CASE q = Default(s)
    BY <1>1, <1>3, <2>1 DEF Original
  <2>2. CASE q # Default(s)
    <3>1. q \in Registered(y) /\ q \in Serializer
      BY <1>2, <2>2, RegisteredSerializers DEF IInv
    <3> QED BY <1>3, <2>2, <3>1 DEF IInv, LimitsKnown
  <2> QED BY <2>1, <2>2
<1>7. Served'
  BY <1>2 DEF IInv, Served, Owner
<1> QED BY <1>4, <1>5, <1>6, <1>7 DEF IInv

LEMMA StartStep ==
  ASSUME IInv, NEW s \in Server, Start(s) PROVE IInv'
<1>1. /\ s \in Owner
      /\ phase' \in [Owner -> {"none", "building", "failed", "ready", "started"}]
      /\ \A x \in Owner : phase'[x] # phase[x] => x = s /\ phase[x] = "ready" /\ phase'[x] = "started"
  BY DEF Start, IInv, Types, Owner
<1>2. CASE NoneRegistered(s)
  BY <1>1, <1>2, DefaultStep DEF Start
<1>3. CASE ~ NoneRegistered(s)
  <2>1. UNCHANGED <<serializers, limits, config, uses, applied>>
    BY <1>3 DEF Start
  <2>2. Types'
    BY <1>1, <2>1 DEF IInv, Types
  <2>3. Uses' /\ LimitsKnown'
    BY <2>1, LimitsKept
  <2>4. Served'
    BY <1>1, <1>3, <2>1, RegisteredSame DEF IInv, Served, NoneRegistered, Owner
  <2> QED BY <2>2, <2>3, <2>4 DEF IInv
<1> QED BY <1>2, <1>3

LEMMA FallbackStep ==
  ASSUME IInv, NEW s \in Server, BroadcastFallback(s) PROVE IInv'
<1>1. phase' \in [Owner -> {"none", "building", "failed", "ready", "started"}]
  BY DEF BroadcastFallback, IInv, Types
<1> QED BY <1>1, DefaultStep DEF BroadcastFallback

LEMMA StepInv == IInv /\ [Next]_vars => IInv'
<1> SUFFICES ASSUME IInv, [Next]_vars PROVE IInv' OBVIOUS
<1>1. ASSUME NEW x \in Owner, New(x) \/ Built(x) \/ ApplyOption(x) \/ ApplyLimit(x) PROVE IInv'
  BY <1>1, NewStep, BuiltStep, OptionStep, LimitStep
<1>2. ASSUME NEW x \in Owner, NEW o \in Prepared, WithSerializer(x, o) PROVE IInv'
  BY <1>2, RegisterStep
<1>3. ASSUME NEW s \in Server, Start(s) \/ BroadcastFallback(s) PROVE IInv'
  BY <1>3, StartStep, FallbackStep
<1>4. CASE UNCHANGED vars
  <2>1. Uses' /\ LimitsKnown'
    BY <1>4, LimitsKept DEF vars
  <2>2. Types'
    BY <1>4 DEF vars, IInv, Types
  <2>3. Served'
    BY <1>4, RegisteredSame DEF vars, IInv, Served, Owner
  <2> QED BY <2>1, <2>2, <2>3 DEF IInv
<1> QED BY <1>1, <1>2, <1>3, <1>4 DEF Next

LEMMA Invariance == Spec => []IInv
BY InitInv, StepInv, PTL DEF Spec
-----------------------------------------------------------------------------
(* The theorems                                                            *)

\* Every configuration, registration and limit has its type, whatever options
\* are applied, and a server that Start has begun to serve has a serializer.
THEOREM TypeCorrect == Spec => []TypeOK
<1>1. IInv => TypeOK
  <2> SUFFICES ASSUME IInv PROVE TypeOK OBVIOUS
  <2>1. uses \in [Prepared -> 0 .. MaxOptions]
    BY OptionsAssumption DEF IInv, Types
  <2> QED BY <2>1 DEF IInv, Types, Served, TypeOK
<1> QED BY <1>1, Invariance, PTL

\* A serializer whose option was applied once enforces the limits of its owner
\* or those it was made with, never those of another, nor a mixture.
THEOREM EnforcedLimitsKnown == Spec => []LimitsKnown
BY Invariance, PTL DEF IInv

\* The configuration of a serializer in use is one the checks are right for.
LEMMA ConfigsValid ==
  ASSUME IInv, NEW z \in Configs
  PROVE  z \in Limits
<1>1. PICK x \in Owner : \E o \in Registered(x) : z = limits[o]
  BY DEF Configs
<1>2. Registered(x) \subseteq Serializer
  BY RegisteredSerializers DEF IInv
<1> QED BY <1>1, <1>2 DEF IInv, Types

LEMMA LimitsPositive ==
  ASSUME NEW z \in Limits
  PROVE  z.MaxDepth \in Nat
BY DEF Limits, Positive

\* The recursive checks accept what their references do.
LEMMA Validated ==
  ASSUME NEW z \in Limits, NEW d \in Datum
  PROVE  /\ ValidateValue(z, d.value, 0) <=> ValueWithin(z, d.value)
         /\ ValidateType(z, d.type, 0) <=> TypeWithin(z, d.type)
<1>1. d.value \in Value /\ d.type \in Type \cup {NoType}
  BY DatumAssumption
<1>2. z.MaxDepth \in Nat /\ 0 <= z.MaxDepth /\ z.MaxDepth - 0 + 1 = z.MaxDepth + 1
  BY LimitsPositive
<1>3. ValidateValue(z, d.value, 0) <=> Inside(Parts, FineValues(z), z.MaxDepth + 1, d.value)
  BY <1>1, <1>2, ValueValidated
<1>4. ValidateType(z, d.type, 0) <=> Inside(Components, FineTypes(z), z.MaxDepth + 1, d.type)
  BY <1>1, <1>2, TypeValidated
<1> QED BY <1>1, <1>2, <1>3, <1>4, ValueReference, TypeReference

\* Under every configuration the options can lead to, and for every value and
\* type, those that contain themselves included, the checks are exact.
THEOREM ValidationIsExact == Spec => []ValidationExact
<1>1. IInv => ValidationExact
  BY ConfigsValid, Validated DEF ValidationExact
<1> QED BY <1>1, Invariance, PTL

\* What a serializer of a server accepts is within the limits it enforces.
LEMMA AcceptedWithin ==
  ASSUME NEW kind, kind # "Raw", NEW z \in Limits, NEW d \in Datum, Marshal(kind, z, d)
  PROVE  ValueWithin(z, d.value) /\ TypeWithin(z, d.type)
BY Validated DEF Marshal

\* No broadcast of data exceeds the limits configured, the defaults and those the
\* serializers of the server were made with.
THEOREM BroadcastsWithinLimits == Spec => []BroadcastsLimited
<1>1. ASSUME IInv, NEW s \in Server, NEW d \in Datum, phase[s] \in {"ready", "started"},
             \A o \in Registered(s) \cap Prepared : uses[o] = 1,
             \A o \in Registered(s) : MadeFor(o) # "Raw",
             \/ BroadcastData(s, d)
             \/ BroadcastJSON(s, d)
             \/ \E e \in Encoding \ {"JSON"} : BroadcastDataWithEncoding(s, d, e)
             \/ BroadcastToRoomData(s, d) /\ serializers[s][config[s].DefaultEncoding] # NoSerializer
      PROVE  \E z \in {config[s].Serialization, DefaultSerializerConfig} \cup {Original(o) : o \in Registered(s)} :
               ValueWithin(z, d.value) /\ TypeWithin(z, d.type)
  <2> DEFINE Limited == \E z \in {config[s].Serialization, DefaultSerializerConfig} \cup {Original(o) : o \in Registered(s)} :
                          ValueWithin(z, d.value) /\ TypeWithin(z, d.type)
  <2>1. s \in Owner /\ "JSON" \in Encoding /\ config[s].DefaultEncoding \in Encoding
    BY <1>1 DEF IInv, Types, Config, Owner, Encoding
  <2>2. ASSUME NEW e \in Encoding, NEW o, o = serializers[s][e], o # NoSerializer, Accepts(o, d)
        PROVE  Limited
    <3>1. o \in Registered(s)
      BY <2>2 DEF Registered
    <3>2. limits[o] \in {config[s].Serialization, Original(o)}
      BY <1>1, <2>1, <3>1 DEF IInv, LimitsKnown
    <3>3. limits[o] \in Limits
      BY <1>1, <2>1, <3>1, RegisteredSerializers DEF IInv, Types
    <3>4. MadeFor(o) # "Raw" /\ Marshal(MadeFor(o), limits[o], d)
      BY <1>1, <2>2, <3>1 DEF Accepts
    <3>5. ValueWithin(limits[o], d.value) /\ TypeWithin(limits[o], d.type)
      BY <3>3, <3>4, AcceptedWithin
    <3> QED BY <3>1, <3>2, <3>5
  <2>3. ASSUME FallbackAccepts(d) PROVE Limited
    <3>1. ValueWithin(DefaultSerializerConfig, d.value) /\ TypeWithin(DefaultSerializerConfig, d.type)
      BY <2>3, DefaultsValid, AcceptedWithin DEF FallbackAccepts
    <3> QED BY <3>1
  <2> HIDE DEF Limited
  <2>4. ASSUME BroadcastData(s, d) PROVE Limited
    BY <2>1, <2>2, <2>3, <2>4 DEF BroadcastData
  <2>5. ASSUME BroadcastJSON(s, d) \/ \E e \in Encoding \ {"JSON"} : BroadcastDataWithEncoding(s, d, e) PROVE Limited
    BY <2>1, <2>2, <2>5 DEF BroadcastJSON, BroadcastDataWithEncoding
  <2>6. ASSUME BroadcastToRoomData(s, d) /\ serializers[s][config[s].DefaultEncoding] # NoSerializer PROVE Limited
    BY <2>1, <2>2, <2>6 DEF BroadcastToRoomData
  <2>7. Limited
    BY <1>1, <2>4, <2>5, <2>6
  <2> QED BY <2>7 DEF Limited
<1>2. IInv => BroadcastsLimited
  BY <1>1 DEF BroadcastsLimited
<1> QED BY <1>2, Invariance, PTL
=============================================================================
