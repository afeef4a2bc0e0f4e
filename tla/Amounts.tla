------------------------------- MODULE Amounts --------------------------------
(***************************************************************************)
(* Facts about numbers that the proofs rest on.  First what a proof by     *)
(* induction needs: a least element, and that a recursive definition over  *)
(* a range has a solution.  Then sums over finite sets, and the arithmetic *)
(* of the ceilings: a calls of at most c each, w callers, t on the books,  *)
(* l the limit.                                                            *)
(***************************************************************************)
EXTENDS Integers, Functions, FiniteSetTheorems, TLAPS

\* A set of naturals has a least element.
LEMMA NatMin ==
  ASSUME NEW T, T \subseteq Nat, T # {}
  PROVE  \E m \in T : \A n \in T : m <= n
<1>1. PICK m \in T : \A n \in T : ~(<<n, m>> \in OpToRel(<, Nat))
  BY NatLessThanWellFounded, WFMin
<1>2. \A n \in T : ~(n < m)
  BY <1>1 DEF OpToRel
<1>3. QED
  BY <1>2

\* Induction up to n: what holds first, and goes on holding, always holds.
LEMMA UpTo ==
  ASSUME NEW n \in Nat, NEW Good, 0 \in Good,
         \A i \in 1..n : i - 1 \in Good => i \in Good
  PROVE  0..n \subseteq Good
<1>. DEFINE Bad == {i \in 0..n : i \notin Good}
<1>1. SUFFICES ASSUME Bad # {} PROVE FALSE
  OBVIOUS
<1>2. PICK m \in Bad : \A i \in Bad : m <= i
  <2>1. Bad \subseteq Nat
    OBVIOUS
  <2>. HIDE DEF Bad
  <2>2. QED
    BY <1>1, <2>1, NatMin
<1>3. m # 0 /\ m \in 1..n /\ m - 1 \in 0..n
  BY <1>2
<1>4. m - 1 \in Good
  BY <1>2, <1>3
<1>5. QED
  BY <1>2, <1>3, <1>4

\* n values of R after a first one, each given by a step from the one before.
Follow(n, R, first, step, f) ==
  /\ f \in [0..n -> R]
  /\ f[0] = first
  /\ \A i \in 1..n : f[i] = step[i][f[i - 1]]

\* Such values exist, for as long as wanted.
LEMMA Recursion ==
  ASSUME NEW n \in Nat, NEW R, NEW first \in R, NEW step \in [1..n -> [R -> R]]
  PROVE  \E f : Follow(n, R, first, step, f)
<1>. DEFINE Good == {k \in 0..n : \E f : Follow(k, R, first, step, f)}
<1>1. 0 \in Good
  <2>. DEFINE f == [i \in 0..0 |-> first]
  <2>1. f \in [0..0 -> R] /\ f[0] = first /\ \A i \in 1..0 : FALSE
    OBVIOUS
  <2>. HIDE DEF f
  <2>2. Follow(0, R, first, step, f)
    BY <2>1 DEF Follow
  <2>3. QED
    BY <2>2
<1>2. ASSUME NEW k \in 1..n, k - 1 \in Good PROVE k \in Good
  <2>1. PICK f \in [0..(k - 1) -> R] :
          f[0] = first /\ \A i \in 1..(k - 1) : f[i] = step[i][f[i - 1]]
    BY <1>2 DEF Follow
  <2>. DEFINE next == step[k][f[k - 1]]
              g == [i \in 0..k |-> IF i = k THEN next ELSE f[i]]
  <2>2. k \in 1..n /\ k - 1 \in 0..(k - 1) /\ next \in R
    <3>1. k - 1 \in 0..(k - 1)
      OBVIOUS
    <3>2. f[k - 1] \in R /\ step[k] \in [R -> R]
      BY <2>1, <3>1
    <3>3. QED
      BY <3>1, <3>2
  <2>. HIDE DEF next
  <2>3. /\ \A i \in 0..k : i = k \/ i \in 0..(k - 1)
        /\ 0 \in 0..(k - 1) /\ 0 # k
    BY <2>2
  <2>5. g \in [0..k -> R]
    BY <2>1, <2>2, <2>3
  <2>6. g[0] = first
    BY <2>1, <2>2, <2>3
  <2>4. ASSUME NEW i \in 1..k PROVE g[i] = step[i][g[i - 1]]
    <3>1. i \in 0..k /\ i - 1 \in 0..k /\ i - 1 # k /\ g[i - 1] = f[i - 1]
      OBVIOUS
    <3>2. CASE i = k
      BY <3>1, <3>2 DEF next
    <3>3. CASE i # k
      BY <3>1, <3>3, <2>1
    <3>4. QED
      BY <3>2, <3>3
  <2>. HIDE DEF g
  <2>7. k \in 0..n
    OBVIOUS
  <2>8. \A i \in 1..k : g[i] = step[i][g[i - 1]]
    BY <2>4
  <2>9. Follow(k, R, first, step, g)
    BY <2>5, <2>6, <2>8 DEF Follow
  <2>10. QED
    BY <2>7, <2>9
<1>. HIDE DEF Good
<1>3. \A k \in 1..n : k - 1 \in Good => k \in Good
  BY <1>2
<1>4. 0..n \subseteq Good
  BY <1>1, <1>3, UpTo
<1>5. n \in Good
  BY <1>4
<1>6. QED
  BY <1>5 DEF Good

-----------------------------------------------------------------------------
(* Sums over finite sets, for any order of summation. *)

\* A collection of subsets of a finite set has a smallest member.
LEMMA SmallestSet ==
  ASSUME NEW S, IsFiniteSet(S), NEW C, C \subseteq SUBSET S, C # {}
  PROVE  \E m \in C : \A t \in C : t \subseteq m => t = m
<1>. DEFINE T == {Cardinality(s) : s \in C}
<1>1. \A s \in C : IsFiniteSet(s) /\ Cardinality(s) \in Nat
  BY FS_Subset, FS_CardinalityType
<1>2. T \subseteq Nat /\ T # {}
  BY <1>1
<1>3. PICK n \in T : \A k \in T : n <= k
  <2>. HIDE DEF T
  <2>1. QED
    BY <1>2, NatMin
<1>4. PICK m \in C : n = Cardinality(m)
  OBVIOUS
<1>5. ASSUME NEW t \in C, t \subseteq m PROVE t = m
  <2>1. Cardinality(m) <= Cardinality(t)
    BY <1>3, <1>4
  <2>2. Cardinality(t) <= Cardinality(m)
    BY <1>1, <1>5, FS_Subset
  <2>3. Cardinality(t) = Cardinality(m)
    BY <1>1, <2>1, <2>2
  <2>4. QED
    BY <1>1, <1>5, <2>3, FS_Subset
<1>6. QED
  BY <1>5

\* The sums of the subsets of S, as the fold adds them up.
Pick(s) == CHOOSE x \in s : TRUE

Sums(f, S, h) ==
  h = [s \in SUBSET S |-> IF s = {} THEN 0 ELSE f[Pick(s)] + h[s \ {Pick(s)}]]

LEMMA SumIsFold ==
  ASSUME NEW f, NEW S
  PROVE  SumFunctionOnSet(f, S) = (CHOOSE h : Sums(f, S, h))[S]
BY DEF SumFunctionOnSet, FoldFunctionOnSet, MapThenFoldSet, Sums, Pick

\* There are such sums: those of the sets of k elements follow from those of
\* the sets of k - 1.
LEMMA SumsExist ==
  ASSUME NEW S, IsFiniteSet(S), NEW f, \A x \in S : f[x] \in Nat
  PROVE  \E h \in [SUBSET S -> Nat] : Sums(f, S, h)
<1>. DEFINE n == Cardinality(S)
            R == [SUBSET S -> Nat]
            first == [s \in SUBSET S |-> 0]
            more(h) == [s \in SUBSET S |->
                          IF s = {} THEN 0 ELSE f[Pick(s)] + h[s \ {Pick(s)}]]
            step == [i \in 1..n |-> [h \in R |-> more(h)]]
<1>1. n \in Nat /\ \A s \in SUBSET S : /\ IsFiniteSet(s)
                                       /\ Cardinality(s) \in 0..n
  BY FS_Subset, FS_CardinalityType
<1>2. \A s \in SUBSET S : s # {} => /\ Pick(s) \in s
                                    /\ s \ {Pick(s)} \in SUBSET S
  BY DEF Pick
<1>3. ASSUME NEW h \in R PROVE more(h) \in R
  <2>1. ASSUME NEW s \in SUBSET S, s # {}
        PROVE  f[Pick(s)] + h[s \ {Pick(s)}] \in Nat
    BY <1>2, <2>1
  <2>2. QED
    BY <2>1
<1>4. first \in R
  OBVIOUS
<1>. HIDE DEF R, more
<1>5. step \in [1..n -> [R -> R]]
  BY <1>3
<1>6. PICK g : Follow(n, R, first, step, g)
  <2>. HIDE DEF n, step, first
  <2>1. QED
    BY <1>1, <1>4, <1>5, Recursion
<1>7. /\ \A i \in 0..n : g[i] \in R
      /\ g[0] = first
      /\ \A i \in 1..n : g[i] = more(g[i - 1])
  <2>1. \A i \in 1..n : i - 1 \in 0..n
    BY <1>1
  <2>2. \A i \in 0..n : g[i] \in R
    BY <1>6 DEF Follow
  <2>3. \A i \in 1..n : step[i][g[i - 1]] = more(g[i - 1])
    BY <2>1, <2>2
  <2>. HIDE DEF step, first, n
  <2>4. QED
    BY <1>6, <2>2, <2>3 DEF Follow
<1>. DEFINE h == [s \in SUBSET S |-> g[Cardinality(s)][s]]
<1>. HIDE DEF n
<1>8. h \in [SUBSET S -> Nat]
  BY <1>1, <1>7 DEF R
<1>9. ASSUME NEW s \in SUBSET S
      PROVE  h[s] = IF s = {} THEN 0 ELSE f[Pick(s)] + h[s \ {Pick(s)}]
  <2>1. CASE s = {}
    <3>1. Cardinality(s) = 0
      BY <2>1, FS_EmptySet
    <3>2. QED
      BY <1>7, <2>1, <3>1
  <2>2. CASE s # {}
    <3>. DEFINE x == Pick(s)
    <3>1. x \in s /\ s \ {x} \in SUBSET S
      BY <1>2, <2>2
    <3>2. Cardinality(s \ {x}) = Cardinality(s) - 1
      BY <1>1, <3>1, FS_RemoveElement
    <3>3. Cardinality(s) \in 1..n
      BY <1>1, <3>1, <3>2
    <3>4. g[Cardinality(s)] = more(g[Cardinality(s) - 1])
      BY <1>7, <3>3
    <3>5. g[Cardinality(s)][s] = f[x] + g[Cardinality(s) - 1][s \ {x}]
      BY <2>2, <3>4 DEF more
    <3>6. QED
      BY <2>2, <3>1, <3>2, <3>5
  <2>3. QED
    BY <2>1, <2>2
<1>10. Sums(f, S, h)
  BY <1>9 DEF Sums
<1>11. QED
  BY <1>8, <1>10

\* They are the same whichever set they are taken from.
LEMMA SumsAgree ==
  ASSUME NEW S, IsFiniteSet(S), NEW T \in SUBSET S, NEW f,
         NEW h, Sums(f, S, h), NEW k, Sums(f, T, k)
  PROVE  h[T] = k[T]
<1>. DEFINE Bad == {s \in SUBSET T : h[s] # k[s]}
<1>1. SUFFICES ASSUME Bad # {} PROVE FALSE
  <2>1. T \in SUBSET T
    OBVIOUS
  <2>2. QED
    BY <2>1
<1>2. Bad \subseteq SUBSET S
  OBVIOUS
<1>3. PICK m \in Bad : \A t \in Bad : t \subseteq m => t = m
  <2>. HIDE DEF Bad
  <2>1. QED
    BY <1>1, <1>2, SmallestSet
<1>4. m \in SUBSET S /\ m \in SUBSET T /\ h[m] # k[m]
  OBVIOUS
<1>5. /\ h[m] = IF m = {} THEN 0 ELSE f[Pick(m)] + h[m \ {Pick(m)}]
      /\ k[m] = IF m = {} THEN 0 ELSE f[Pick(m)] + k[m \ {Pick(m)}]
  BY <1>4 DEF Sums
<1>6. m # {} /\ Pick(m) \in m
  BY <1>4, <1>5 DEF Pick
<1>7. m \ {Pick(m)} \in SUBSET T /\ m \ {Pick(m)} # m
  BY <1>4, <1>6
<1>8. m \ {Pick(m)} \notin Bad
  <2>. HIDE DEF Bad
  <2>1. QED
    BY <1>3, <1>7
<1>9. h[m \ {Pick(m)}] = k[m \ {Pick(m)}]
  BY <1>7, <1>8
<1>10. QED
  BY <1>4, <1>5, <1>6, <1>9

\* The sum of a finite set, one element taken out as the fold takes it.
LEMMA SumFolds ==
  ASSUME NEW S, IsFiniteSet(S), NEW f, \A x \in S : f[x] \in Nat
  PROVE  /\ SumFunctionOnSet(f, S) \in Nat
         /\ S = {} => SumFunctionOnSet(f, S) = 0
         /\ S # {} => SumFunctionOnSet(f, S)
                        = f[Pick(S)] + SumFunctionOnSet(f, S \ {Pick(S)})
<1>. DEFINE T == S \ {Pick(S)}
            h == CHOOSE h : Sums(f, S, h)
            k == CHOOSE k : Sums(f, T, k)
<1>1. \E x \in [SUBSET S -> Nat] : Sums(f, S, x)
  BY SumsExist
<1>2. Sums(f, S, h)
  BY <1>1
<1>3. Sums(f, T, k)
  <2>1. IsFiniteSet(T)
    BY FS_RemoveElement
  <2>2. \A x \in T : f[x] \in Nat
    OBVIOUS
  <2>. HIDE DEF T
  <2>3. \E x \in [SUBSET T -> Nat] : Sums(f, T, x)
    BY <2>1, <2>2, SumsExist
  <2>4. QED
    BY <2>3
<1>4. SumFunctionOnSet(f, S) = h[S] /\ SumFunctionOnSet(f, T) = k[T]
  BY SumIsFold
<1>. HIDE DEF h, k
<1>5. h[T] = k[T]
  BY <1>2, <1>3, SumsAgree
<1>6. h[S] \in Nat
  <2>1. PICK x \in [SUBSET S -> Nat] : Sums(f, S, x)
    BY <1>1
  <2>2. x[S] = h[S]
    BY <1>2, <2>1, SumsAgree
  <2>3. QED
    BY <2>1, <2>2
<1>7. h[S] = IF S = {} THEN 0 ELSE f[Pick(S)] + h[T]
  BY <1>2 DEF Sums
<1>8. QED
  BY <1>4, <1>5, <1>6, <1>7

\* The same, whichever element is taken out.
LEMMA SumWithout ==
  ASSUME NEW S, IsFiniteSet(S), NEW f, \A x \in S : f[x] \in Nat, NEW e \in S
  PROVE  /\ SumFunctionOnSet(f, S \ {e}) \in Nat
         /\ SumFunctionOnSet(f, S) = f[e] + SumFunctionOnSet(f, S \ {e})
<1>. DEFINE sum(s) == SumFunctionOnSet(f, s)
            Bad == {s \in SUBSET S : \E x \in s : sum(s) # f[x] + sum(s \ {x})}
<1>1. \A s \in SUBSET S : IsFiniteSet(s) /\ \A x \in s : f[x] \in Nat
  BY FS_Subset
<1>2. ASSUME NEW s \in SUBSET S
      PROVE  /\ sum(s) \in Nat
             /\ s # {} => sum(s) = f[Pick(s)] + sum(s \ {Pick(s)})
  BY <1>1, SumFolds
<1>. HIDE DEF sum
<1>3. SUFFICES ASSUME Bad # {} PROVE FALSE
  <2>1. S \in SUBSET S /\ S \ {e} \in SUBSET S
    OBVIOUS
  <2>2. QED
    BY <1>2, <2>1 DEF sum
<1>4. PICK m \in Bad : \A t \in Bad : t \subseteq m => t = m
  <2>1. Bad \subseteq SUBSET S
    OBVIOUS
  <2>. HIDE DEF Bad
  <2>2. QED
    BY <1>3, <2>1, SmallestSet
<1>5. PICK x \in m : sum(m) # f[x] + sum(m \ {x})
  OBVIOUS
<1>. DEFINE y == Pick(m)
            rest == (m \ {x}) \ {y}
<1>6. /\ m \in SUBSET S /\ y \in m /\ x \in m
      /\ rest = (m \ {y}) \ {x}
      /\ rest \in SUBSET S /\ m \ {x} \in SUBSET S /\ m \ {y} \in SUBSET S
  BY DEF Pick
<1>7. sum(m) = f[y] + sum(m \ {y})
  BY <1>2, <1>6
<1>8. x # y
  BY <1>5, <1>7
<1>9. m \ {x} \notin Bad /\ m \ {y} \notin Bad
  <2>1. /\ m \ {x} \subseteq m /\ m \ {x} # m
        /\ m \ {y} \subseteq m /\ m \ {y} # m
    BY <1>6
  <2>. HIDE DEF Bad
  <2>2. QED
    BY <1>4, <2>1
<1>10. sum(m \ {x}) = f[y] + sum(rest) /\ sum(m \ {y}) = f[x] + sum(rest)
  <2>1. y \in m \ {x} /\ x \in m \ {y}
    BY <1>6, <1>8
  <2>2. sum(m \ {x}) = f[y] + sum((m \ {x}) \ {y})
    BY <1>6, <1>9, <2>1
  <2>3. sum(m \ {y}) = f[x] + sum((m \ {y}) \ {x})
    BY <1>6, <1>9, <2>1
  <2>4. QED
    BY <1>6, <2>2, <2>3
<1>11. f[x] \in Nat /\ f[y] \in Nat /\ sum(rest) \in Nat
  BY <1>1, <1>2, <1>6
<1>. HIDE DEF y, rest, Bad
<1>12. QED
  BY <1>5, <1>7, <1>10, <1>11

\* A sum depends on the values in its set only.
LEMMA SumSame ==
  ASSUME NEW S, IsFiniteSet(S), NEW f, \A x \in S : f[x] \in Nat,
         NEW g, \A x \in S : g[x] = f[x]
  PROVE  SumFunctionOnSet(g, S) = SumFunctionOnSet(f, S)
<1>. DEFINE Bad == {s \in SUBSET S :
                      SumFunctionOnSet(g, s) # SumFunctionOnSet(f, s)}
<1>1. SUFFICES ASSUME Bad # {} PROVE FALSE
  <2>1. S \in SUBSET S
    OBVIOUS
  <2>2. QED
    BY <2>1
<1>2. PICK m \in Bad : \A t \in Bad : t \subseteq m => t = m
  <2>1. Bad \subseteq SUBSET S
    OBVIOUS
  <2>. HIDE DEF Bad
  <2>2. QED
    BY <1>1, <2>1, SmallestSet
<1>3. /\ m \in SUBSET S /\ IsFiniteSet(m)
      /\ \A x \in m : f[x] \in Nat /\ g[x] = f[x] /\ g[x] \in Nat
  BY FS_Subset
<1>. DEFINE sum(s) == SumFunctionOnSet(f, s)
            other(s) == SumFunctionOnSet(g, s)
<1>4. /\ m = {} => sum(m) = 0 /\ other(m) = 0
      /\ m # {} => /\ sum(m) = f[Pick(m)] + sum(m \ {Pick(m)})
                   /\ other(m) = g[Pick(m)] + other(m \ {Pick(m)})
  BY <1>3, SumFolds
<1>5. sum(m) # other(m)
  OBVIOUS
<1>6. m # {} /\ Pick(m) \in m
  BY <1>4, <1>5 DEF Pick
<1>7. m \ {Pick(m)} \in SUBSET S /\ m \ {Pick(m)} \notin Bad
  <2>1. m \ {Pick(m)} \subseteq m /\ m \ {Pick(m)} # m
    BY <1>6
  <2>. HIDE DEF Bad
  <2>2. QED
    BY <1>2, <1>3, <2>1
<1>8. sum(m \ {Pick(m)}) = other(m \ {Pick(m)})
  BY <1>7
<1>. HIDE DEF sum, other, Bad
<1>9. QED
  BY <1>3, <1>4, <1>5, <1>6, <1>8

-----------------------------------------------------------------------------
(* The arithmetic of the ceilings. *)

LEMMA Product ==
  ASSUME NEW a \in Nat, NEW b \in Nat PROVE a * b \in Nat
BY SMT

\* Fewer calls of one price cost at most as much.
LEMMA Dearer ==
  ASSUME NEW a \in Nat, NEW b \in Nat, NEW c \in Nat, a <= b
  PROVE  a * c <= b * c
<1>1. PICK d \in Nat : b = a + d
  BY b - a \in Nat, b = a + (b - a), SMT
<1>2. b * c = a * c + d * c /\ a * c \in Nat /\ d * c \in Nat
  BY <1>1, SMT
<1>3. QED
  BY <1>2, SMT

LEMMA OneMore ==
  ASSUME NEW a \in Nat, NEW c \in Nat PROVE (a + 1) * c = a * c + c
BY SMT

\* Below the limit there is room for all callers.
LEMMA BelowLimit ==
  ASSUME NEW t \in Nat, NEW l \in Nat, NEW w \in Nat, NEW c \in Nat,
         NEW a \in Nat, t < l, a <= w
  PROVE  t + a * c < l + w * c
<1>1. a * c <= w * c /\ a * c \in Nat /\ w * c \in Nat
  BY Dearer, Product
<1>2. QED
  BY <1>1

\* A call that ends was counted at its full price.
LEMMA CallEnds ==
  ASSUME NEW t \in Nat, NEW l \in Nat, NEW w \in Nat, NEW c \in Nat,
         NEW a \in Nat, NEW b \in Nat, a = b + 1,
         NEW cost \in Nat, cost <= c, t + a * c < l + w * c
  PROVE  (t + cost) + b * c < l + w * c
<1>1. a * c = b * c + c /\ b * c \in Nat /\ w * c \in Nat
  BY OneMore, Product
<1>. DEFINE ac == a * c
            bc == b * c
            wc == w * c
<1>2. ac = bc + c /\ bc \in Nat /\ wc \in Nat /\ t + ac < l + wc
  BY <1>1
<1>. HIDE DEF ac, bc, wc
<1>3. (t + cost) + bc < l + wc
  BY <1>2
<1>4. QED
  BY <1>3 DEF bc, wc

\* A higher limit leaves more room.
LEMMA HigherLimit ==
  ASSUME NEW t \in Nat, NEW l \in Nat, NEW m \in Nat, NEW w \in Nat,
         NEW c \in Nat, NEW a \in Nat, l <= m, t + a * c < l + w * c
  PROVE  t + a * c < m + w * c
<1>1. a * c \in Nat /\ w * c \in Nat
  BY Product
<1>2. QED
  BY <1>1

\* A larger allowance: r of them are worth more.
LEMMA LargerAllowance ==
  ASSUME NEW p \in Nat, NEW r \in Nat, NEW l \in Nat, NEW m \in Nat,
         l <= m, p <= r * l
  PROVE  p <= r * m
<1>1. l * r <= m * r /\ l * r = r * l /\ m * r = r * m
  BY Dearer, SMT
<1>. DEFINE rl == r * l
            rm == r * m
<1>2. rl \in Nat /\ rm \in Nat /\ p <= rl /\ rl <= rm
  BY <1>1, Product
<1>. HIDE DEF rl, rm
<1>3. p <= rm
  BY <1>2
<1>4. QED
  BY <1>3 DEF rm

\* What was spent under r allowances, and less than another one.
LEMMA AnotherAllowance ==
  ASSUME NEW p \in Nat, NEW r \in Nat, NEW l \in Nat, NEW t \in Nat,
         t < l, p <= r * l
  PROVE  t + p < (r + 1) * l
<1>1. (r + 1) * l = r * l + l /\ r * l \in Nat
  BY OneMore, Product
<1>. DEFINE rl == r * l
<1>2. rl \in Nat /\ p <= rl /\ (r + 1) * l = rl + l
  BY <1>1
<1>. HIDE DEF rl
<1>3. t + p < rl + l
  BY <1>2
<1>4. QED
  BY <1>2, <1>3
=============================================================================
