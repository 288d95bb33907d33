----------------------------- MODULE TotalsProofs -----------------------------
(***************************************************************************)
(* The laws of sums: a total does not depend on the order in which the     *)
(* fold takes the values (TotalIsSum), is the value of an element plus the *)
(* total of the others (TotalRemove), and adds, grows and counts as it     *)
(* should.  The induction over finite sets is a minimal counterexample     *)
(* (Minimal), since sets of a finite set are well-founded by inclusion.    *)
(***************************************************************************)
EXTENDS Totals, FiniteSetTheorems, WellFoundedInduction, TLAPS

\* A nonempty collection of subsets of a finite set has a smallest one: what
\* induction over finite sets rests on here.
LEMMA Minimal ==
    ASSUME NEW D, IsFiniteSet(D), NEW C \in SUBSET (SUBSET D), C # {}
    PROVE  \E s \in C : \A u \in C : u \subseteq s => u = s
  <1>1. C \subseteq FiniteSubsetsOf(D)
    BY FS_Subset DEF FiniteSubsetsOf
  <1>2. IsWellFoundedOn(StrictSubsetOrdering(D), FiniteSubsetsOf(D))
    BY FS_StrictSubsetOrderingWellFounded
  <1>3. PICK s \in C : \A u \in C : <<u, s>> \notin StrictSubsetOrdering(D)
    BY <1>1, <1>2, WFMin
  <1> QED BY <1>3 DEF StrictSubsetOrdering

\* g gives the sum of f over every subset of D.
IsSum(g, f, D) ==
    /\ g \in [SUBSET D -> Int]
    /\ g[{}] = 0
    /\ \A s \in SUBSET D : \A x \in s : g[s] = f[x] + g[s \ {x}]

\* Two sums of functions that agree on D are one.
LEMMA SumUnique ==
    ASSUME NEW D, IsFiniteSet(D), NEW f, NEW h, \A x \in D : f[x] = h[x] /\ f[x] \in Int,
           NEW g, NEW k, IsSum(g, f, D), IsSum(k, h, D)
    PROVE  \A s \in SUBSET D : g[s] = k[s]
  <1> DEFINE wrong == {s \in SUBSET D : g[s] # k[s]}
  <1> SUFFICES ASSUME wrong # {} PROVE FALSE
    OBVIOUS
  <1>1. wrong \in SUBSET (SUBSET D)
    OBVIOUS
  <1>2. PICK s \in wrong : \A u \in wrong : u \subseteq s => u = s
    <2> HIDE DEF wrong
    <2> QED BY <1>1, Minimal
  <1>3. s # {} /\ s \in SUBSET D
    BY DEF IsSum
  <1>4. PICK x \in s : TRUE
    BY <1>3
  <1>5. s \ {x} \in SUBSET D /\ s \ {x} \notin wrong
    BY <1>2, <1>3, <1>4
  <1>6. g[s] = f[x] + g[s \ {x}] /\ k[s] = h[x] + k[s \ {x}]
    BY <1>3, <1>4 DEF IsSum
  <1> QED BY <1>3, <1>4, <1>5, <1>6

\* Every function from a finite set to the integers has a sum.
LEMMA SumExists ==
    ASSUME NEW D, IsFiniteSet(D), NEW f, \A x \in D : f[x] \in Int
    PROVE  \E g : IsSum(g, f, D)
  <1> DEFINE wrong == {s \in SUBSET D : ~ \E g : IsSum(g, f, s)}
  <1> SUFFICES ASSUME wrong # {} PROVE FALSE
    OBVIOUS
  <1>1. wrong \in SUBSET (SUBSET D)
    OBVIOUS
  <1>2. PICK s \in wrong : \A u \in wrong : u \subseteq s => u = s
    <2> HIDE DEF wrong
    <2> QED BY <1>1, Minimal
  <1>3. s # {}
    <2>1. IsSum([u \in SUBSET {} |-> 0], f, {})
      BY DEF IsSum
    <2> QED BY <2>1
  <1>4. PICK e \in s : TRUE
    BY <1>3
  <1> DEFINE r == s \ {e}
  <1>5. r \in SUBSET D /\ r \notin wrong
    BY <1>2, <1>4
  <1>6. PICK g : IsSum(g, f, r)
    BY <1>5
  <1> DEFINE k == [u \in SUBSET s |-> IF e \in u THEN f[e] + g[u \ {e}] ELSE g[u]]
  <1>7. f[e] \in Int /\ \A x \in s : f[x] \in Int
    BY <1>4
  <1>8. \A u \in SUBSET s : u \ {e} \in SUBSET r /\ (e \notin u => u \in SUBSET r)
    OBVIOUS
  <1>9. k \in [SUBSET s -> Int] /\ k[{}] = 0
    BY <1>6, <1>7, <1>8 DEF IsSum
  <1>10. ASSUME NEW u \in SUBSET s, NEW x \in u
         PROVE  k[u] = f[x] + k[u \ {x}]
    <2>0. u \ {x} \in SUBSET s /\ g \in [SUBSET r -> Int]
      BY <1>6 DEF IsSum
    <2>1. CASE x = e
      BY <2>0, <2>1, <1>8
    <2>2. CASE x # e /\ e \in u
      <3>1. g[u \ {e}] = f[x] + g[(u \ {e}) \ {x}]
        BY <1>6, <1>8, <2>2 DEF IsSum
      <3>2. (u \ {e}) \ {x} = (u \ {x}) \ {e}
        OBVIOUS
      <3>3. g[(u \ {x}) \ {e}] \in Int
        BY <2>0, <1>8
      <3>4. k[u] = f[e] + g[u \ {e}] /\ k[u \ {x}] = f[e] + g[(u \ {x}) \ {e}]
        BY <2>0, <2>2
      <3>5. k[u] = f[e] + (f[x] + g[(u \ {x}) \ {e}])
        BY <3>1, <3>2, <3>4
      <3> HIDE DEF k
      <3> QED BY <3>3, <3>4, <3>5, <1>7
    <2>3. CASE e \notin u
      <3>1. g[u] = f[x] + g[u \ {x}]
        BY <1>6, <1>8, <2>3 DEF IsSum
      <3> QED BY <3>1, <2>0, <2>3
    <2> QED BY <2>1, <2>2, <2>3
  <1>11. IsSum(k, f, s)
    <2> HIDE DEF k
    <2> QED BY <1>9, <1>10 DEF IsSum
  <1> QED BY <1>11

Element(s) == CHOOSE x \in s : TRUE

Iterates(iter, f, D) ==
    iter = [s \in SUBSET D |-> IF s = {} THEN 0 ELSE f[Element(s)] + iter[s \ {Element(s)}]]

\* The library's fold is the function that follows the choices of Element.
LEMMA TotalUnfolds ==
    ASSUME NEW f
    PROVE  Total(f) = (CHOOSE iter : Iterates(iter, f, DOMAIN f))[DOMAIN f]
  BY DEF Total, MapThenSumSet, MapThenFoldSet, Iterates, Element

\* Total is the sum, whatever the order in which the fold takes the elements.
LEMMA TotalIsSum ==
    ASSUME NEW D, IsFiniteSet(D), NEW f \in [D -> Int], NEW g, IsSum(g, f, D)
    PROVE  Total(f) = g[D]
  <1> DEFINE it == CHOOSE iter : Iterates(iter, f, D)
  <1>1. \A s : s # {} => Element(s) \in s
    BY DEF Element
  <1>2. Iterates(g, f, D)
    <2>1. \A s \in SUBSET D :
             g[s] = IF s = {} THEN 0 ELSE f[Element(s)] + g[s \ {Element(s)}]
      BY <1>1 DEF IsSum
    <2>2. g \in [SUBSET D -> Int]
      BY DEF IsSum
    <2>3. g = [s \in SUBSET D |-> g[s]]
      BY <2>2
    <2> QED BY <2>1, <2>3 DEF Iterates
  <1>3. Iterates(it, f, D)
    BY <1>2
  <1> HIDE DEF it
  <1>4. ASSUME NEW s \in SUBSET D
        PROVE  it[s] = IF s = {} THEN 0 ELSE f[Element(s)] + it[s \ {Element(s)}]
    BY <1>3 DEF Iterates
  <1> DEFINE wrong == {s \in SUBSET D : it[s] # g[s]}
  <1>5. wrong = {}
    <2> SUFFICES ASSUME wrong # {} PROVE FALSE
      OBVIOUS
    <2>1. PICK s \in wrong : \A u \in wrong : u \subseteq s => u = s
      <3>1. wrong \in SUBSET (SUBSET D)
        OBVIOUS
      <3> HIDE DEF wrong
      <3> QED BY <3>1, Minimal
    <2>2. s # {} /\ s \in SUBSET D
      BY <1>4 DEF IsSum
    <2> DEFINE x == Element(s)
    <2>3. x \in s /\ s \ {x} \in SUBSET D
      BY <2>2, <1>1
    <2>4. s \ {x} \notin wrong
      BY <2>1, <2>3
    <2>5. g[s] = f[x] + g[s \ {x}]
      BY <2>2, <2>3 DEF IsSum
    <2>6. it[s] = f[x] + it[s \ {x}]
      BY <2>2, <1>4
    <2> QED BY <2>2, <2>3, <2>4, <2>5, <2>6
  <1>6. it[D] = g[D]
    BY <1>5
  <1>7. DOMAIN f = D
    OBVIOUS
  <1> QED BY <1>6, <1>7, TotalUnfolds DEF it

-----------------------------------------------------------------------------
(* What the modules use of Total.                                          *)

\* A total of integers is an integer, one of natural numbers a natural number.
LEMMA TotalType ==
    ASSUME NEW D, IsFiniteSet(D)
    PROVE  /\ \A f \in [D -> Int] : Total(f) \in Int
           /\ \A f \in [D -> Nat] : Total(f) \in Nat
  <1>1. ASSUME NEW f \in [D -> Int] PROVE Total(f) \in Int
    <2>1. PICK g : IsSum(g, f, D)
      BY SumExists
    <2>2. Total(f) = g[D]
      BY <2>1, TotalIsSum
    <2> QED BY <2>1, <2>2 DEF IsSum
  <1>2. ASSUME NEW f \in [D -> Nat] PROVE Total(f) \in Nat
    <2>1. PICK g : IsSum(g, f, D)
      BY SumExists
    <2>2. Total(f) = g[D]
      BY <2>1, TotalIsSum
    <2> DEFINE wrong == {s \in SUBSET D : g[s] \notin Nat}
    <2>3. wrong = {}
      <3> SUFFICES ASSUME wrong # {} PROVE FALSE
        OBVIOUS
      <3>1. PICK s \in wrong : \A u \in wrong : u \subseteq s => u = s
        <4>1. wrong \in SUBSET (SUBSET D)
          OBVIOUS
        <4> HIDE DEF wrong
        <4> QED BY <4>1, Minimal
      <3>2. s # {} /\ s \in SUBSET D
        <4>1. g[{}] \in Nat
          BY <2>1 DEF IsSum
        <4>2. s \in SUBSET D /\ g[s] \notin Nat
          OBVIOUS
        <4> QED BY <4>1, <4>2
      <3>3. PICK x \in s : TRUE
        BY <3>2
      <3>4. s \ {x} \in SUBSET D /\ s \ {x} \notin wrong
        BY <3>1, <3>2, <3>3
      <3>5. g[s] = f[x] + g[s \ {x}] /\ f[x] \in Nat
        BY <2>1, <3>2, <3>3 DEF IsSum
      <3> QED BY <3>2, <3>4, <3>5
    <2> QED BY <2>2, <2>3
  <1> QED BY <1>1, <1>2

\* One value and the total of the others.
LEMMA TotalRemove ==
    ASSUME NEW D, IsFiniteSet(D), NEW f \in [D -> Int], NEW x \in D
    PROVE  Total(f) = f[x] + Total([y \in D \ {x} |-> f[y]])
  <1> DEFINE E == D \ {x}
             h == [y \in E |-> f[y]]
  <1>1. IsFiniteSet(E) /\ h \in [E -> Int]
    BY FS_RemoveElement
  <1>2. PICK g : IsSum(g, f, D)
    BY SumExists
  <1> DEFINE k == [s \in SUBSET E |-> g[s]]
  <1>3. IsSum(k, h, E)
    BY <1>2 DEF IsSum
  <1>4. Total(f) = g[D] /\ Total(h) = k[E]
    <2> HIDE DEF h, k, E
    <2> QED BY <1>1, <1>2, <1>3, TotalIsSum
  <1>5. g[D] = f[x] + g[D \ {x}]
    BY <1>2 DEF IsSum
  <1> QED BY <1>4, <1>5

\* The total of nothing, and of zeros.
LEMMA TotalZero ==
    ASSUME NEW D, IsFiniteSet(D), NEW f \in [D -> Int], \A x \in D : f[x] = 0
    PROVE  Total(f) = 0
  <1> DEFINE g == [s \in SUBSET D |-> 0]
  <1>1. IsSum(g, f, D)
    BY DEF IsSum
  <1> HIDE DEF g
  <1>2. Total(f) = g[D]
    BY <1>1, TotalIsSum
  <1> QED BY <1>2 DEF g

\* Adding value by value adds the totals.
LEMMA TotalPlus ==
    ASSUME NEW D, IsFiniteSet(D), NEW f \in [D -> Int], NEW h \in [D -> Int]
    PROVE  Total([x \in D |-> f[x] + h[x]]) = Total(f) + Total(h)
  <1> DEFINE both == [x \in D |-> f[x] + h[x]]
  <1>1. PICK g : IsSum(g, f, D)
    BY SumExists
  <1>2. PICK k : IsSum(k, h, D)
    BY SumExists
  <1> DEFINE sum == [s \in SUBSET D |-> g[s] + k[s]]
  <1>3. IsSum(sum, both, D)
    <2>1. sum \in [SUBSET D -> Int] /\ sum[{}] = 0
      BY <1>1, <1>2 DEF IsSum
    <2>2. ASSUME NEW s \in SUBSET D, NEW x \in s
          PROVE  sum[s] = both[x] + sum[s \ {x}]
      <3>1. g[s] = f[x] + g[s \ {x}] /\ k[s] = h[x] + k[s \ {x}]
        BY <1>1, <1>2 DEF IsSum
      <3>2. s \ {x} \in SUBSET D /\ f[x] \in Int /\ h[x] \in Int
        OBVIOUS
      <3>3. g[s \ {x}] \in Int /\ k[s \ {x}] \in Int
        BY <3>2, <1>1, <1>2 DEF IsSum
      <3> QED BY <3>1, <3>2, <3>3
    <2> HIDE DEF sum, both
    <2> QED BY <2>1, <2>2 DEF IsSum
  <1>4. both \in [D -> Int]
    OBVIOUS
  <1>5. Total(both) = sum[D] /\ Total(f) = g[D] /\ Total(h) = k[D]
    <2> HIDE DEF sum, both
    <2> QED BY <1>1, <1>2, <1>3, <1>4, TotalIsSum
  <1> QED BY <1>5

\* Changing one value changes the total by as much.
LEMMA TotalExcept ==
    ASSUME NEW D, IsFiniteSet(D), NEW f \in [D -> Int], NEW h \in [D -> Int], NEW x \in D,
           \A y \in D \ {x} : h[y] = f[y]
    PROVE  Total(h) = Total(f) - f[x] + h[x]
  <1> DEFINE r == [y \in D \ {x} |-> f[y]]
             q == [y \in D \ {x} |-> h[y]]
  <1>1. Total(f) = f[x] + Total(r) /\ Total(h) = h[x] + Total(q)
    BY TotalRemove
  <1>2. r = q
    OBVIOUS
  <1>3. IsFiniteSet(D \ {x}) /\ r \in [D \ {x} -> Int]
    BY FS_RemoveElement
  <1>4. Total(r) \in Int /\ f[x] \in Int /\ h[x] \in Int
    <2> HIDE DEF r
    <2> QED BY <1>3, TotalType
  <1> HIDE DEF r, q
  <1> QED BY <1>1, <1>2, <1>4

\* No value exceeds the total of natural numbers; when that is 0, so are they.
LEMMA TotalBounds ==
    ASSUME NEW D, IsFiniteSet(D), NEW f \in [D -> Nat]
    PROVE  \A x \in D : f[x] <= Total(f)
  <1> SUFFICES ASSUME NEW x \in D PROVE f[x] <= Total(f)
    OBVIOUS
  <1> DEFINE r == [y \in D \ {x} |-> f[y]]
  <1>1. Total(f) = f[x] + Total(r)
    BY TotalRemove
  <1>2. IsFiniteSet(D \ {x}) /\ r \in [D \ {x} -> Nat]
    BY FS_RemoveElement
  <1>3. Total(r) \in Nat /\ f[x] \in Nat
    <2> HIDE DEF r
    <2> QED BY <1>2, TotalType
  <1> HIDE DEF r
  <1> QED BY <1>1, <1>3

\* The total of an indicator is the number of its ones.
LEMMA TotalIndicator ==
    ASSUME NEW D, IsFiniteSet(D), NEW S
    PROVE  Total([x \in D |-> IF x \in S THEN 1 ELSE 0]) = Cardinality(D \cap S)
  <1> DEFINE f == [x \in D |-> IF x \in S THEN 1 ELSE 0]
             g == [s \in SUBSET D |-> Cardinality(s \cap S)]
  <1>1. \A s \in SUBSET D : IsFiniteSet(s \cap S)
    BY FS_Subset
  <1>2. g \in [SUBSET D -> Int] /\ g[{}] = 0
    <2>1. \A s \in SUBSET D : Cardinality(s \cap S) \in Int
      BY <1>1, FS_CardinalityType
    <2>2. {} \cap S = {} /\ Cardinality({}) = 0
      BY FS_EmptySet
    <2> QED BY <2>1, <2>2
  <1>3. ASSUME NEW s \in SUBSET D, NEW x \in s
        PROVE  g[s] = f[x] + g[s \ {x}]
    <2>1. (s \ {x}) \cap S = (s \cap S) \ {x} /\ s \ {x} \in SUBSET D
      OBVIOUS
    <2>2. IsFiniteSet(s \cap S) /\ Cardinality(s \cap S) \in Nat
      BY <1>1, FS_CardinalityType
    <2>3. Cardinality((s \cap S) \ {x}) =
            IF x \in s \cap S THEN Cardinality(s \cap S) - 1 ELSE Cardinality(s \cap S)
      BY <2>2, FS_RemoveElement
    <2>4. g[s] = Cardinality(s \cap S) /\ g[s \ {x}] = Cardinality((s \cap S) \ {x})
      BY <2>1
    <2>5. f[x] = IF x \in S THEN 1 ELSE 0
      OBVIOUS
    <2> HIDE DEF f, g
    <2> QED BY <2>2, <2>3, <2>4, <2>5
  <1>4. f \in [D -> Int]
    OBVIOUS
  <1>5. Total(f) = g[D]
    <2> HIDE DEF f, g
    <2>1. IsSum(g, f, D)
      BY <1>2, <1>3 DEF IsSum
    <2> QED BY <2>1, <1>4, TotalIsSum
  <1> QED BY <1>5

-----------------------------------------------------------------------------
(* The numbers of the quants.                                              *)

\* A nonempty set of numbers has a first one: induction along 1 .. n.
LEMMA FirstNumber ==
    ASSUME NEW S \in SUBSET Nat, S # {}
    PROVE  \E m \in S : \A n \in S : m <= n
  <1> DEFINE R == {p \in Nat \X Nat : p[1] < p[2]}
  <1>1. IsWellFoundedOn(R, Nat)
    BY NatLessThanWellFounded DEF OpToRel
  <1>2. PICK m \in S : \A n \in S : <<n, m>> \notin R
    <2> HIDE DEF R
    <2> QED BY <1>1, WFMin
  <1>3. ASSUME NEW n \in S PROVE m <= n
    <2>1. m \in Nat /\ n \in Nat /\ <<n, m>> \notin R
      BY <1>2
    <2> QED BY <2>1
  <1> QED BY <1>3

Together(f, g, n) == f[0] = g[0] /\ \A q \in 1 .. n : f[q-1] = g[q-1] => f[q] = g[q]

\* Two functions along 0 .. n that begin alike and go on alike end alike.
LEMMA StepsUnique ==
    ASSUME NEW n \in Nat, NEW f, NEW g, Together(f, g, n)
    PROVE  f[n] = g[n]
  <1> DEFINE wrong == {q \in 0 .. n : f[q] # g[q]}
  <1> SUFFICES ASSUME wrong # {} PROVE FALSE
    OBVIOUS
  <1>0. f[0] = g[0] /\ \A q \in 1 .. n : f[q-1] = g[q-1] => f[q] = g[q]
    BY DEF Together
  <1>1. wrong \in SUBSET Nat
    OBVIOUS
  <1>2. PICK q \in wrong : \A k \in wrong : q <= k
    <2> HIDE DEF wrong
    <2> QED BY <1>1, FirstNumber
  <1>3. q \in 1 .. n /\ f[q] # g[q]
    BY <1>0
  <1>4. q-1 \in 0 .. n /\ ~(q <= q-1)
    BY <1>3
  <1>5. f[q-1] = g[q-1]
    BY <1>2, <1>4
  <1> QED BY <1>0, <1>3, <1>5

\* f goes from base along 0 .. n, within T.
Along(f, n, T, base, step) ==
    /\ f \in [0 .. n -> T] /\ f[0] = base
    /\ \A q \in 1 .. n : f[q] = step[q][f[q-1]]

\* A function that goes along 0 .. n step by step exists.
LEMMA StepsExist ==
    ASSUME NEW n \in Nat, NEW T, NEW base \in T, NEW step \in [1 .. n -> [T -> T]]
    PROVE  \E f : Along(f, n, T, base, step)
  <1> DEFINE Good(f, k) == /\ f \in [0 .. k -> T]
                           /\ \A q \in 0 .. k : f[q] = IF q = 0 THEN base ELSE step[q][f[q-1]]
             wrong == {k \in 0 .. n : ~ \E f : Good(f, k)}
  <1>1. wrong = {}
    <2> SUFFICES ASSUME wrong # {} PROVE FALSE
      OBVIOUS
    <2>1. PICK k \in wrong : \A i \in wrong : k <= i
      <3>1. wrong \in SUBSET Nat
        OBVIOUS
      <3> HIDE DEF wrong
      <3> QED BY <3>1, FirstNumber
    <2>2. k \in 0 .. n /\ ~ \E f : Good(f, k)
      OBVIOUS
    <2>3. k # 0
      <3>1. Good([q \in 0 .. 0 |-> base], 0)
        OBVIOUS
      <3> HIDE DEF Good
      <3> QED BY <3>1, <2>2
    <2>4. k-1 \in 0 .. n /\ k-1 \notin wrong /\ k \in 1 .. n
      <3>1. k-1 \in 0 .. n /\ k \in 1 .. n /\ ~(k <= k-1)
        BY <2>2, <2>3
      <3> HIDE DEF wrong
      <3> QED BY <3>1, <2>1
    <2>5. PICK f : Good(f, k-1)
      BY <2>4
    <2> DEFINE last == step[k][f[k-1]]
               g == [q \in 0 .. k |-> IF q = k THEN last ELSE f[q]]
    <2>6. f[k-1] \in T /\ step[k] \in [T -> T]
      <3>1. k-1 \in 0 .. k-1 /\ f \in [0 .. k-1 -> T]
        BY <2>4, <2>5
      <3> HIDE DEF Good
      <3> QED BY <2>4, <3>1
    <2>7. last \in T
      BY <2>6
    <2>8. g \in [0 .. k -> T]
      <3>1. \A q \in 0 .. k : q # k => q \in 0 .. k-1
        BY <2>4
      <3> HIDE DEF last
      <3> QED BY <3>1, <2>5, <2>7
    <2>9. ASSUME NEW q \in 0 .. k PROVE g[q] = IF q = 0 THEN base ELSE step[q][g[q-1]]
      <3>1. CASE q = k
        <4>1. k-1 \in 0 .. k /\ k-1 # k /\ k \in 0 .. k /\ k # 0
          BY <2>4
        <4>2. g[k] = last /\ g[k-1] = f[k-1]
          BY <4>1
        <4> QED BY <3>1, <4>1, <4>2
      <3>2. CASE q # k
        <4>1. q \in 0 .. k-1 /\ (q # 0 => q-1 \in 0 .. k-1)
          BY <3>2, <2>4
        <4>2. g[q] = f[q] /\ (q # 0 => g[q-1] = f[q-1])
          BY <4>1, <3>2, <2>4
        <4>3. f[q] = IF q = 0 THEN base ELSE step[q][f[q-1]]
          BY <4>1, <2>5
        <4> HIDE DEF g
        <4> QED BY <4>2, <4>3
      <3> QED BY <3>1, <3>2
    <2>10. Good(g, k)
      <3> HIDE DEF g
      <3> QED BY <2>8, <2>9
    <2> HIDE DEF Good
    <2> QED BY <2>2, <2>10
  <1>2. n \in 0 .. n /\ n \notin wrong
    BY <1>1
  <1>3. PICK f : Good(f, n)
    BY <1>2
  <1>4. f \in [0 .. n -> T] /\ \A q \in 0 .. n : f[q] = IF q = 0 THEN base ELSE step[q][f[q-1]]
    BY <1>3
  <1> HIDE DEF Good
  <1>5. f[0] = base /\ \A q \in 1 .. n : f[q] = step[q][f[q-1]]
    BY <1>4
  <1>6. Along(f, n, T, base, step)
    BY <1>4, <1>5 DEF Along
  <1> QED BY <1>6

\* What is counted value by value are all.
LEMMA TotalFibres ==
    ASSUME NEW D, IsFiniteSet(D), NEW T, IsFiniteSet(T), NEW f \in [D -> T]
    PROVE  Total([i \in T |-> Cardinality({x \in D : f[x] = i})]) = Cardinality(D)
  <1> DEFINE Of(s, i) == {x \in s : f[x] = i}
             h(s) == [i \in T |-> Cardinality(Of(s, i))]
             wrong == {s \in SUBSET D : Total(h(s)) # Cardinality(s)}
  <1> SUFFICES ASSUME wrong # {} PROVE FALSE
    <2>1. Total(h(D)) = Cardinality(D)
      OBVIOUS
    <2> QED BY <2>1
  <1>1. wrong \in SUBSET (SUBSET D) /\ \A s \in SUBSET D : s \in wrong <=> Total(h(s)) # Cardinality(s)
    OBVIOUS
  <1> HIDE DEF wrong
  <1>2. PICK s \in wrong : \A u \in wrong : u \subseteq s => u = s
    BY <1>1, Minimal
  <1>3. s \in SUBSET D /\ IsFiniteSet(s)
    BY <1>1, FS_Subset
  <1>4. \A u \in SUBSET D : \A i \in T : IsFiniteSet(Of(u, i)) /\ Cardinality(Of(u, i)) \in Nat
    BY FS_Subset, FS_CardinalityType
  <1>5. \A u \in SUBSET D : h(u) \in [T -> Int] /\ \A i \in T : h(u)[i] = Cardinality(Of(u, i))
    BY <1>4
  <1>6. CASE s = {}
    <2>1. \A i \in T : Of(s, i) = {}
      BY <1>6
    <2>2. \A i \in T : h(s)[i] = 0
      BY <2>1, <1>3, <1>5, FS_EmptySet
    <2>3. h(s) \in [T -> Int]
      BY <1>3, <1>5
    <2> HIDE DEF h
    <2>4. Total(h(s)) = 0
      BY <2>2, <2>3, TotalZero
    <2> QED BY <1>1, <1>6, <2>4, FS_EmptySet
  <1>7. ASSUME NEW x \in s PROVE FALSE
    <2> DEFINE u == s \ {x}
               i == f[x]
    <2>1. u \in SUBSET D /\ u \notin wrong /\ i \in T /\ x \in D
      BY <1>2, <1>3
    <2>2. Total(h(u)) = Cardinality(u) /\ Cardinality(u) = Cardinality(s) - 1
      BY <1>1, <1>3, <2>1, FS_RemoveElement
    <2>3. \A k \in T \ {i} : Of(u, k) = Of(s, k)
      OBVIOUS
    <2>4. Of(u, i) = Of(s, i) \ {x} /\ x \in Of(s, i)
      OBVIOUS
    <2>5. Cardinality(Of(u, i)) = Cardinality(Of(s, i)) - 1 /\ Cardinality(Of(s, i)) \in Nat
      <3>1. IsFiniteSet(Of(s, i)) /\ Cardinality(Of(s, i)) \in Nat
        BY <1>3, <1>4, <2>1
      <3> HIDE DEF Of, u, i
      <3> QED BY <2>4, <3>1, FS_RemoveElement
    <2>6. h(u) \in [T -> Int] /\ h(s) \in [T -> Int] /\ h(s)[i] = h(u)[i] + 1
          /\ \A k \in T \ {i} : h(s)[k] = h(u)[k]
      <3>1. h(u) \in [T -> Int] /\ h(s) \in [T -> Int]
        BY <1>3, <1>5, <2>1
      <3>2. h(s)[i] = Cardinality(Of(s, i)) /\ h(u)[i] = Cardinality(Of(u, i))
        BY <1>3, <1>5, <2>1
      <3>3. \A k \in T \ {i} : h(s)[k] = Cardinality(Of(s, k)) /\ h(u)[k] = Cardinality(Of(u, k))
        BY <1>3, <1>5, <2>1
      <3> HIDE DEF Of, h, u, i
      <3>4. h(s)[i] = h(u)[i] + 1
        BY <2>5, <3>2
      <3> QED BY <2>3, <3>1, <3>3, <3>4
    <2>7. Cardinality(s) \in Nat
      BY <1>3, FS_CardinalityType
    <2> HIDE DEF h, u, i, Of
    <2>8. Total(h(s)) = Total(h(u)) - h(u)[i] + h(s)[i]
      BY <2>1, <2>6, TotalExcept
    <2>9. h(u)[i] \in Int
      BY <2>1, <2>6
    <2> QED BY <1>1, <1>3, <2>2, <2>6, <2>7, <2>8, <2>9
  <1> QED BY <1>6, <1>7

\* Rows first or columns first.
LEMMA TotalSwap ==
    ASSUME NEW D, IsFiniteSet(D), NEW E, IsFiniteSet(E), NEW f \in [D -> [E -> Int]]
    PROVE  Total([x \in D |-> Total(f[x])]) = Total([y \in E |-> Total([x \in D |-> f[x][y]])])
  <1> DEFINE rows(s) == [x \in s |-> Total(f[x])]
             column(s, y) == [x \in s |-> f[x][y]]
             columns(s) == [y \in E |-> Total(column(s, y))]
             wrong == {s \in SUBSET D : Total(rows(s)) # Total(columns(s))}
  <1> SUFFICES ASSUME wrong # {} PROVE FALSE
    <2>1. Total(rows(D)) = Total(columns(D))
      OBVIOUS
    <2> QED BY <2>1
  <1>1. wrong \in SUBSET (SUBSET D) /\ \A s \in SUBSET D : s \in wrong <=> Total(rows(s)) # Total(columns(s))
    OBVIOUS
  <1> HIDE DEF wrong
  <1>2. PICK s \in wrong : \A u \in wrong : u \subseteq s => u = s
    BY <1>1, Minimal
  <1>3. \A u \in SUBSET D : IsFiniteSet(u)
    BY FS_Subset
  <1>4. \A x \in D : f[x] \in [E -> Int] /\ Total(f[x]) \in Int
    BY TotalType
  <1>5. \A u \in SUBSET D : \A y \in E : column(u, y) \in [u -> Int]
    OBVIOUS
  <1>6. \A u \in SUBSET D : rows(u) \in [u -> Int]
    BY <1>4
  <1>7. \A u \in SUBSET D : columns(u) \in [E -> Int]
    <2> HIDE DEF column
    <2>1. \A u \in SUBSET D : \A y \in E : Total(column(u, y)) \in Int
      BY <1>3, <1>5, TotalType
    <2> QED BY <2>1
  <1>8. CASE s = {}
    <2>1. rows(s) \in [s -> Int] /\ columns(s) \in [E -> Int] /\ IsFiniteSet(s)
      BY <1>1, <1>2, <1>3, <1>6, <1>7
    <2>2. ASSUME NEW y \in E PROVE columns(s)[y] = 0
      <3>1. column(s, y) \in [s -> Int]
        BY <1>1, <1>2, <1>5
      <3> HIDE DEF column
      <3>2. Total(column(s, y)) = 0
        BY <1>8, <2>1, <3>1, TotalZero
      <3> QED BY <3>2
    <2> HIDE DEF rows, columns
    <2>3. Total(rows(s)) = 0 /\ Total(columns(s)) = 0
      BY <1>8, <2>1, <2>2, TotalZero
    <2> QED BY <1>1, <1>2, <2>3
  <1>9. ASSUME NEW x \in s PROVE FALSE
    <2> DEFINE u == s \ {x}
    <2>1. /\ s \in SUBSET D /\ u \in SUBSET D /\ u \notin wrong /\ x \in D
          /\ IsFiniteSet(s) /\ IsFiniteSet(u)
      BY <1>1, <1>2, <1>3
    <2>2. Total(rows(u)) = Total(columns(u))
      BY <1>1, <2>1
    <2>3. Total(rows(s)) = Total(f[x]) + Total(rows(u))
      <3>1. rows(s) \in [s -> Int] /\ rows(s)[x] = Total(f[x]) /\ rows(u) = [y \in s \ {x} |-> rows(s)[y]]
        BY <1>6, <2>1
      <3> HIDE DEF rows
      <3> DEFINE r == rows(s)
      <3>2. r \in [s -> Int] /\ IsFiniteSet(s)
        BY <2>1, <3>1
      <3>3. Total(r) = r[x] + Total([y \in s \ {x} |-> r[y]])
        <4> HIDE DEF r
        <4> QED BY <3>2, TotalRemove
      <3> QED BY <3>1, <3>3
    <2>4. \A y \in E : columns(s)[y] = f[x][y] + columns(u)[y]
      <3> SUFFICES ASSUME NEW y \in E PROVE Total(column(s, y)) = f[x][y] + Total(column(u, y))
        OBVIOUS
      <3>1. column(s, y) \in [s -> Int] /\ column(s, y)[x] = f[x][y]
            /\ column(u, y) = [z \in s \ {x} |-> column(s, y)[z]]
        BY <1>5, <2>1
      <3> DEFINE c == column(s, y)
      <3> HIDE DEF column
      <3>2. c \in [s -> Int] /\ IsFiniteSet(s)
        BY <2>1, <3>1
      <3>3. Total(c) = c[x] + Total([z \in s \ {x} |-> c[z]])
        <4> HIDE DEF c
        <4> QED BY <3>2, TotalRemove
      <3> QED BY <3>1, <3>3
    <2>5. columns(s) = [y \in E |-> f[x][y] + columns(u)[y]]
      BY <2>4
    <2>6. columns(u) \in [E -> Int] /\ f[x] \in [E -> Int]
      BY <1>4, <1>7, <2>1
    <2>7. Total(f[x]) \in Int
      BY <1>4, <2>1
    <2> HIDE DEF columns, rows, u
    <2>8. Total(columns(s)) = Total(f[x]) + Total(columns(u))
      BY <2>5, <2>6, TotalPlus
    <2> QED BY <1>1, <1>2, <2>2, <2>3, <2>8
  <1> QED BY <1>8, <1>9

\* The last value and those before it.
LEMMA TotalLast ==
    ASSUME NEW n \in Nat \ {0}, NEW f \in [1 .. n -> Int]
    PROVE  Total(f) = Total([k \in 1 .. n-1 |-> f[k]]) + f[n]
  <1>1. n \in 1 .. n /\ (1 .. n) \ {n} = 1 .. n-1
    OBVIOUS
  <1>2. IsFiniteSet(1 .. n) /\ IsFiniteSet(1 .. n-1)
    BY FS_Interval
  <1>3. Total(f) = f[n] + Total([k \in 1 .. n-1 |-> f[k]])
    <2> DEFINE D == 1 .. n
    <2>1. \A x \in D : Total(f) = f[x] + Total([k \in D \ {x} |-> f[k]])
      <3>1. IsFiniteSet(D) /\ f \in [D -> Int]
        BY <1>2
      <3> HIDE DEF D
      <3> QED BY <3>1, TotalRemove
    <2> QED BY <1>1, <2>1
  <1>4. Total([k \in 1 .. n-1 |-> f[k]]) \in Int
    <2> DEFINE h == [k \in 1 .. n-1 |-> f[k]]
    <2>1. h \in [1 .. n-1 -> Int]
      BY <1>1
    <2> HIDE DEF h
    <2>2. Total(h) \in Int
      BY <1>2, <2>1, TotalType
    <2> QED BY <2>2 DEF h
  <1>5. f[n] \in Int
    BY <1>1
  <1> QED BY <1>3, <1>4, <1>5

\* The first m values and the n after them.
LEMMA TotalSplit ==
    ASSUME NEW m \in Nat, NEW n \in Nat, NEW f \in [1 .. m+n -> Int]
    PROVE  Total(f) = Total([k \in 1 .. m |-> f[k]]) + Total([k \in 1 .. n |-> f[m+k]])
  <1> DEFINE upto(i) == [k \in 1 .. m+i |-> f[k]]
             first == [k \in 1 .. m |-> f[k]]
             next(i) == [k \in 1 .. i |-> f[m+k]]
             wrong == {i \in 0 .. n : Total(upto(i)) # Total(first) + Total(next(i))}
  <1>1. wrong # {} => FALSE
    <2> SUFFICES ASSUME wrong # {} PROVE FALSE
      OBVIOUS
    <2>1. wrong \in SUBSET Nat
      OBVIOUS
    <2>2. PICK i \in wrong : \A k \in wrong : i <= k
      <3> HIDE DEF wrong
      <3> QED BY <2>1, FirstNumber
    <2>3. i \in 0 .. n /\ Total(upto(i)) # Total(first) + Total(next(i))
      OBVIOUS
    <2>4. first \in [1 .. m -> Int] /\ Total(first) \in Int
      <3>1. first \in [1 .. m -> Int] /\ IsFiniteSet(1 .. m)
        BY FS_Interval
      <3> HIDE DEF first
      <3> QED BY <3>1, TotalType
    <2>5. CASE i = 0
      <3>1. upto(i) = first
        BY <2>5
      <3>2. next(i) \in [1 .. 0 -> Int] /\ \A k \in 1 .. 0 : next(i)[k] = 0
        BY <2>5
      <3>3. IsFiniteSet(1 .. 0)
        BY FS_Interval
      <3> HIDE DEF next, upto, first
      <3>4. Total(next(i)) = 0
        BY <3>2, <3>3, TotalZero
      <3> QED BY <2>3, <2>4, <3>1, <3>4
    <2>6. CASE i # 0
      <3>1. i-1 \in 0 .. n /\ i-1 \notin wrong /\ i \in Nat \ {0} /\ m+i \in Nat \ {0}
        <4>1. i-1 \in Nat /\ i-1 < i /\ i \in Nat \ {0} /\ m+i \in Nat \ {0} /\ i-1 \in 0 .. n
          BY <2>3, <2>6
        <4> HIDE DEF wrong
        <4> QED BY <2>2, <4>1
      <3>2. Total(upto(i-1)) = Total(first) + Total(next(i-1))
        BY <3>1
      <3>3. upto(i) \in [1 .. m+i -> Int] /\ upto(i)[m+i] = f[m+i]
            /\ upto(i-1) = [k \in 1 .. (m+i)-1 |-> upto(i)[k]]
        BY <2>3, <3>1
      <3>4. next(i) \in [1 .. i -> Int] /\ next(i)[i] = f[m+i]
            /\ next(i-1) = [k \in 1 .. i-1 |-> next(i)[k]]
        BY <2>3, <3>1
      <3>5. next(i-1) \in [1 .. i-1 -> Int] /\ IsFiniteSet(1 .. i-1) /\ f[m+i] \in Int
        <4>1. IsFiniteSet(1 .. i-1)
          BY <3>1, FS_Interval
        <4>2. m+i \in 1 .. m+n
          BY <2>3, <3>1
        <4> QED BY <3>4, <4>1, <4>2
      <3> HIDE DEF next, upto, first
      <3>6. Total(upto(i)) = Total(upto(i-1)) + f[m+i]
        BY <3>1, <3>3, TotalLast
      <3>7. Total(next(i)) = Total(next(i-1)) + f[m+i]
        BY <3>1, <3>4, TotalLast
      <3>8. Total(next(i-1)) \in Int
        BY <3>5, TotalType
      <3> QED BY <2>3, <2>4, <3>2, <3>5, <3>6, <3>7, <3>8
    <2> QED BY <2>5, <2>6
  <1>2. Total(upto(n)) = Total(first) + Total(next(n))
    <2>1. n \in 0 .. n
      OBVIOUS
    <2>2. n \notin wrong
      <3> HIDE DEF wrong
      <3> QED BY <1>1
    <2> QED BY <2>1, <2>2
  <1>3. upto(n) = f
    OBVIOUS
  <1> QED BY <1>2, <1>3

\* n times the same value.
LEMMA TotalConstant ==
    ASSUME NEW n \in Nat, NEW v \in Int
    PROVE  Total([k \in 1 .. n |-> v]) = n * v
  <1> DEFINE same(i) == [k \in 1 .. i |-> v]
             wrong == {i \in Nat : Total(same(i)) # i * v}
  <1> SUFFICES ASSUME wrong # {} PROVE FALSE
    OBVIOUS
  <1>1. PICK i \in wrong : \A k \in wrong : i <= k
    <2>1. wrong \in SUBSET Nat
      OBVIOUS
    <2> HIDE DEF wrong
    <2> QED BY <2>1, FirstNumber
  <1>2. i \in Nat /\ Total(same(i)) # i * v
    OBVIOUS
  <1>3. same(i) \in [1 .. i -> Int] /\ IsFiniteSet(1 .. i)
    BY <1>2, FS_Interval
  <1>4. CASE i = 0
    <2>1. \A k \in 1 .. i : same(i)[k] = 0
      BY <1>4
    <2> HIDE DEF same
    <2>2. Total(same(i)) = 0
      BY <1>3, <2>1, TotalZero
    <2> QED BY <1>2, <1>4, <2>2
  <1>5. CASE i # 0
    <2>1. i-1 \in Nat /\ i-1 \notin wrong /\ i \in Nat \ {0}
      BY <1>1, <1>2, <1>5
    <2>2. Total(same(i-1)) = (i-1) * v
      BY <2>1
    <2>3. same(i)[i] = v /\ same(i-1) = [k \in 1 .. i-1 |-> same(i)[k]]
      BY <2>1
    <2> HIDE DEF same
    <2>4. Total(same(i)) = Total(same(i-1)) + v
      BY <1>3, <2>1, <2>3, TotalLast
    <2>5. (i-1) * v + v = i * v
      BY <2>1
    <2> QED BY <1>2, <2>2, <2>4, <2>5
  <1> QED BY <1>4, <1>5
=============================================================================
