------------------------------ MODULE SumProofs ------------------------------
(***************************************************************************)
(* What SumFunction returns: how it changes with one value of the          *)
(* function, and how large it can be.  The proofs by induction about       *)
(* DocumentJob and CommandQueue add up sizes and runs with these lemmas.   *)
(*                                                                         *)
(* SumFunction is a fold: it takes elements out of the domain in an order  *)
(* that CHOOSE fixes.  Induction is by a least counterexample, a number or *)
(* a set of least cardinality.                                             *)
(***************************************************************************)
EXTENDS Functions, Integers, FiniteSets, FiniteSetTheorems, WellFoundedInduction, TLAPS

-----------------------------------------------------------------------------
(* Least counterexamples *)

Less == {p \in Nat \X Nat : p[1] < p[2]}

LEMMA LeastNumber ==
    ASSUME NEW T, T \subseteq Nat, T # {}
    PROVE  \E n \in T : \A m \in T : n <= m
<1>1. IsWellFoundedOn(Less, Nat)
  BY NatLessThanWellFounded, Zenon DEF OpToRel, Less
<1>2. PICK n \in T : \A m \in T : <<m, n>> \notin Less
  BY <1>1, WFMin, Zenon
<1>3. ASSUME NEW m \in T  PROVE n <= m
  <2>1. m \in Nat /\ n \in Nat
    OBVIOUS
  <2>2. ~(m < n)
    BY <1>2, <2>1 DEF Less
  <2>. QED  BY <2>1, <2>2
<1>. QED  BY <1>3

(* The subsets of a finite set are finite, and only one of them is empty. *)
LEMMA SubsetSize ==
    ASSUME NEW S, IsFiniteSet(S)
    PROVE  \A s \in SUBSET S :
              /\ IsFiniteSet(s) /\ Cardinality(s) \in Nat
              /\ Cardinality(s) = 0 <=> s = {}
              /\ \A x \in s : Cardinality(s \ {x}) = Cardinality(s) - 1
BY FS_Subset, FS_CardinalityType, FS_EmptySet, FS_RemoveElement

LEMMA LeastSet ==
    ASSUME NEW S, IsFiniteSet(S), NEW Bad, Bad \subseteq SUBSET S, Bad # {}
    PROVE  \E s \in Bad : \A t \in Bad : Cardinality(s) <= Cardinality(t)
<1>. DEFINE Sizes == {Cardinality(s) : s \in Bad}
<1>1. Sizes \subseteq Nat /\ Sizes # {}
  BY SubsetSize
<1>2. PICK n \in Sizes : \A m \in Sizes : n <= m
  <2>. HIDE DEF Sizes
  <2>. QED  BY <1>1, LeastNumber
<1>. QED  BY <1>2

-----------------------------------------------------------------------------
(* The function over which SumFunction folds *)

Some(s) == CHOOSE x \in s : TRUE

LEMMA SomeIsElement == ASSUME NEW s, s # {} PROVE Some(s) \in s
BY DEF Some

(* One step of the fold over f: the sum over s from those over smaller sets. *)
Fold(g, f, s) == IF s = {} THEN 0 ELSE f[Some(s)] + g[s \ {Some(s)}]

IsPartial(g, f, S) == g = [s \in SUBSET S |-> Fold(g, f, s)]

Partial(f, S) == CHOOSE g : IsPartial(g, f, S)

LEMMA SumIsPartial ==
    ASSUME NEW f
    PROVE  SumFunction(f) = Partial(f, DOMAIN f)[DOMAIN f]
BY DEF SumFunction, SumFunctionOnSet, FoldFunctionOnSet, MapThenFoldSet,
       Partial, IsPartial, Fold, Some

(* There is such a function on the subsets of up to k elements.            *)
Small(S, n) == {s \in SUBSET S : Cardinality(s) <= n}

HasPartial(f, S, n) == \E g : g = [s \in Small(S, n) |-> Fold(g, f, s)]

LEMMA SmallPartial ==
    ASSUME NEW S, IsFiniteSet(S), NEW f, NEW k \in Nat
    PROVE  HasPartial(f, S, k)
<1>. DEFINE Bad == {n \in Nat : ~HasPartial(f, S, n)}
<1>. SUFFICES ASSUME Bad # {} PROVE FALSE
  OBVIOUS
<1>1. PICK n \in Nat : ~HasPartial(f, S, n) /\ \A m \in Nat : ~HasPartial(f, S, m) => n <= m
  <2>1. PICK n \in Bad : \A m \in Bad : n <= m
    BY LeastNumber
  <2>. QED  BY <2>1
<1>2. CASE n = 0
  <2>. DEFINE g == [s \in Small(S, 0) |-> 0]
  <2>1. Small(S, 0) = {{}}
    BY SubsetSize DEF Small
  <2>2. g = [s \in Small(S, 0) |-> Fold(g, f, s)]
    BY <2>1 DEF Fold
  <2>. QED  BY <1>1, <1>2, <2>2 DEF HasPartial
<1>3. CASE n # 0
  <2>1. n - 1 \in Nat /\ HasPartial(f, S, n - 1)
    BY <1>1, <1>3
  <2>2. PICK g : g = [s \in Small(S, n - 1) |-> Fold(g, f, s)]
    BY <2>1 DEF HasPartial
  <2>. DEFINE h == [s \in Small(S, n) |-> Fold(g, f, s)]
  <2>3. \A s \in Small(S, n) : s # {} =>
           s \ {Some(s)} \in Small(S, n - 1) /\ s \ {Some(s)} \in Small(S, n)
    <3>. TAKE s \in Small(S, n)
    <3>. HAVE s # {}
    <3>1. /\ Some(s) \in s /\ s \in SUBSET S
          /\ Cardinality(s) \in Nat /\ Cardinality(s) <= n
      BY SubsetSize, SomeIsElement DEF Small
    <3>2. Cardinality(s \ {Some(s)}) = Cardinality(s) - 1
      BY <3>1, SubsetSize
    <3>. QED  BY <3>1, <3>2 DEF Small
  <2>4. \A s \in Small(S, n - 1) : s \in Small(S, n) /\ g[s] = Fold(g, f, s)
    <3>1. \A s \in Small(S, n - 1) : s \in Small(S, n)
      BY <2>1, SubsetSize DEF Small
    <3>2. \A s \in Small(S, n - 1) : g[s] = Fold(g, f, s)
      BY <2>2
    <3>. QED  BY <3>1, <3>2
  <2>5. \A s \in Small(S, n - 1) : h[s] = g[s]
    BY <2>4
  <2>6. \A s \in Small(S, n) : Fold(h, f, s) = Fold(g, f, s)
    BY <2>3, <2>5 DEF Fold
  <2>7. h = [s \in Small(S, n) |-> Fold(h, f, s)]
    BY <2>6
  <2>. QED  BY <1>1, <2>7 DEF HasPartial
<1>. QED  BY <1>2, <1>3

LEMMA PartialExists ==
    ASSUME NEW S, IsFiniteSet(S), NEW f
    PROVE  \A s \in SUBSET S : Partial(f, S)[s] = Fold(Partial(f, S), f, s)
<1>1. Cardinality(S) \in Nat
  BY FS_CardinalityType
<1>2. Small(S, Cardinality(S)) = SUBSET S
  BY FS_Subset DEF Small
<1>3. \E g : IsPartial(g, f, S)
  <2>1. HasPartial(f, S, Cardinality(S))
    BY <1>1, SmallPartial
  <2>2. PICK g : g = [s \in Small(S, Cardinality(S)) |-> Fold(g, f, s)]
    BY <2>1 DEF HasPartial
  <2>. QED  BY <1>2, <2>2 DEF IsPartial
<1>4. IsPartial(Partial(f, S), f, S)
  BY <1>3 DEF Partial
<1>. QED  BY <1>4 DEF IsPartial

(* Its value does not depend on the order of the elements. *)
LEMMA PartialByElement ==
    ASSUME NEW S, IsFiniteSet(S), NEW f \in [S -> Int]
    PROVE  \A s \in SUBSET S :
              /\ Partial(f, S)[s] \in Int
              /\ \A x \in s : Partial(f, S)[s] = f[x] + Partial(f, S)[s \ {x}]
<1>. DEFINE p == Partial(f, S)
            Good(s) == p[s] \in Int /\ \A x \in s : p[s] = f[x] + p[s \ {x}]
            Bad == {s \in SUBSET S : ~Good(s)}
<1>. SUFFICES ASSUME Bad # {} PROVE FALSE
  OBVIOUS
<1>1. PICK s \in SUBSET S :
         /\ ~Good(s)
         /\ \A t \in SUBSET S : Cardinality(t) < Cardinality(s) => Good(t)
  <2>1. PICK s \in Bad : \A t \in Bad : Cardinality(s) <= Cardinality(t)
    BY LeastSet
  <2>2. \A t \in SUBSET S : Cardinality(t) \in Nat
    BY SubsetSize
  <2>. HIDE DEF Good
  <2>. QED  BY <2>1, <2>2
<1>2. \A u \in SUBSET S : p[u] = Fold(p, f, u)
  BY PartialExists
<1>. HIDE DEF p, Bad
<1>3. CASE s = {}
  <2>1. p[s] = 0
    BY <1>2, <1>3 DEF Fold
  <2>. QED  BY <1>1, <1>3, <2>1
<1>4. CASE s # {}
  <2>. DEFINE c == Some(s)
  <2>1. c \in s /\ p[s] = f[c] + p[s \ {c}]
    BY <1>2, <1>4, SomeIsElement DEF Fold
  <2>. HIDE DEF c
  <2>2. ASSUME NEW x \in s PROVE Good(s \ {x})
    <3>1. Cardinality(s) \in Nat /\ Cardinality(s \ {x}) = Cardinality(s) - 1
      BY SubsetSize
    <3>2. s \ {x} \in SUBSET S /\ Cardinality(s \ {x}) < Cardinality(s)
      BY <3>1
    <3>. QED  BY <1>1, <3>2
  <2>3. \A x \in s : f[x] \in Int /\ p[s \ {x}] \in Int
    BY <2>2
  <2>4. p[s] \in Int
    BY <2>1, <2>3
  <2>5. ASSUME NEW x \in s
        PROVE  p[s] = f[x] + p[s \ {x}]
    <3>1. CASE x = c
      BY <2>1, <3>1
    <3>2. CASE x # c
      <4>. DEFINE u == (s \ {c}) \ {x}
      <4>1. p[s \ {c}] = f[x] + p[u]
        BY <2>1, <2>2, <3>2
      <4>2. p[s \ {x}] = f[c] + p[u]
        <5>1. p[s \ {x}] = f[c] + p[(s \ {x}) \ {c}]
          BY <2>1, <2>2, <3>2
        <5>2. (s \ {x}) \ {c} = u
          OBVIOUS
        <5>. QED  BY <5>1, <5>2
      <4>3. Good(u)
        <5>1. Cardinality(s) \in Nat /\ Cardinality(s \ {c}) = Cardinality(s) - 1
          BY <2>1, SubsetSize
        <5>2. x \in s \ {c} /\ s \ {c} \in SUBSET S
          BY <3>2
        <5>3. Cardinality((s \ {c}) \ {x}) = Cardinality(s \ {c}) - 1
          BY <5>2, SubsetSize
        <5>4. (s \ {c}) \ {x} \in SUBSET S /\ Cardinality((s \ {c}) \ {x}) < Cardinality(s)
          BY <5>1, <5>3
        <5>. QED  BY <1>1, <5>4
      <4>4. p[u] \in Int /\ f[c] \in Int /\ f[x] \in Int
        BY <2>1, <2>3, <4>3
      <4>. HIDE DEF u
      <4>. QED  BY <2>1, <4>1, <4>2, <4>4
    <3>. QED  BY <3>1, <3>2
  <2>. QED  BY <1>1, <2>4, <2>5
<1>. QED  BY <1>3, <1>4

LEMMA PartialIsMonotone ==
    ASSUME NEW S, IsFiniteSet(S), NEW f \in [S -> Int], NEW g \in [S -> Int]
    PROVE  \A s \in SUBSET S :
              (\A x \in s : f[x] <= g[x]) => Partial(f, S)[s] <= Partial(g, S)[s]
<1>. DEFINE p == Partial(f, S)
            q == Partial(g, S)
            Good(s) == (\A x \in s : f[x] <= g[x]) => p[s] <= q[s]
            Bad == {s \in SUBSET S : ~Good(s)}
<1>. SUFFICES ASSUME Bad # {} PROVE FALSE
  OBVIOUS
<1>1. PICK s \in SUBSET S :
         /\ ~Good(s)
         /\ \A t \in SUBSET S : Cardinality(t) < Cardinality(s) => Good(t)
  <2>1. PICK s \in Bad : \A t \in Bad : Cardinality(s) <= Cardinality(t)
    BY LeastSet
  <2>2. \A t \in SUBSET S : Cardinality(t) \in Nat
    BY SubsetSize
  <2>. HIDE DEF Good
  <2>. QED  BY <2>1, <2>2
<1>2. \A u \in SUBSET S :
         /\ p[u] \in Int /\ \A x \in u : p[u] = f[x] + p[u \ {x}]
         /\ q[u] \in Int /\ \A x \in u : q[u] = g[x] + q[u \ {x}]
  <2>1. \A u \in SUBSET S : p[u] \in Int /\ \A x \in u : p[u] = f[x] + p[u \ {x}]
    BY PartialByElement
  <2>2. \A u \in SUBSET S : q[u] \in Int /\ \A x \in u : q[u] = g[x] + q[u \ {x}]
    BY PartialByElement
  <2>. QED  BY <2>1, <2>2
<1>3. p[{}] = 0 /\ q[{}] = 0
  BY PartialExists DEF Fold
<1>. HIDE DEF p, q, Bad
<1>4. CASE s = {}
  BY <1>1, <1>3, <1>4
<1>5. CASE s # {}
  <2>1. PICK x \in s : TRUE
    BY <1>5
  <2>. DEFINE u == s \ {x}
  <2>2. u \in SUBSET S /\ Cardinality(u) < Cardinality(s)
    <3>1. Cardinality(s) \in Nat /\ Cardinality(u) = Cardinality(s) - 1
      BY SubsetSize
    <3>. QED  BY <3>1
  <2>3. p[u] <= q[u] /\ f[x] <= g[x]
    BY <1>1, <2>2
  <2>4. /\ p[u] \in Int /\ q[u] \in Int /\ f[x] \in Int /\ g[x] \in Int
        /\ p[s] = f[x] + p[u] /\ q[s] = g[x] + q[u]
    BY <1>2, <2>2
  <2>. HIDE DEF u
  <2>5. p[s] <= q[s]
    BY <2>3, <2>4
  <2>. QED  BY <1>1, <2>5
<1>. QED  BY <1>4, <1>5

LEMMA PartialIsBounded ==
    ASSUME NEW S, IsFiniteSet(S), NEW f \in [S -> Int], NEW m \in Int
    PROVE  \A s \in SUBSET S :
              (\A x \in s : f[x] <= m) => Partial(f, S)[s] <= Cardinality(s) * m
<1>. DEFINE p == Partial(f, S)
            Good(s) == (\A x \in s : f[x] <= m) => p[s] <= Cardinality(s) * m
            Bad == {s \in SUBSET S : ~Good(s)}
<1>. SUFFICES ASSUME Bad # {} PROVE FALSE
  OBVIOUS
<1>1. PICK s \in SUBSET S :
         /\ ~Good(s)
         /\ \A t \in SUBSET S : Cardinality(t) < Cardinality(s) => Good(t)
  <2>1. PICK s \in Bad : \A t \in Bad : Cardinality(s) <= Cardinality(t)
    BY LeastSet
  <2>2. \A t \in SUBSET S : Cardinality(t) \in Nat
    BY SubsetSize
  <2>. HIDE DEF Good
  <2>. QED  BY <2>1, <2>2
<1>2. \A u \in SUBSET S : p[u] \in Int /\ \A x \in u : p[u] = f[x] + p[u \ {x}]
  BY PartialByElement
<1>3. p[{}] = 0
  BY PartialExists DEF Fold
<1>. HIDE DEF p, Bad
<1>4. CASE s = {}
  BY <1>1, <1>3, <1>4, FS_EmptySet
<1>5. CASE s # {}
  <2>1. PICK x \in s : TRUE
    BY <1>5
  <2>. DEFINE u == s \ {x}
              n == Cardinality(u)
  <2>2. n \in Nat /\ Cardinality(s) = n + 1
    BY SubsetSize
  <2>3. u \in SUBSET S /\ Cardinality(u) < Cardinality(s)
    BY <2>2
  <2>4. (\A y \in s : f[y] <= m) => p[u] <= n * m /\ f[x] <= m
    BY <1>1, <2>3
  <2>5. /\ p[u] \in Int /\ f[x] \in Int
        /\ p[s] = f[x] + p[u]
    BY <1>2, <2>3
  <2>. HIDE DEF u, n
  <2>6. (n + 1) * m = n * m + m /\ n * m \in Int
    BY <2>2
  <2>7. (\A y \in s : f[y] <= m) => p[s] <= (n + 1) * m
    BY <2>4, <2>5, <2>6
  <2>. QED  BY <1>1, <2>2, <2>7
<1>. QED  BY <1>4, <1>5

-----------------------------------------------------------------------------
(* Sums of integers over a finite set *)

LEMMA SumOfFunction ==
    ASSUME NEW S, IsFiniteSet(S), NEW f \in [S -> Int]
    PROVE  SumFunction(f) = Partial(f, S)[S] /\ SumFunction(f) \in Int
<1>1. SumFunction(f) = Partial(f, S)[S]
  BY SumIsPartial
<1>. QED  BY <1>1, PartialByElement

LEMMA SumIsMonotone ==
    ASSUME NEW S, IsFiniteSet(S), NEW f \in [S -> Int], NEW g \in [S -> Int],
           \A x \in S : f[x] <= g[x]
    PROVE  SumFunction(f) <= SumFunction(g)
BY SumOfFunction, PartialIsMonotone

LEMMA SumOfZeros ==
    ASSUME NEW S, IsFiniteSet(S)
    PROVE  SumFunction([x \in S |-> 0]) = 0
<1>. DEFINE f == [x \in S |-> 0]
<1>1. f \in [S -> Int] /\ \A x \in S : f[x] = 0
  OBVIOUS
<1>. HIDE DEF f
<1>2. Partial(f, S)[{}] = 0
  BY PartialExists DEF Fold
<1>3. \A s \in SUBSET S : Partial(f, S)[s] = 0
  <2>. DEFINE Bad == {s \in SUBSET S : Partial(f, S)[s] # 0}
  <2>. SUFFICES ASSUME Bad # {} PROVE FALSE
    OBVIOUS
  <2>1. PICK s \in SUBSET S :
           /\ Partial(f, S)[s] # 0
           /\ \A t \in SUBSET S : Cardinality(t) < Cardinality(s) => Partial(f, S)[t] = 0
    <3>1. PICK s \in Bad : \A t \in Bad : Cardinality(s) <= Cardinality(t)
      BY LeastSet
    <3>2. \A t \in SUBSET S : Cardinality(t) \in Nat
      BY SubsetSize
    <3>. QED  BY <3>1, <3>2
  <2>2. PICK x \in s : TRUE
    BY <1>2, <2>1
  <2>3. Cardinality(s) \in Nat /\ Cardinality(s \ {x}) = Cardinality(s) - 1
    BY SubsetSize
  <2>4. Partial(f, S)[s \ {x}] = 0
    BY <2>1, <2>3
  <2>5. Partial(f, S)[s] = f[x] + Partial(f, S)[s \ {x}]
    BY <1>1, PartialByElement
  <2>. QED  BY <1>1, <2>1, <2>4, <2>5
<1>. QED  BY <1>1, <1>3, SumOfFunction

LEMMA SumByElement ==
    ASSUME NEW S, IsFiniteSet(S), NEW f \in [S -> Int], NEW x \in S
    PROVE  /\ SumFunction(f) = f[x] + Partial(f, S)[S \ {x}]
           /\ Partial(f, S)[S \ {x}] \in Int
<1>1. S \in SUBSET S /\ S \ {x} \in SUBSET S
  OBVIOUS
<1>2. Partial(f, S)[S] = f[x] + Partial(f, S)[S \ {x}]
  <2>. DEFINE p == Partial(f, S)
  <2>1. \A s \in SUBSET S : p[s] \in Int /\ \A y \in s : p[s] = f[y] + p[s \ {y}]
    BY PartialByElement
  <2>. HIDE DEF p
  <2>2. p[S] = f[x] + p[S \ {x}]
    BY <1>1, <2>1
  <2>. QED  BY <2>2 DEF p
<1>3. Partial(f, S)[S \ {x}] \in Int
  BY <1>1, PartialByElement
<1>. QED  BY <1>2, <1>3, SumOfFunction

(* With one value changed, the sum changes by the difference. *)
LEMMA SumOfUpdate ==
    ASSUME NEW S, IsFiniteSet(S), NEW f \in [S -> Int], NEW g \in [S -> Int],
           NEW x \in S, \A y \in S \ {x} : g[y] = f[y]
    PROVE  SumFunction(g) = SumFunction(f) - f[x] + g[x]
<1>. DEFINE u == S \ {x}
<1>1. Partial(g, S)[u] = Partial(f, S)[u]
  <2>1. \A y \in u : f[y] \in Int /\ f[y] <= g[y] /\ g[y] <= f[y]
    OBVIOUS
  <2>2. Partial(g, S)[u] <= Partial(f, S)[u] /\ Partial(f, S)[u] <= Partial(g, S)[u]
    BY <2>1, PartialIsMonotone
  <2>. QED  BY <2>2, PartialByElement
<1>2. /\ SumFunction(f) = f[x] + Partial(f, S)[u] /\ Partial(f, S)[u] \in Int
      /\ SumFunction(g) = g[x] + Partial(g, S)[u]
  BY SumByElement
<1>3. f[x] \in Int /\ g[x] \in Int
  OBVIOUS
<1>. HIDE DEF u
<1>. QED  BY <1>1, <1>2, <1>3

(* Of the values but one, each at most m. *)
LEMMA SumIsBounded ==
    ASSUME NEW S, IsFiniteSet(S), NEW f \in [S -> Int], NEW x \in S, NEW m \in Int,
           \A y \in S \ {x} : f[y] <= m
    PROVE  SumFunction(f) <= f[x] + (Cardinality(S) - 1) * m
<1>. DEFINE u == S \ {x}
<1>1. Cardinality(u) = Cardinality(S) - 1
  BY SubsetSize
<1>2. Partial(f, S)[u] <= Cardinality(u) * m
  BY PartialIsBounded
<1>3. SumFunction(f) = f[x] + Partial(f, S)[u] /\ Partial(f, S)[u] \in Int
  BY SumByElement
<1>4. f[x] \in Int /\ Cardinality(u) * m \in Int
  <2>1. Cardinality(u) \in Nat
    BY SubsetSize
  <2>. QED  BY <2>1
<1>. HIDE DEF u
<1>. QED  BY <1>1, <1>2, <1>3, <1>4

=============================================================================
