------------------------- MODULE DocumentBuildProofs --------------------------
(***************************************************************************)
(* Theorems about DocumentBuild, for every set of documents: any knowledge *)
(* model, project and format of which DocumentAssumption is true.          *)
(***************************************************************************)
EXTENDS DocumentBuild, SumProofs

-----------------------------------------------------------------------------
(* What a list comprehension keeps *)

KeepOne(f, s, S, n) == IF s[n] \in S THEN Append(f[n - 1], s[n]) ELSE f[n - 1]
KeptAt(f, s, S, n) == IF n = 0 THEN <<>> ELSE KeepOne(f, s, S, n)
KeepsUpTo(f, s, S, m) == f = [n \in 0..m |-> KeptAt(f, s, S, n)]
HasKept(s, S, m) == \E f : KeepsUpTo(f, s, S, m)
KeptList(s, S) == CHOOSE f : KeepsUpTo(f, s, S, Len(s))

LEMMA KeptIsList == ASSUME NEW s, NEW S PROVE Kept(s, S) = KeptList(s, S)[Len(s)]
BY DEF Kept, KeptList, KeepsUpTo, KeptAt, KeepOne

(* The recursive function of Kept exists, by its first missing value.      *)
LEMMA KeptExists ==
    ASSUME NEW s, NEW S, NEW m \in Nat
    PROVE  HasKept(s, S, m)
<1>. DEFINE Bad == {n \in Nat : ~HasKept(s, S, n)}
<1>. SUFFICES ASSUME Bad # {} PROVE FALSE
  OBVIOUS
<1>1. PICK n \in Bad : \A k \in Bad : n <= k
  BY LeastNumber
<1>2. CASE n = 0
  <2>. DEFINE f == [k \in 0..0 |-> <<>>]
  <2>1. KeepsUpTo(f, s, S, 0)
    BY DEF KeepsUpTo, KeptAt
  <2>. QED  BY <1>1, <1>2, <2>1 DEF HasKept
<1>3. CASE n # 0
  <2>1. n - 1 \in Nat /\ n - 1 \notin Bad
    BY <1>1, <1>3
  <2>2. PICK g : KeepsUpTo(g, s, S, n - 1)
    BY <2>1 DEF HasKept
  <2>. DEFINE f == [k \in 0..n |-> IF k = n THEN KeepOne(g, s, S, n) ELSE g[k]]
  <2>a. f = [k \in 0..n |-> IF k = n THEN KeepOne(g, s, S, n) ELSE g[k]]
    OBVIOUS
  <2>. HIDE DEF f
  <2>b. \A k \in 0..n : f[k] = IF k = n THEN KeepOne(g, s, S, n) ELSE g[k]
    BY <2>a
  <2>3. \A k \in 0..n - 1 : f[k] = g[k] /\ g[k] = KeptAt(g, s, S, k)
    <3>1. \A k \in 0..n - 1 : g[k] = KeptAt(g, s, S, k)
      BY <2>2, <2>1 DEF KeepsUpTo
    <3>2. \A k \in 0..n - 1 : k \in 0..n /\ k # n
      BY <2>1
    <3>. QED  BY <3>1, <3>2, <2>b
  <2>4. ASSUME NEW k \in 0..n  PROVE f[k] = KeptAt(f, s, S, k)
    <3>1. CASE k = 0
      BY <2>3, <2>1, <3>1 DEF KeptAt
    <3>2. CASE k # 0
      <4>1. k - 1 \in 0..n - 1 /\ k \in 1..n /\ f[k - 1] = g[k - 1]
        BY <3>2, <2>3, <2>1
      <4>2. f[k] = KeepOne(g, s, S, k)
        BY <2>3, <2>b, <3>2, <2>1 DEF KeptAt
      <4>3. KeepOne(f, s, S, k) = KeepOne(g, s, S, k)
        BY <4>1 DEF KeepOne
      <4>. QED  BY <4>2, <4>3, <3>2 DEF KeptAt
    <3>. QED  BY <3>1, <3>2
  <2>5. KeepsUpTo(f, s, S, n)
    BY <2>4, <2>a DEF KeepsUpTo
  <2>. QED  BY <1>1, <2>5 DEF HasKept
<1>. QED  BY <1>2, <1>3

(* What has been kept of the first m elements.                             *)
KeepsRight(k, s, S, T, m) ==
    /\ k \in Seq(T \intersect S)
    /\ Len(k) <= m
    /\ ToSet(k) = {s[i] : i \in 1..m} \intersect S
    /\ IsInjective(s) => IsInjective(k)

LEMMA KeepsRightStep ==
    ASSUME NEW T, NEW S, NEW s \in Seq(T), NEW n \in 1..Len(s), NEW k,
           KeepsRight(k, s, S, T, n - 1)
    PROVE  KeepsRight(IF s[n] \in S THEN Append(k, s[n]) ELSE k, s, S, T, n)
<1>1. s[n] \in T /\ {s[i] : i \in 1..n} = {s[i] : i \in 1..n - 1} \union {s[n]}
  OBVIOUS
<1>2. k \in Seq(T \intersect S) /\ Len(k) <= n - 1 /\ ToSet(k) = {s[i] : i \in 1..n - 1} \intersect S
  BY DEF KeepsRight
<1>3. CASE s[n] \notin S
  BY <1>1, <1>2, <1>3 DEF KeepsRight
<1>4. CASE s[n] \in S
  <2>. DEFINE a == Append(k, s[n])
  <2>1. /\ a \in Seq(T \intersect S) /\ Len(a) = Len(k) + 1 /\ DOMAIN a = 1..Len(k) + 1
        /\ \A i \in 1..Len(k) : a[i] = k[i]
        /\ a[Len(k) + 1] = s[n]
        /\ DOMAIN k = 1..Len(k) /\ Len(k) \in Nat
    BY <1>1, <1>2, <1>4
  <2>2. ToSet(a) = ToSet(k) \union {s[n]}
    <3>. HIDE DEF a
    <3>1. ToSet(a) \subseteq ToSet(k) \union {s[n]}
      BY <2>1 DEF ToSet
    <3>2. ToSet(k) \subseteq ToSet(a) /\ s[n] \in ToSet(a)
      BY <2>1 DEF ToSet
    <3>. QED  BY <3>1, <3>2
  <2>3. ASSUME IsInjective(s)  PROVE IsInjective(a)
    <3>1. IsInjective(k)
      BY <2>3 DEF KeepsRight
    <3>2. s[n] \notin ToSet(k)
      <4>1. DOMAIN s = 1..Len(s)
        OBVIOUS
      <4>2. \A i \in 1..n - 1 : s[i] # s[n]
        BY <2>3, <4>1 DEF IsInjective
      <4>. QED  BY <4>2, <1>2
    <3>3. \A i \in 1..Len(k) : k[i] # s[n]
      BY <3>2, <2>1 DEF ToSet
    <3>. HIDE DEF a
    <3>. QED  BY <2>1, <3>1, <3>3 DEF IsInjective
  <2>4. Len(a) <= n
    BY <2>1, <1>2
  <2>5. ToSet(a) = {s[i] : i \in 1..n} \intersect S
    BY <1>1, <1>2, <1>4, <2>2
  <2>. HIDE DEF a
  <2>6. KeepsRight(a, s, S, T, n)
    BY <2>1, <2>3, <2>4, <2>5 DEF KeepsRight
  <2>. QED  BY <2>6, <1>4 DEF a
<1>. QED  BY <1>3, <1>4

(* The elements of s that are in S, in a sequence that is no longer than s *)
(* and has no element twice if s has none.                                 *)
LEMMA KeptFacts ==
    ASSUME NEW T, NEW s \in Seq(T), NEW S
    PROVE  /\ Kept(s, S) \in Seq(T \intersect S)
           /\ Len(Kept(s, S)) <= Len(s)
           /\ ToSet(Kept(s, S)) = ToSet(s) \intersect S
           /\ IsInjective(s) => IsInjective(Kept(s, S))
<1>. DEFINE f == KeptList(s, S)
<1>0. Len(s) \in Nat /\ DOMAIN s = 1..Len(s)
  OBVIOUS
<1>1. KeepsUpTo(f, s, S, Len(s))
  BY KeptExists, <1>0 DEF HasKept, KeptList
<1>. HIDE DEF f
<1>2. \A n \in 0..Len(s) : f[n] = KeptAt(f, s, S, n)
  BY <1>1, <1>0 DEF KeepsUpTo
<1>. DEFINE Bad == {n \in 0..Len(s) : ~KeepsRight(f[n], s, S, T, n)}
<1>3. Bad = {}
  <2>. SUFFICES ASSUME Bad # {} PROVE FALSE
    OBVIOUS
  <2>0. Bad \subseteq Nat
    BY <1>0
  <2>1. PICK n \in Bad : \A k \in Bad : n <= k
    BY LeastNumber, <2>0
  <2>2. CASE n = 0
    <3>1. f[0] = <<>>
      BY <1>2, <1>0 DEF KeptAt
    <3>2. KeepsRight(<<>>, s, S, T, 0)
      BY DEF KeepsRight, ToSet, IsInjective
    <3>. QED  BY <2>1, <2>2, <3>1, <3>2
  <2>3. CASE n # 0
    <3>1. n \in 1..Len(s) /\ n - 1 \in 0..Len(s) /\ n - 1 \notin Bad
      BY <2>1, <2>3, <1>0
    <3>2. KeepsRight(f[n - 1], s, S, T, n - 1)
      BY <3>1
    <3>3. f[n] = IF s[n] \in S THEN Append(f[n - 1], s[n]) ELSE f[n - 1]
      BY <1>2, <2>3, <2>1 DEF KeptAt, KeepOne
    <3>4. KeepsRight(f[n], s, S, T, n)
      BY <3>1, <3>2, <3>3, KeepsRightStep
    <3>. QED  BY <2>1, <3>4
  <2>. QED  BY <2>2, <2>3
<1>4. KeepsRight(f[Len(s)], s, S, T, Len(s))
  BY <1>3, <1>0
<1>5. Kept(s, S) = f[Len(s)]
  BY KeptIsList DEF f
<1>6. ToSet(s) = {s[i] : i \in 1..Len(s)}
  BY <1>0 DEF ToSet
<1>. QED  BY <1>4, <1>5, <1>6 DEF KeepsRight

-----------------------------------------------------------------------------
(* Sequences as lists of calls *)

LEMMA ToSetConcat ==
    ASSUME NEW T, NEW a \in Seq(T), NEW b \in Seq(T)
    PROVE  /\ a \o b \in Seq(T)
           /\ ToSet(a \o b) = ToSet(a) \union ToSet(b)
<1>1. /\ a \o b \in Seq(T) /\ Len(a \o b) = Len(a) + Len(b)
      /\ Len(a) \in Nat /\ Len(b) \in Nat
      /\ DOMAIN a = 1..Len(a) /\ DOMAIN b = 1..Len(b) /\ DOMAIN (a \o b) = 1..Len(a \o b)
  OBVIOUS
<1>2. \A i \in 1..Len(a) + Len(b) :
         (a \o b)[i] = IF i <= Len(a) THEN a[i] ELSE b[i - Len(a)]
  OBVIOUS
<1>. DEFINE c == a \o b
<1>3. /\ \A i \in 1..Len(a) : c[i] = a[i] /\ i \in 1..Len(c)
      /\ \A i \in 1..Len(b) : c[Len(a) + i] = b[i] /\ Len(a) + i \in 1..Len(c)
      /\ \A i \in 1..Len(c) : i \in 1..Len(a) \/ (i - Len(a) \in 1..Len(b) /\ c[i] = b[i - Len(a)])
  BY <1>1, <1>2
<1>. HIDE DEF c
<1>4. ToSet(c) \subseteq ToSet(a) \union ToSet(b)
  BY <1>1, <1>3 DEF ToSet, c
<1>5. ToSet(a) \subseteq ToSet(c)
  BY <1>1, <1>3 DEF ToSet, c
<1>6. ASSUME NEW x \in ToSet(b)  PROVE x \in ToSet(c)
  <2>1. PICK i \in 1..Len(b) : x = b[i]
    BY <1>1 DEF ToSet
  <2>2. x = c[Len(a) + i] /\ Len(a) + i \in DOMAIN c
    BY <2>1, <1>1, <1>3 DEF c
  <2>. QED  BY <2>2 DEF ToSet
<1>. QED  BY <1>1, <1>4, <1>5, <1>6 DEF c

LEMMA SeqGrows ==
    ASSUME NEW S, NEW T, S \subseteq T, NEW s \in Seq(S)
    PROVE  s \in Seq(T)
OBVIOUS

LEMMA HeadAndTail ==
    ASSUME NEW T, NEW s \in Seq(T), s # <<>>
    PROVE  /\ Head(s) \in T /\ Tail(s) \in Seq(T)
           /\ ToSet(s) = {Head(s)} \union ToSet(Tail(s))
<1>1. /\ Head(s) = s[1] /\ s[1] \in T /\ Tail(s) \in Seq(T)
      /\ Len(s) \in Nat \ {0} /\ DOMAIN s = 1..Len(s)
      /\ Len(Tail(s)) = Len(s) - 1 /\ DOMAIN Tail(s) = 1..Len(s) - 1
      /\ \A i \in 1..Len(s) - 1 : Tail(s)[i] = s[i + 1]
  OBVIOUS
<1>. DEFINE t == Tail(s)
<1>2. /\ DOMAIN t = 1..Len(s) - 1
      /\ \A i \in 1..Len(s) - 1 : t[i] = s[i + 1] /\ i + 1 \in 1..Len(s)
      /\ \A i \in 1..Len(s) : i = 1 \/ (i - 1 \in 1..Len(s) - 1 /\ t[i - 1] = s[i])
  BY <1>1
<1>. HIDE DEF t
<1>3. ToSet(s) \subseteq {s[1]} \union ToSet(t)
  BY <1>1, <1>2 DEF ToSet
<1>4. ToSet(t) \subseteq ToSet(s) /\ s[1] \in ToSet(s)
  BY <1>1, <1>2 DEF ToSet
<1>. QED  BY <1>1, <1>3, <1>4 DEF t

FlatAt(f, ss, n) == IF n = 1 THEN ss[n] ELSE f[n - 1] \o ss[n]
FlattensUpTo(f, ss, m) == f = [n \in 1..m |-> FlatAt(f, ss, n)]
HasFlat(ss, m) == \E f : FlattensUpTo(f, ss, m)
FlatList(ss) == CHOOSE f : FlattensUpTo(f, ss, Len(ss))

LEMMA FlattenIsList ==
    ASSUME NEW ss, Len(ss) # 0
    PROVE  FlattenSeq(ss) = FlatList(ss)[Len(ss)]
BY Zenon DEF FlattenSeq, FlatList, FlattensUpTo, FlatAt

LEMMA FlatExists ==
    ASSUME NEW ss, NEW m \in Nat
    PROVE  HasFlat(ss, m)
<1>. DEFINE Bad == {n \in Nat : ~HasFlat(ss, n)}
<1>. SUFFICES ASSUME Bad # {} PROVE FALSE
  OBVIOUS
<1>1. PICK n \in Bad : \A k \in Bad : n <= k
  BY LeastNumber
<1>2. CASE n = 0
  <2>. DEFINE f == [k \in 1..0 |-> ss[1]]
  <2>1. FlattensUpTo(f, ss, 0)
    BY DEF FlattensUpTo
  <2>. QED  BY <1>1, <1>2, <2>1 DEF HasFlat
<1>3. CASE n # 0
  <2>1. n - 1 \in Nat /\ n - 1 \notin Bad
    BY <1>1, <1>3
  <2>2. PICK g : FlattensUpTo(g, ss, n - 1)
    BY <2>1 DEF HasFlat
  <2>. DEFINE f == [k \in 1..n |-> IF k = n THEN FlatAt(g, ss, n) ELSE g[k]]
  <2>3. f = [k \in 1..n |-> IF k = n THEN FlatAt(g, ss, n) ELSE g[k]]
    OBVIOUS
  <2>. HIDE DEF f
  <2>4. \A k \in 1..n : f[k] = IF k = n THEN FlatAt(g, ss, n) ELSE g[k]
    BY <2>3
  <2>5. \A k \in 1..n - 1 : f[k] = g[k]
    <3>1. \A k \in 1..n - 1 : k \in 1..n /\ k # n
      BY <2>1
    <3>. QED  BY <3>1, <2>4
  <2>6. \A k \in 1..n - 1 : g[k] = FlatAt(g, ss, k)
    BY <2>2, <2>1 DEF FlattensUpTo
  <2>7. ASSUME NEW k \in 1..n  PROVE f[k] = FlatAt(f, ss, k)
    <3>1. f[k] = FlatAt(g, ss, k)
      <4>1. k = n \/ k \in 1..n - 1
        BY <2>1
      <4>. QED  BY <4>1, <2>4, <2>6
    <3>2. CASE k = 1
      BY <3>1, <3>2 DEF FlatAt
    <3>3. CASE k # 1
      <4>1. k - 1 \in 1..n - 1
        BY <3>3, <2>1
      <4>. QED  BY <4>1, <3>1, <3>3, <2>5 DEF FlatAt
    <3>. QED  BY <3>2, <3>3
  <2>8. FlattensUpTo(f, ss, n)
    BY <2>7, <2>3 DEF FlattensUpTo
  <2>. QED  BY <1>1, <2>8 DEF HasFlat
<1>. QED  BY <1>2, <1>3

(* What is in the lists with numbers in I. *)
AllOf(ss, I) == UNION {ToSet(ss[i]) : i \in I}

LEMMA AllOfOneMore ==
    ASSUME NEW ss, NEW I, NEW n
    PROVE  AllOf(ss, I \union {n}) = AllOf(ss, I) \union ToSet(ss[n])
BY Zenon DEF AllOf

FlatRight(k, ss, T, m) ==
    k \in Seq(T) /\ ToSet(k) = AllOf(ss, 1..m)

(* One list after the other: a sequence of what the lists hold.            *)
LEMMA FlattenFacts ==
    ASSUME NEW T, NEW ss \in Seq(Seq(T))
    PROVE  /\ FlattenSeq(ss) \in Seq(T)
           /\ ToSet(FlattenSeq(ss)) = AllOf(ss, DOMAIN ss)
<1>0. Len(ss) \in Nat /\ DOMAIN ss = 1..Len(ss) /\ \A i \in 1..Len(ss) : ss[i] \in Seq(T)
  OBVIOUS
<1>1. CASE Len(ss) = 0
  <2>1. ss = <<>> /\ FlattenSeq(ss) = ss /\ 1..Len(ss) = {}
    BY <1>1, <1>0 DEF FlattenSeq
  <2>2. ToSet(<<>>) = {}
    BY DEF ToSet
  <2>3. AllOf(ss, DOMAIN ss) = {}
    BY <2>1, <1>0 DEF AllOf
  <2>4. <<>> \in Seq(T)
    OBVIOUS
  <2>. QED  BY <2>1, <2>2, <2>3, <2>4
<1>2. CASE Len(ss) # 0
  <2>. DEFINE f == FlatList(ss)
  <2>1. FlattensUpTo(f, ss, Len(ss))
    BY FlatExists, <1>0 DEF HasFlat, FlatList
  <2>. HIDE DEF f
  <2>2. \A n \in 1..Len(ss) : f[n] = FlatAt(f, ss, n)
    BY <2>1, <1>0 DEF FlattensUpTo
  <2>. DEFINE Bad == {n \in 1..Len(ss) : ~FlatRight(f[n], ss, T, n)}
  <2>3. Bad = {}
    <3>. SUFFICES ASSUME Bad # {} PROVE FALSE
      OBVIOUS
    <3>0. Bad \subseteq Nat
      BY <1>0
    <3>1. PICK n \in Bad : \A k \in Bad : n <= k
      BY LeastNumber, <3>0
    <3>2. CASE n = 1
      <4>1. f[1] = ss[1] /\ ss[1] \in Seq(T)
        BY <2>2, <1>0, <3>1, <3>2 DEF FlatAt
      <4>2. AllOf(ss, 1..1) = ToSet(ss[1])
        BY DEF AllOf
      <4>3. FlatRight(f[1], ss, T, 1)
        BY <4>1, <4>2 DEF FlatRight
      <4>. QED  BY <3>1, <3>2, <4>3
    <3>3. CASE n # 1
      <4>1. n \in 1..Len(ss) /\ n - 1 \in 1..Len(ss) /\ n - 1 \notin Bad /\ n \in Nat
        BY <3>1, <3>3, <1>0
      <4>2. FlatRight(f[n - 1], ss, T, n - 1)
        BY <4>1
      <4>3. f[n] = f[n - 1] \o ss[n]
        BY <2>2, <3>3, <4>1 DEF FlatAt
      <4>4. f[n] \in Seq(T) /\ ToSet(f[n]) = ToSet(f[n - 1]) \union ToSet(ss[n])
        <5>1. f[n - 1] \in Seq(T) /\ ss[n] \in Seq(T)
          BY <4>1, <4>2, <1>0 DEF FlatRight
        <5>. QED  BY <5>1, <4>3, ToSetConcat
      <4>5. 1..n = (1..n - 1) \union {n}
        BY <4>1
      <4>6. AllOf(ss, 1..n) = AllOf(ss, 1..n - 1) \union ToSet(ss[n])
        BY <4>5, AllOfOneMore, Zenon
      <4>7. FlatRight(f[n], ss, T, n)
        BY <4>2, <4>4, <4>6 DEF FlatRight
      <4>. QED  BY <3>1, <4>7
    <3>. QED  BY <3>2, <3>3
  <2>4. FlatRight(f[Len(ss)], ss, T, Len(ss))
    BY <2>3, <1>0, <1>2
  <2>. QED  BY <2>4, <1>0, <1>2, FlattenIsList DEF FlatRight, f
<1>. QED  BY <1>1, <1>2

-----------------------------------------------------------------------------
(* A document fits its format                                              *)
(*                                                                         *)
(* The inductive invariant: up to the step at which the format is created  *)
(* the constructors have accepted their options; when it is executed they  *)
(* all have, and what has been executed fits, with the file of the last of *)
(* these steps in hand.                                                    *)

PhaseNames ==
    {"create", "execute", "convert", "done", "template_error",
     "step_error", "render_error", "conversion_error"}
PandocStates == {"none", "running", "expired", "converted", "failed", "too_late"}

FitsBefore(n) ==
    /\ n = 1 => file = None
    /\ n > 1 => /\ IsFirst(steps[1])
                /\ file \in Outputs(steps[n - 1])
    /\ \A k \in 2..n - 1 : Feeds(steps[k - 1], steps[k])

FormatInv ==
    /\ steps \in Seq(StepRecord)
    /\ phase \in PhaseNames
    /\ pandoc \in PandocStates
    /\ pandoc # "none" <=> phase = "convert"
    /\ at \in 1..Len(steps) + 1
    /\ phase = "create" => file = None /\ \A k \in 1..at - 1 : Creates(steps[k])
    /\ phase \in {"execute", "convert", "done"} =>
          /\ \A k \in 1..Len(steps) : Creates(steps[k])
          /\ FitsBefore(at)
          /\ steps # <<>>
    /\ phase = "convert" => at <= Len(steps) /\ Step.name = "pandoc" /\ Accepts(Step, file)
    /\ phase = "done" => at = Len(steps) + 1

LEMMA AbsentIsNoString == None \notin STRING
BY ContextAssumption

(* Every step that can be created produces a file.                         *)
LEMMA OutputsAreFormats ==
    ASSUME NEW s \in StepRecord, Creates(s)
    PROVE  None \notin Outputs(s)
<1>0. s.extension \in STRING /\ s.from \in STRING /\ s.to \in STRING
  BY DEF StepRecord
<1>1. s.name \in StepNames /\ None \notin STRING /\ None \notin FormatNames /\ None \notin RdfFormats
  BY AbsentIsNoString, NoneAssumption DEF Creates
<1>2. CASE s.name \in {"json", "weasyprint", "enrich-docx"}
  <2>1. Outputs(s) \subseteq {"json", "pdf", "docx"}
    BY <1>2 DEF Outputs
  <2>. QED  BY <2>1, <1>1 DEF FormatNames
<1>3. CASE s.name = "jinja"
  <2>1. Outputs(s) = {s.extension}
    BY <1>3 DEF Outputs
  <2>. QED  BY <2>1, <1>0, <1>1
<1>4. CASE s.name = "excel"
  <2>1. Outputs(s) = {"xlsx", "xlsm"}
    BY <1>4 DEF Outputs, Workbooks
  <2>. QED  BY <2>1, <1>1 DEF FormatNames
<1>5. CASE s.name = "archive"
  <2>1. Outputs(s) \subseteq {"zip", "tar", s.from}
    BY <1>5 DEF Outputs, ArchiveOf
  <2>. QED  BY <2>1, <1>0, <1>1 DEF FormatNames
<1>6. CASE s.name = "pandoc"
  <2>1. Outputs(s) = {FormatOf(s.to)}
    BY <1>6 DEF Outputs
  <2>2. FormatOf(s.to) \in PandocOutputs
    BY <1>6 DEF Creates, PandocConverts
  <2>3. PandocOutputs \subseteq FormatNames
    BY DEF PandocOutputs, PandocInputs, FormatNames
  <2>. QED  BY <2>1, <2>2, <2>3, <1>1
<1>7. CASE s.name = "rdflib-convert"
  <2>1. Outputs(s) = {FormatOf(s.to)}
    BY <1>7 DEF Outputs
  <2>2. FormatOf(s.to) \in RdfFormats
    BY <1>7 DEF Creates, RdfLibConverts
  <2>. QED  BY <2>1, <2>2, <1>1
<1>. QED  BY <1>1, <1>2, <1>3, <1>4, <1>5, <1>6, <1>7 DEF StepNames

(* What a step accepts after another one, it wants.                        *)
LEMMA AcceptedIsWanted ==
    ASSUME NEW s, NEW f, f # None, Accepts(s, f),
           f \in UNION {Outputs(steps[k]) : k \in DOMAIN steps}
    PROVE  f \in Wants(s)
BY DEF Accepts, Wants

LEMMA FormatInit == ASSUME BuildInit PROVE FormatInv
<1>1. steps \in Seq(StepRecord)
  BY DocumentAssumption DEF BuildInit
<1>2. at = 1 /\ phase = "create" /\ file = None /\ pandoc = "none"
  BY DEF BuildInit
<1>. QED  BY <1>1, <1>2 DEF FormatInv, PhaseNames, PandocStates

(* Which steps a step feeds depends on nothing but the steps.              *)
LEMMA FeedsStays ==
    ASSUME UNCHANGED steps
    PROVE  \A k : Feeds(steps[k - 1], steps[k])' <=> Feeds(steps[k - 1], steps[k])
BY DEF Feeds, Wants

LEMMA FitsStays ==
    ASSUME UNCHANGED <<steps, file, at>>
    PROVE  FitsBefore(at) => FitsBefore(at)'
BY FeedsStays DEF FitsBefore

(* A step has produced its file.                                           *)
LEMMA ProducedFits ==
    ASSUME FormatInv, phase \in {"execute", "convert"}, at <= Len(steps),
           Accepts(Step, file), UNCHANGED steps, pandoc' = "none",
           NEW format \in Outputs(Step), Produce(format)
    PROVE  FormatInv'
<1>1. /\ steps \in Seq(StepRecord) /\ at \in 1..Len(steps) /\ Len(steps) \in Nat
      /\ at' = at + 1 /\ file' \in Outputs(steps[at]) /\ steps' = steps
      /\ phase' = IF at = Len(steps) THEN "done" ELSE "execute"
      /\ \A k \in 1..Len(steps) : Creates(steps[k]) /\ steps[k] \in StepRecord
  BY DEF FormatInv, Produce, Step
<1>2. FitsBefore(at)
  BY DEF FormatInv
<1>3. IsFirst(steps[1])
  <2>1. CASE at = 1
    <3>1. file = None
      BY <1>2, <2>1 DEF FitsBefore
    <3>2. Accepts(steps[1], None)
      BY <3>1, <2>1 DEF Step
    <3>. QED  BY <3>2 DEF Accepts
  <2>2. CASE at > 1
    BY <1>2, <2>2 DEF FitsBefore
  <2>. QED  BY <1>1, <2>1, <2>2
<1>4. ASSUME NEW k \in 2..at  PROVE Feeds(steps[k - 1], steps[k])
  <2>1. CASE k < at
    BY <1>1, <1>2, <2>1 DEF FitsBefore
  <2>2. CASE k = at
    <3>1. file \in Outputs(steps[at - 1]) /\ at - 1 \in 1..Len(steps)
      BY <1>1, <1>2, <2>2 DEF FitsBefore
    <3>2. file # None
      BY <3>1, <1>1, OutputsAreFormats
    <3>3. file \in UNION {Outputs(steps[i]) : i \in DOMAIN steps}
      BY <3>1, <1>1
    <3>4. file \in Wants(steps[k])
      BY <2>2, <3>2, <3>3, AcceptedIsWanted DEF Step
    <3>. QED  BY <2>2, <3>1, <3>4 DEF Feeds
  <2>. QED  BY <1>1, <2>1, <2>2
<1>5. FitsBefore(at)'
  <2>1. at' - 1 = at
    BY <1>1
  <2>2. \A k : Feeds(steps[k - 1], steps[k])' <=> Feeds(steps[k - 1], steps[k])
    BY FeedsStays
  <2>3. \A k \in 2..at : Feeds(steps[k - 1], steps[k])'
    BY <1>4, <2>2, Zenon
  <2>. QED  BY <1>1, <1>3, <2>1, <2>3 DEF FitsBefore
<1>. QED  BY <1>1, <1>5 DEF FormatInv, PhaseNames, PandocStates

LEMMA FormatStep ==
    ASSUME FormatInv, [Next]_vars
    PROVE  FormatInv'
<1>0. /\ steps \in Seq(StepRecord) /\ Len(steps) \in Nat /\ at \in 1..Len(steps) + 1
      /\ pandoc # "none" <=> phase = "convert"
  BY DEF FormatInv
<1>1. CASE CreateStep
  <2>1. CASE (\A k \in DOMAIN steps : steps[k].complete) /\ Creates(steps[at])
    <3>1. /\ at' = at + 1 /\ phase' = "create" /\ phase = "create" /\ file' = file
          /\ steps' = steps /\ pandoc' = pandoc /\ at <= Len(steps)
      BY <1>1, <2>1 DEF CreateStep
    <3>2. \A k \in 1..at' - 1 : Creates(steps'[k])
      BY <3>1, <2>1, <1>0 DEF FormatInv
    <3>. QED  BY <3>1, <3>2, <1>0 DEF FormatInv
  <2>2. CASE ~((\A k \in DOMAIN steps : steps[k].complete) /\ Creates(steps[at]))
    BY <1>1, <2>2 DEF CreateStep, FormatInv, PhaseNames
  <2>. QED  BY <2>1, <2>2
<1>2. CASE FormatCreated
  <2>1. /\ at' = 1 /\ steps' = steps /\ file' = None /\ pandoc' = pandoc /\ pandoc = "none"
        /\ phase' \in {"template_error", "execute"}
        /\ phase' = "execute" => steps # <<>>
        /\ \A k \in 1..Len(steps) : Creates(steps[k])
    BY <1>0, <1>2 DEF FormatCreated, FormatInv
  <2>2. FitsBefore(at)'
    BY <2>1 DEF FitsBefore
  <2>. QED  BY <1>0, <2>1, <2>2 DEF FormatInv, PhaseNames
<1>3. CASE Refuse \/ StepFails
  BY <1>3 DEF Refuse, StepFails, Executing, FormatInv, PhaseNames
<1>4. CASE BuildObjects \/ UNCHANGED vars
  BY <1>4, FitsStays DEF BuildObjects, buildVars, vars, FormatInv, Step
<1>5. CASE ExecuteStep
  <2>1. pandoc' = "none"
    BY <1>0, <1>5 DEF ExecuteStep, Executing
  <2>. QED  BY <1>5, <2>1, ProducedFits DEF ExecuteStep, Executing
<1>6. CASE StartPandoc
  BY <1>6, FitsStays DEF StartPandoc, Executing, FormatInv, Step, PhaseNames, PandocStates
<1>7. CASE Collect
  <2>1. CASE pandoc = "converted"
    BY <1>7, <2>1, ProducedFits DEF Collect, FormatInv
  <2>2. CASE pandoc # "converted"
    BY <1>7, <2>2 DEF Collect, FormatInv, PhaseNames, PandocStates
  <2>. QED  BY <2>1, <2>2
<1>8. CASE PandocExits \/ PandocExpires
  BY <1>8, FitsStays DEF PandocExits, PandocExpires, FormatInv, Step, PandocStates
<1>. QED
  BY <1>1, <1>2, <1>3, <1>4, <1>5, <1>6, <1>7, <1>8 DEF Next, Worker

LEMMA FormatFits == ASSUME FormatInv PROVE DocumentFitsItsFormat
<1>. SUFFICES ASSUME phase = "done"
              PROVE  ChainFits /\ file \in Outputs(steps[Len(steps)])
  BY DEF DocumentFitsItsFormat
<1>1. Len(steps) \in Nat \ {0} /\ at = Len(steps) + 1 /\ FitsBefore(at)
  BY DEF FormatInv
<1>. QED  BY <1>1 DEF FitsBefore, ChainFits, IsFirst

(* A document is what the last step of its format declares, and every step *)
(* has been given a file it can read, for formats of any length.           *)
THEOREM FormatCorrect == Spec => []DocumentFitsItsFormat
<1>1. BuildInit => FormatInv
  BY FormatInit
<1>2. FormatInv /\ [Next]_vars => FormatInv'
  BY FormatStep
<1>. QED  BY <1>1, <1>2, FormatFits, PTL DEF Spec

-----------------------------------------------------------------------------
(* What a context contains *)

Given == IsContext(ctx)

LEMMA OfIsTyped ==
    ASSUME Given, NEW types
    PROVE  Of(types) \subseteq DOMAIN Entity /\ DOMAIN Entity \subseteq STRING
           /\ DOMAIN Entity \subseteq Entities
BY ContextAssumption DEF Given, IsContext, Of, Entity

LEMMA EntityIsTyped ==
    ASSUME Given, NEW e \in DOMAIN Entity
    PROVE  /\ Entity[e] \in EntityRecord /\ TypeOf(e) \in STRING
           /\ Entity[e].children \in Seq(STRING) /\ Entity[e].refs \in Seq(STRING)
BY DEF Given, IsContext, Entity, EntityRecord, TypeOf

LEMMA ListsAreTyped ==
    ASSUME Given
    PROVE  /\ ctx.chapters \in Seq(STRING) /\ ctx.phases \in Seq(STRING)
           /\ ctx.collections \in Seq(STRING) /\ ctx.reports \in Seq(STRING)
           /\ ctx.replies \in Seq(ReplyRecord)
BY DEF Given, IsContext

LEMMA ExistingFacts ==
    ASSUME NEW u \in Seq(STRING), NEW types
    PROVE  /\ Existing(u, types) \in Seq(Of(types))
           /\ ToSet(Existing(u, types)) = ToSet(u) \intersect Of(types)
           /\ ToSet(Existing(u, types)) \subseteq Of(types)
           /\ Len(Existing(u, types)) <= Len(u)
           /\ IsInjective(u) => IsInjective(Existing(u, types))
<1>1. Existing(u, types) = Kept(u, Of(types))
  BY DEF Existing
<1>2. /\ Kept(u, Of(types)) \in Seq(STRING \intersect Of(types))
      /\ Len(Kept(u, Of(types))) <= Len(u)
      /\ ToSet(Kept(u, Of(types))) = ToSet(u) \intersect Of(types)
      /\ IsInjective(u) => IsInjective(Kept(u, Of(types)))
  BY KeptFacts
<1>3. Kept(u, Of(types)) \in Seq(Of(types))
  BY <1>2
<1>4. ToSet(Kept(u, Of(types))) \subseteq Of(types)
  BY <1>2
<1>. QED  BY <1>1, <1>2, <1>3, <1>4

LEMMA ChildrenFacts ==
    ASSUME Given, NEW e \in DOMAIN Entity
    PROVE  /\ Children(e) \in Seq(Of(ChildTypes(TypeOf(e))))
           /\ Children(e) \in Seq(DOMAIN Entity)
           /\ ToSet(Children(e)) \subseteq Of(ChildTypes(TypeOf(e)))
<1>1. Children(e) = Existing(Entity[e].children, ChildTypes(TypeOf(e)))
  BY DEF Children
<1>2. Children(e) \in Seq(Of(ChildTypes(TypeOf(e))))
      /\ ToSet(Children(e)) \subseteq Of(ChildTypes(TypeOf(e)))
  BY <1>1, EntityIsTyped, ExistingFacts
<1>3. Children(e) \in Seq(DOMAIN Entity)
  BY <1>2, OfIsTyped
<1>. QED  BY <1>2, <1>3

LEMMA ReplyFacts ==
    ASSUME Given, NEW p \in Paths
    PROVE  /\ ReplyAt(p) \in ReplyRecord /\ ReplyAt(p).path = p
           /\ p \in Seq(STRING) /\ p # <<>>
           /\ ReplyAt(p).value \in Seq(STRING)
           /\ ReplyAt(p).type = "ItemListReply" => ReplyAt(p).value \in Seq(Items)
           /\ ReplyAt(p).type \in SingleTypes => Len(ReplyAt(p).value) = 1
<1>1. PICK k \in DOMAIN ctx.replies : ctx.replies[k].path = p /\ ReplyAt(p) = ctx.replies[k]
  BY DEF Paths, ReplyAt
<1>2. ctx.replies[k] \in ReplyRecord
  BY ListsAreTyped
<1>3. ReplyAt(p) \in ReplyRecord /\ ReplyAt(p).path = p /\ p \in Seq(STRING) /\ ReplyAt(p).value \in Seq(STRING)
  BY <1>1, <1>2 DEF ReplyRecord
<1>. QED  BY <1>1, <1>3 DEF Given, IsContext

(* A context does not change while it is rendered.                         *)
LEMMA ContextStays == ASSUME [Next]_vars PROVE ctx' = ctx
<1>1. CASE ContextNext
  BY <1>1 DEF ContextNext, Load, ResolveModel, ResolveEntity, ResolveQuestion, ResolveFileQuestion,
     Enter, ResolveReport, ResolveReply, StartVisit, VisitListQuestion, VisitOptionsQuestion,
     VisitOtherQuestion, VisitItem, Visiting, StartTitles, PopItem, FollowSameAs, CopyTitle, ShowTitles
<1>2. CASE ExtractionNext
  BY <1>2 DEF ExtractionNext, StartExtraction, ExtractChapter, ExtractReply, ExtractChoices,
     ExtractAnswer, ExtractItems, Extracting, FinishExtraction
<1>3. CASE UNCHANGED objectVars
  BY <1>3 DEF objectVars, contextVars
<1>. QED
  BY <1>1, <1>2, <1>3 DEF Next, Worker, vars, CreateStep, FormatCreated, Refuse, BuildObjects,
     ExecuteStep, ForgetObjects, StepFails, StartPandoc, Collect, PandocExits, PandocExpires

(* A step of the build leaves the objects alone, or is a step of one of    *)
(* the two filters, or lets go of the objects.                             *)
ObjectStep ==
    \/ ContextNext /\ UNCHANGED extracted
    \/ ExtractionNext
    \/ ForgetObjects /\ stage \in {"built", "extracted"}

LEMMA ObjectSteps == ASSUME [Next]_vars PROVE ObjectStep \/ UNCHANGED objectVars
<1>1. CASE ExecuteStep
  BY <1>1 DEF ExecuteStep, ObjectsReady, ObjectStep
<1>. QED
  BY <1>1 DEF Next, Worker, vars, CreateStep, FormatCreated, Refuse, BuildObjects,
     StepFails, StartPandoc, Collect, PandocExits, PandocExpires, ObjectStep

-----------------------------------------------------------------------------
(* Types of the objects and of the calls                                   *)

Stages == {"new", "loaded", "model", "project", "visit", "titles", "built",
           "extract", "extracted", "invalid"}
Loaded == stage \notin {"new", "invalid"}
AfterModel == stage \in {"project", "visit", "titles", "built", "extract", "extracted"}
AfterProject == stage \in {"visit", "titles", "built", "extract", "extracted"}

Questions == Of(QuestionTypes)
ModelCall == [entity: DOMAIN Entity, owner: DOMAIN Entity \union {None}]
VisitCall == [entity: DOMAIN Entity, path: Seq(STRING), item: Items \union {None}, n: Nat]
ExtractCall == [entity: DOMAIN Entity, path: Seq(STRING), at: Seq(STRING)]

CallsTyped ==
    /\ stage = "model" => todo \in Seq(ModelCall)
    /\ stage = "project" => todo \in Seq(Paths)
    /\ stage = "visit" => todo \in Seq(VisitCall)
    /\ stage = "extract" => todo \in Seq(ExtractCall)
    /\ stage \notin {"model", "project", "visit", "extract"} => todo = <<>>

ModelTyped ==
    /\ order \in [Of({"Phase"}) -> Nat]
    /\ required \in [Questions -> {"unset", "yes", "no"}]
    /\ parent \in [DOMAIN Entity -> DOMAIN Entity \union {None}]
    /\ target \in [DOMAIN Entity -> DOMAIN Entity \union {None}]

RepliesTyped ==
    /\ chosen \in [Paths -> Seq(STRING)]
    /\ fileReply \in [ctx.files -> Paths \union {None}]

TitlesTyped ==
    /\ DOMAIN titles \subseteq Items /\ DOMAIN sameAs \subseteq DOMAIN titles
    /\ pending \in Seq(DOMAIN sameAs)
    /\ hop.item \in DOMAIN sameAs \union {None}
    /\ stage \in {"loaded", "model", "project"} => titles = <<>>

ObjectsTyped ==
    /\ Given
    /\ stage \in Stages
    /\ CallsTyped
    /\ Loaded => ModelTyped /\ RepliesTyped /\ TitlesTyped

LEMMA SameContext ==
    ASSUME ctx' = ctx
    PROVE  /\ Given' = Given /\ Entity' = Entity /\ Paths' = Paths
           /\ \A types : Of(types)' = Of(types)
           /\ Questions' = Questions /\ ModelCall' = ModelCall
           /\ VisitCall' = VisitCall /\ ExtractCall' = ExtractCall
BY DEF Given, Entity, Paths, Of, TypeOf, Questions, ModelCall, VisitCall, ExtractCall

CallsOf(entities, owner) == {Frame(e, owner) : e \in entities}
VisitsOf(questions, path) == {Visit(q, path) : q \in questions}
ExtractsOf(entities, path, place) ==
    {[entity |-> e, path |-> Append(path, e), at |-> place] : e \in entities}

LEMMA FramesFacts ==
    ASSUME NEW S, NEW es \in Seq(S), NEW owner
    PROVE  /\ Frames(es, owner) \in Seq([entity: S, owner: {owner}])
           /\ ToSet(Frames(es, owner)) = CallsOf(ToSet(es), owner)
<1>1. DOMAIN es = 1..Len(es) /\ Len(es) \in Nat /\ \A k \in 1..Len(es) : es[k] \in S
  OBVIOUS
<1>2. Frames(es, owner) = [k \in 1..Len(es) |-> Frame(es[k], owner)]
  BY <1>1 DEF Frames
<1>3. \A k \in 1..Len(es) : Frame(es[k], owner) \in [entity: S, owner: {owner}]
  BY <1>1 DEF Frame
<1>4. Frames(es, owner) \in Seq([entity: S, owner: {owner}])
  BY <1>1, <1>2, <1>3
<1>5. DOMAIN Frames(es, owner) = 1..Len(es)
      /\ \A k \in 1..Len(es) : Frames(es, owner)[k] = Frame(es[k], owner)
  BY <1>2
<1>6. ToSet(Frames(es, owner)) = CallsOf(ToSet(es), owner)
  BY <1>1, <1>5 DEF ToSet, CallsOf
<1>. QED  BY <1>4, <1>6

LEMMA VisitsFacts ==
    ASSUME NEW S, S \subseteq STRING, NEW es \in Seq(S), NEW path \in Seq(STRING)
    PROVE  /\ Visits(es, path) \in Seq([entity: S, path: Seq(STRING), item: {None}, n: {0}])
           /\ ToSet(Visits(es, path)) = VisitsOf(ToSet(es), path)
<1>1. DOMAIN es = 1..Len(es) /\ Len(es) \in Nat /\ \A k \in 1..Len(es) : es[k] \in S
  OBVIOUS
<1>2. Visits(es, path) = [k \in 1..Len(es) |-> Visit(es[k], path)]
  BY <1>1 DEF Visits
<1>3. \A k \in 1..Len(es) : Visit(es[k], path) \in [entity: S, path: Seq(STRING), item: {None}, n: {0}]
  <2>1. \A k \in 1..Len(es) : es[k] \in S /\ es[k] \in STRING
    BY <1>1
  <2>2. \A k \in 1..Len(es) : Append(path, es[k]) \in Seq(STRING)
    BY <2>1
  <2>. QED  BY <2>1, <2>2 DEF Visit
<1>4. Visits(es, path) \in Seq([entity: S, path: Seq(STRING), item: {None}, n: {0}])
  BY <1>1, <1>2, <1>3
<1>5. DOMAIN Visits(es, path) = 1..Len(es)
      /\ \A k \in 1..Len(es) : Visits(es, path)[k] = Visit(es[k], path)
  BY <1>2
<1>6. ToSet(Visits(es, path)) = VisitsOf(ToSet(es), path)
  BY <1>1, <1>5 DEF ToSet, VisitsOf
<1>. QED  BY <1>4, <1>6

LEMMA ExtractFacts ==
    ASSUME NEW S, S \subseteq STRING, NEW es \in Seq(S), NEW path \in Seq(STRING), NEW place
    PROVE  /\ Extract(es, path, place) \in Seq([entity: S, path: Seq(STRING), at: {place}])
           /\ ToSet(Extract(es, path, place)) =
                 ExtractsOf(ToSet(es), path, place)
<1>1. DOMAIN es = 1..Len(es) /\ Len(es) \in Nat /\ \A k \in 1..Len(es) : es[k] \in S
  OBVIOUS
<1>. DEFINE call(e) == [entity |-> e, path |-> Append(path, e), at |-> place]
<1>2. Extract(es, path, place) = [k \in 1..Len(es) |-> call(es[k])]
  BY <1>1 DEF Extract
<1>3. \A k \in 1..Len(es) : call(es[k]) \in [entity: S, path: Seq(STRING), at: {place}]
  <2>1. \A k \in 1..Len(es) : es[k] \in S /\ es[k] \in STRING
    BY <1>1
  <2>2. \A k \in 1..Len(es) : Append(path, es[k]) \in Seq(STRING)
    BY <2>1
  <2>. QED  BY <2>1, <2>2
<1>. HIDE DEF call
<1>4. Extract(es, path, place) \in Seq([entity: S, path: Seq(STRING), at: {place}])
  BY <1>1, <1>2, <1>3
<1>5. DOMAIN Extract(es, path, place) = 1..Len(es)
      /\ \A k \in 1..Len(es) : Extract(es, path, place)[k] = call(es[k])
  BY <1>2
<1>6. ToSet(Extract(es, path, place)) = {call(e) : e \in ToSet(es)}
  BY <1>1, <1>5 DEF ToSet
<1>. QED  BY <1>4, <1>6 DEF call, ExtractsOf

LEMMA LoadTyped == ASSUME ObjectsTyped, Load PROVE ObjectsTyped'
<1>1. ctx' = ctx /\ todo' = <<>> /\ stage' \in {"loaded", "invalid"}
  BY DEF Load, ObjectsTyped, CallsTyped
<1>2. CallsTyped' /\ stage' \in Stages /\ Given'
  BY <1>1, SameContext DEF CallsTyped, Stages, ObjectsTyped
<1>3. ModelTyped'
  <2>1. /\ order' \in [Of({"Phase"}) -> Nat]
        /\ required' \in [Questions -> {"unset", "yes", "no"}]
        /\ parent' \in [DOMAIN Entity -> DOMAIN Entity \union {None}]
        /\ target' \in [DOMAIN Entity -> DOMAIN Entity \union {None}]
    BY DEF Load, Questions
  <2>. QED  BY <2>1, <1>1, SameContext DEF ModelTyped
<1>4. RepliesTyped'
  <2>1. /\ chosen' \in [Paths -> Seq(STRING)]
        /\ fileReply' \in [ctx.files -> Paths \union {None}]
    BY DEF Load
  <2>. QED  BY <2>1, <1>1, SameContext DEF RepliesTyped
<1>5. TitlesTyped'
  BY DEF Load, TitlesTyped, Nowhere
<1>. QED  BY <1>2, <1>3, <1>4, <1>5 DEF ObjectsTyped

(* Calls that resolve_links makes. *)
LEMMA FramesTyped ==
    ASSUME NEW S, S \subseteq DOMAIN Entity, NEW es \in Seq(S),
           NEW owner \in DOMAIN Entity \union {None}
    PROVE  Frames(es, owner) \in Seq(ModelCall)
<1>1. Frames(es, owner) \in Seq([entity: S, owner: {owner}])
  BY FramesFacts
<1>2. [entity: S, owner: {owner}] \subseteq ModelCall
  BY DEF ModelCall
<1>. QED  BY <1>1, <1>2, SeqGrows

LEMMA NumbersAreTyped ==
    ASSUME Given, order \in [Of({"Phase"}) -> Nat]
    PROVE  NumberPhases \in [Of({"Phase"}) -> Nat]
<1>. DEFINE phases == Existing(ctx.phases, {"Phase"})
<1>1. DOMAIN phases \subseteq Nat
  BY ListsAreTyped, ExistingFacts
<1>. HIDE DEF phases
<1>2. \A p \in Of({"Phase"}) :
         (IF \E k \in DOMAIN phases : phases[k] = p
          THEN CHOOSE k \in DOMAIN phases : phases[k] = p ELSE order[p]) \in Nat
  BY <1>1
<1>. QED  BY <1>2 DEF NumberPhases, phases

LEMMA ResolveModelTyped == ASSUME ObjectsTyped, ResolveModel PROVE ObjectsTyped'
<1>1. ctx' = ctx /\ stage = "loaded" /\ stage' = "model" /\ Loaded
      /\ UNCHANGED <<parent, required, target, chosen, fileReply, titles, sameAs, pending, hop>>
  BY DEF ResolveModel, Loaded, replyVars, titleVars
<1>2. todo' \in Seq(ModelCall)
  <2>1. Existing(ctx.chapters, {"Chapter"}) \in Seq(Of({"Chapter"}))
        /\ Existing(ctx.collections, {"ResourceCollection"}) \in Seq(Of({"ResourceCollection"}))
    BY ListsAreTyped, ExistingFacts DEF ObjectsTyped
  <2>2. Of({"Chapter"}) \subseteq DOMAIN Entity /\ Of({"ResourceCollection"}) \subseteq DOMAIN Entity
    BY OfIsTyped DEF ObjectsTyped
  <2>3. Frames(Existing(ctx.chapters, {"Chapter"}), None) \in Seq(ModelCall)
        /\ Frames(Existing(ctx.collections, {"ResourceCollection"}), None) \in Seq(ModelCall)
    BY <2>1, <2>2, FramesTyped
  <2>. QED  BY <2>3, ToSetConcat DEF ResolveModel
<1>3. CallsTyped' /\ stage' \in Stages /\ Given'
  BY <1>1, <1>2, SameContext DEF CallsTyped, Stages, ObjectsTyped
<1>4. ModelTyped'
  <2>1. order' \in [Of({"Phase"}) -> Nat]
    BY <1>1, NumbersAreTyped DEF ResolveModel, ObjectsTyped, ModelTyped
  <2>. QED  BY <2>1, <1>1, SameContext DEF ModelTyped, ObjectsTyped
<1>5. RepliesTyped' /\ TitlesTyped'
  BY <1>1, SameContext DEF ObjectsTyped, RepliesTyped, TitlesTyped
<1>. QED  BY <1>3, <1>4, <1>5 DEF ObjectsTyped

(* One call of resolve_links of an entity. *)
LEMMA EnterFacts ==
    ASSUME ObjectsTyped, NEW types, Enter(types)
    PROVE  /\ ctx' = ctx /\ stage = "model" /\ stage' = "model" /\ Loaded
           /\ UNCHANGED <<order, chosen, fileReply, titles, sameAs, pending, hop>>
           /\ todo \in Seq(ModelCall) /\ todo # <<>>
           /\ Head(todo) \in ModelCall /\ Tail(todo) \in Seq(ModelCall)
           /\ ToSet(todo) = {Head(todo)} \union ToSet(Tail(todo))
           /\ Head(todo).entity \in DOMAIN Entity /\ TypeOf(Head(todo).entity) \in types
           /\ Head(todo).owner \in DOMAIN Entity \union {None}
           /\ parent' = [parent EXCEPT ![Head(todo).entity] = Head(todo).owner]
           /\ todo' \in Seq(ModelCall)
           /\ ToSet(todo') = CallsOf(ToSet(Children(Head(todo).entity)), Head(todo).entity)
                             \union ToSet(Tail(todo))
<1>1. /\ ctx' = ctx /\ stage = "model" /\ stage' = "model" /\ Loaded
      /\ UNCHANGED <<order, chosen, fileReply, titles, sameAs, pending, hop>>
      /\ todo \in Seq(ModelCall) /\ todo # <<>>
      /\ TypeOf(Head(todo).entity) \in types
      /\ parent' = [parent EXCEPT ![Head(todo).entity] = Head(todo).owner]
      /\ todo' = Frames(Children(Head(todo).entity), Head(todo).entity) \o Tail(todo)
  BY DEF Enter, ObjectsTyped, CallsTyped, Loaded, replyVars, titleVars
<1>2. /\ Head(todo) \in ModelCall /\ Tail(todo) \in Seq(ModelCall)
      /\ ToSet(todo) = {Head(todo)} \union ToSet(Tail(todo))
  BY <1>1, HeadAndTail
<1>3. Head(todo).entity \in DOMAIN Entity /\ Head(todo).owner \in DOMAIN Entity \union {None}
  BY <1>2 DEF ModelCall
<1>. DEFINE e == Head(todo).entity
<1>4. Children(e) \in Seq(DOMAIN Entity)
  BY <1>3, ChildrenFacts DEF ObjectsTyped
<1>. HIDE DEF e
<1>5. /\ Frames(Children(e), e) \in Seq(ModelCall)
      /\ ToSet(Frames(Children(e), e)) = CallsOf(ToSet(Children(e)), e)
  <2>1. e \in DOMAIN Entity \union {None}
    BY <1>3 DEF e
  <2>2. Frames(Children(e), e) \in Seq(ModelCall)
    BY <1>4, <2>1, FramesTyped
  <2>3. ToSet(Frames(Children(e), e)) = CallsOf(ToSet(Children(e)), e)
    BY <1>4, FramesFacts
  <2>. QED  BY <2>2, <2>3
<1>6. todo' = Frames(Children(e), e) \o Tail(todo)
  BY <1>1 DEF e
<1>7. todo' \in Seq(ModelCall) /\ ToSet(todo') = ToSet(Frames(Children(e), e)) \union ToSet(Tail(todo))
  <2>. DEFINE new == Frames(Children(e), e)
              old == Tail(todo)
  <2>1. new \in Seq(ModelCall) /\ old \in Seq(ModelCall) /\ todo' = new \o old
    BY <1>2, <1>5, <1>6
  <2>. HIDE DEF new, old
  <2>2. new \o old \in Seq(ModelCall) /\ ToSet(new \o old) = ToSet(new) \union ToSet(old)
    BY <2>1, ToSetConcat
  <2>3. todo' \in Seq(ModelCall) /\ ToSet(todo') = ToSet(new) \union ToSet(old)
    BY <2>1, <2>2, Zenon
  <2>. QED  BY <2>3 DEF new, old
<1>. QED  BY <1>1, <1>2, <1>3, <1>5, <1>7 DEF e

(* What resolve_links of a question finds. *)
LEMMA LinksAreTyped ==
    ASSUME Given, NEW e \in DOMAIN Entity
    PROVE  LinkOf(e) \in DOMAIN Entity \union {None}
BY DEF LinkOf, Lookup, IsA

LEMMA ResolveTyped ==
    ASSUME ObjectsTyped, ResolveEntity \/ ResolveQuestion \/ ResolveFileQuestion
    PROVE  ObjectsTyped'
<1>1. PICK types : Enter(types)
  BY DEF ResolveEntity, ResolveQuestion, ResolveFileQuestion
<1>2. ModelTyped
  BY <1>1, EnterFacts DEF ObjectsTyped
<1>3. parent' \in [DOMAIN Entity -> DOMAIN Entity \union {None}]
  BY <1>1, <1>2, EnterFacts DEF ModelTyped
<1>4. /\ required' \in [Questions -> {"unset", "yes", "no"}]
      /\ target' \in [DOMAIN Entity -> DOMAIN Entity \union {None}]
  <2>1. CASE UNCHANGED <<required, target>>
    BY <1>2, <2>1 DEF ModelTyped
  <2>2. CASE ResolveQuestion
    <3>1. required' = [required EXCEPT ![Head(todo).entity] =
                         IF IsRequired(Head(todo).entity) THEN "yes" ELSE "no"]
      BY <2>2 DEF ResolveQuestion
    <3>2. PICK refs : target' = [e \in DOMAIN target |->
                IF e \in {Head(todo).entity} \union ToSet(refs) THEN LinkOf(e) ELSE target[e]]
      BY <2>2 DEF ResolveQuestion
    <3>3. \A e \in DOMAIN Entity : LinkOf(e) \in DOMAIN Entity \union {None}
      BY LinksAreTyped DEF ObjectsTyped
    <3>. QED  BY <1>2, <3>1, <3>2, <3>3 DEF ModelTyped
  <2>. QED  BY <2>1, <2>2 DEF ResolveEntity, ResolveFileQuestion
<1>5. ModelTyped'
  BY <1>1, <1>2, <1>3, <1>4, EnterFacts, SameContext DEF ModelTyped
<1>6. CallsTyped' /\ stage' \in Stages /\ Given'
  BY <1>1, EnterFacts, SameContext DEF CallsTyped, Stages, ObjectsTyped
<1>7. RepliesTyped' /\ TitlesTyped'
  BY <1>1, EnterFacts, SameContext DEF ObjectsTyped, RepliesTyped, TitlesTyped
<1>. QED  BY <1>5, <1>6, <1>7 DEF ObjectsTyped

LEMMA ResolveReportTyped ==
    ASSUME ObjectsTyped, ResolveReport
    PROVE  ObjectsTyped' /\ ToSet(todo') = Paths
<1>1. ctx' = ctx /\ stage = "model" /\ stage' = "project" /\ Loaded
      /\ UNCHANGED <<order, parent, required, target, chosen, fileReply, titles, sameAs, pending, hop>>
  BY DEF ResolveReport, Loaded, replyVars, titleVars
<1>2. todo' \in Seq(Paths) /\ ToSet(todo') = Paths
  <2>1. DOMAIN ctx.replies = 1..Len(ctx.replies) /\ Len(ctx.replies) \in Nat
    BY ListsAreTyped DEF ObjectsTyped
  <2>2. todo' = [k \in 1..Len(ctx.replies) |-> ctx.replies[k].path]
    BY <2>1 DEF ResolveReport
  <2>3. \A k \in 1..Len(ctx.replies) : ctx.replies[k].path \in Paths
    BY <2>1 DEF Paths
  <2>4. todo' \in Seq(Paths)
    BY <2>1, <2>2, <2>3
  <2>5. DOMAIN todo' = 1..Len(ctx.replies)
    BY <2>2
  <2>. QED  BY <2>1, <2>2, <2>4, <2>5 DEF ToSet, Paths
<1>3. CallsTyped' /\ stage' \in Stages /\ Given'
  BY <1>1, <1>2, SameContext DEF CallsTyped, Stages, ObjectsTyped
<1>4. ModelTyped' /\ RepliesTyped' /\ TitlesTyped'
  BY <1>1, SameContext DEF ObjectsTyped, ModelTyped, RepliesTyped, TitlesTyped
<1>. QED  BY <1>2, <1>3, <1>4 DEF ObjectsTyped

LEMMA LinkedIsTyped ==
    ASSUME Given, NEW r \in ReplyRecord
    PROVE  Linked(r) \in Seq(STRING)
<1>1. r.value \in Seq(STRING)
  BY DEF ReplyRecord
<1>2. ASSUME NEW S  PROVE Kept(r.value, S) \in Seq(STRING)
  <2>1. Kept(r.value, S) \in Seq(STRING \intersect S) /\ STRING \intersect S \subseteq STRING
    BY <1>1, KeptFacts
  <2>. QED  BY <2>1, SeqGrows
<1>. QED  BY <1>1, <1>2 DEF Linked, Existing

LEMMA ResolveReplyTyped ==
    ASSUME ObjectsTyped, ResolveReply
    PROVE  /\ ObjectsTyped'
           /\ ToSet(todo) = {Head(todo)} \union ToSet(todo')
           /\ chosen' = [chosen EXCEPT ![Head(todo)] = Linked(ReplyAt(Head(todo)))]
<1>1. ctx' = ctx /\ stage = "project" /\ stage' = "project" /\ Loaded /\ todo \in Seq(Paths) /\ todo # <<>>
      /\ UNCHANGED <<order, parent, required, target, titles, sameAs, pending, hop>>
      /\ todo' = Tail(todo)
  BY DEF ResolveReply, Loaded, modelVars, titleVars, ObjectsTyped, CallsTyped
<1>2. Head(todo) \in Paths /\ todo' \in Seq(Paths) /\ ToSet(todo) = {Head(todo)} \union ToSet(todo')
  BY <1>1, HeadAndTail
<1>3. chosen' = [chosen EXCEPT ![Head(todo)] = Linked(ReplyAt(Head(todo)))]
  BY DEF ResolveReply
<1>4. chosen' \in [Paths -> Seq(STRING)]
  <2>1. Linked(ReplyAt(Head(todo))) \in Seq(STRING)
    BY <1>2, ReplyFacts, LinkedIsTyped DEF ObjectsTyped
  <2>. QED  BY <1>1, <1>3, <2>1 DEF ObjectsTyped, RepliesTyped
<1>5. fileReply' \in [ctx.files -> Paths \union {None}]
  <2>1. fileReply \in [ctx.files -> Paths \union {None}]
    BY <1>1 DEF ObjectsTyped, RepliesTyped
  <2>2. PICK first : fileReply' = [f \in DOMAIN fileReply |-> IF f \in first THEN Head(todo) ELSE fileReply[f]]
    <3>. DEFINE r == ReplyAt(Head(todo))
    <3>1. fileReply' = [f \in DOMAIN fileReply |->
                           IF r.type = "FileReply" /\ Linked(r) = <<f>> THEN Head(todo) ELSE fileReply[f]]
      BY DEF ResolveReply
    <3>. HIDE DEF r
    <3>. WITNESS {f \in DOMAIN fileReply : r.type = "FileReply" /\ Linked(r) = <<f>>}
    <3>. QED  BY <3>1
  <2>. QED  BY <1>2, <2>1, <2>2
<1>6. CallsTyped' /\ stage' \in Stages /\ Given'
  BY <1>1, <1>2, SameContext DEF CallsTyped, Stages, ObjectsTyped
<1>7. RepliesTyped'
  BY <1>1, <1>4, <1>5, SameContext DEF RepliesTyped
<1>8. ModelTyped' /\ TitlesTyped'
  BY <1>1, SameContext DEF ObjectsTyped, ModelTyped, TitlesTyped
<1>. QED  BY <1>2, <1>3, <1>6, <1>7, <1>8 DEF ObjectsTyped

(* The visits below entities that are listed one after the other. *)
VisitsBelow(es, path) ==
    FlattenSeq([k \in DOMAIN es |-> Visits(Children(es[k]), Append(path, es[k]))])
VisitCalls(entities, path) ==
    {Visit(q[2], Append(path, q[1])) :
        q \in {p \in entities \X DOMAIN Entity : p[2] \in ToSet(Children(p[1]))}}

LEMMA VisitsBelowFacts ==
    ASSUME Given, NEW es \in Seq(DOMAIN Entity), NEW path \in Seq(STRING)
    PROVE  /\ VisitsBelow(es, path) \in Seq(VisitCall)
           /\ ToSet(VisitsBelow(es, path)) = VisitCalls(ToSet(es), path)
<1>0. DOMAIN es = 1..Len(es) /\ Len(es) \in Nat /\ DOMAIN Entity \subseteq STRING
      /\ \A k \in 1..Len(es) : es[k] \in DOMAIN Entity
  BY OfIsTyped
<1>. DEFINE ss == [k \in 1..Len(es) |-> Visits(Children(es[k]), Append(path, es[k]))]
<1>1. ASSUME NEW k \in 1..Len(es)
      PROVE  /\ ss[k] \in Seq(VisitCall)
             /\ ToSet(ss[k]) = VisitsOf(ToSet(Children(es[k])), Append(path, es[k]))
  <2>1. /\ es[k] \in DOMAIN Entity /\ Append(path, es[k]) \in Seq(STRING)
        /\ Children(es[k]) \in Seq(DOMAIN Entity)
    BY <1>0, ChildrenFacts
  <2>. DEFINE cs == Children(es[k])
              longer == Append(path, es[k])
  <2>2. cs \in Seq(DOMAIN Entity) /\ longer \in Seq(STRING) /\ ss[k] = Visits(cs, longer)
    BY <2>1
  <2>. HIDE DEF cs, longer, ss
  <2>3. /\ Visits(cs, longer) \in Seq([entity: DOMAIN Entity, path: Seq(STRING), item: {None}, n: {0}])
        /\ ToSet(Visits(cs, longer)) = VisitsOf(ToSet(cs), longer)
    BY <1>0, <2>2, VisitsFacts
  <2>4. [entity: DOMAIN Entity, path: Seq(STRING), item: {None}, n: {0}] \subseteq VisitCall
    BY DEF VisitCall
  <2>5. Visits(cs, longer) \in Seq(VisitCall)
    BY <2>3, <2>4, SeqGrows
  <2>. QED  BY <2>2, <2>3, <2>5 DEF cs, longer
<1>2. ss \in Seq(Seq(VisitCall)) /\ DOMAIN ss = 1..Len(es)
  <2>1. \A k \in 1..Len(es) : ss[k] \in Seq(VisitCall)
    BY <1>1
  <2>2. ss = [k \in 1..Len(es) |-> ss[k]]
    OBVIOUS
  <2>. HIDE DEF ss
  <2>. QED  BY <1>0, <2>1, <2>2
<1>3. VisitsBelow(es, path) = FlattenSeq(ss)
  BY <1>0 DEF VisitsBelow
<1>. HIDE DEF ss
<1>4. FlattenSeq(ss) \in Seq(VisitCall) /\ ToSet(FlattenSeq(ss)) = AllOf(ss, 1..Len(es))
  BY <1>2, FlattenFacts
<1>5. AllOf(ss, 1..Len(es)) = VisitCalls(ToSet(es), path)
  <2>1. ASSUME NEW x \in AllOf(ss, 1..Len(es))  PROVE x \in VisitCalls(ToSet(es), path)
    <3>1. PICK k \in 1..Len(es) : x \in ToSet(ss[k])
      BY <2>1 DEF AllOf
    <3>2. PICK q \in ToSet(Children(es[k])) : x = Visit(q, Append(path, es[k]))
      BY <3>1, <1>1 DEF VisitsOf
    <3>3. es[k] \in ToSet(es) /\ es[k] \in DOMAIN Entity
      BY <1>0 DEF ToSet
    <3>4. q \in DOMAIN Entity
      BY <3>2, <3>3, ChildrenFacts, OfIsTyped
    <3>5. <<es[k], q>> \in {p \in ToSet(es) \X DOMAIN Entity : p[2] \in ToSet(Children(p[1]))}
      BY <3>3, <3>4
    <3>6. x = Visit(<<es[k], q>>[2], Append(path, <<es[k], q>>[1]))
      BY <3>2
    <3>. QED  BY <3>5, <3>6, Zenon DEF VisitCalls
  <2>2. ASSUME NEW x \in VisitCalls(ToSet(es), path)  PROVE x \in AllOf(ss, 1..Len(es))
    <3>0. PICK e \in ToSet(es) : \E q \in ToSet(Children(e)) : x = Visit(q, Append(path, e))
      BY <2>2 DEF VisitCalls
    <3>1. PICK q \in ToSet(Children(e)) : x = Visit(q, Append(path, e))
      BY <3>0
    <3>2. PICK k \in 1..Len(es) : e = es[k]
      BY <1>0 DEF ToSet
    <3>3. x \in ToSet(ss[k])
      BY <1>1, <3>1, <3>2 DEF VisitsOf
    <3>. QED  BY <3>3 DEF AllOf
  <2>. QED  BY <2>1, <2>2
<1>. QED  BY <1>3, <1>4, <1>5

(* The answers that are followed, and the items of a list. *)
LEMMA FollowedIsTyped ==
    ASSUME ObjectsTyped, Loaded, NEW path
    PROVE  /\ Followed(path) \in Seq(DOMAIN Entity)
           /\ ToSet(Followed(path)) =
                 IF HasReply(path, "AnswerReply")
                 THEN ToSet(chosen[path]) \intersect {a \in DOMAIN Entity : parent[a] # None} ELSE {}
<1>1. CASE ~HasReply(path, "AnswerReply")
  BY <1>1 DEF Followed, ToSet
<1>2. CASE HasReply(path, "AnswerReply")
  <2>. DEFINE S == {a \in DOMAIN Entity : parent[a] # None}
  <2>1. Followed(path) = Kept(chosen[path], S)
    BY <1>2 DEF Followed
  <2>2. chosen[path] \in Seq(STRING)
    BY <1>2 DEF HasReply, ObjectsTyped, RepliesTyped
  <2>3. STRING \intersect S \subseteq DOMAIN Entity
    OBVIOUS
  <2>. HIDE DEF S
  <2>4. Kept(chosen[path], S) \in Seq(STRING \intersect S) /\ ToSet(Kept(chosen[path], S)) = ToSet(chosen[path]) \intersect S
    BY <2>2, KeptFacts
  <2>5. Kept(chosen[path], S) \in Seq(DOMAIN Entity)
    BY <2>3, <2>4, SeqGrows
  <2>. QED  BY <1>2, <2>1, <2>4, <2>5 DEF S
<1>. QED  BY <1>1, <1>2

ItemsAt(path) == IF HasReply(path, "ItemListReply") THEN ReplyAt(path).value ELSE <<>>
ItemVisits(q, path, items) == [k \in DOMAIN items |-> VisitOfItem(q, path, items, k)]
ItemCalls(q, path, items) == {VisitOfItem(q, path, items, k) : k \in DOMAIN items}

LEMMA ItemsAreTyped ==
    ASSUME Given, NEW path
    PROVE  ItemsAt(path) \in Seq(Items) /\ Items \subseteq STRING
<1>1. CASE HasReply(path, "ItemListReply")
  BY <1>1, ReplyFacts, ContextAssumption DEF HasReply, ItemsAt
<1>2. CASE ~HasReply(path, "ItemListReply")
  BY <1>2, ContextAssumption DEF ItemsAt
<1>. QED  BY <1>1, <1>2

LEMMA ItemVisitsFacts ==
    ASSUME Given, NEW q \in DOMAIN Entity, NEW path \in Seq(STRING), NEW items \in Seq(Items)
    PROVE  /\ ItemVisits(q, path, items) \in Seq(VisitCall)
           /\ ToSet(ItemVisits(q, path, items)) = ItemCalls(q, path, items)
<1>1. /\ DOMAIN items = 1..Len(items) /\ Len(items) \in Nat
      /\ \A k \in 1..Len(items) : items[k] \in Items /\ items[k] \in STRING
  BY ContextAssumption
<1>2. \A k \in 1..Len(items) : Append(path, items[k]) \in Seq(STRING)
  BY <1>1
<1>3. \A k \in 1..Len(items) : VisitOfItem(q, path, items, k) \in VisitCall
  BY <1>1, <1>2 DEF VisitOfItem, VisitCall
<1>4. ItemVisits(q, path, items) = [k \in 1..Len(items) |-> VisitOfItem(q, path, items, k)]
  BY <1>1 DEF ItemVisits
<1>5. ItemVisits(q, path, items) \in Seq(VisitCall)
  BY <1>1, <1>3, <1>4
<1>6. /\ DOMAIN ItemVisits(q, path, items) = DOMAIN items
      /\ \A k \in DOMAIN items : ItemVisits(q, path, items)[k] = VisitOfItem(q, path, items, k)
  BY DEF ItemVisits
<1>. QED  BY <1>5, <1>6 DEF ToSet, ItemCalls

Chapters == Existing(ctx.chapters, {"Chapter"})

LEMMA ChaptersFacts ==
    ASSUME Given
    PROVE  /\ Chapters \in Seq(Of({"Chapter"})) /\ Chapters \in Seq(DOMAIN Entity)
           /\ ToSet(Chapters) \subseteq Of({"Chapter"})
           /\ ToSet(Chapters) = ToSet(ctx.chapters) \intersect Of({"Chapter"})
<1>1. /\ Chapters \in Seq(Of({"Chapter"})) /\ ToSet(Chapters) \subseteq Of({"Chapter"})
      /\ ToSet(Chapters) = ToSet(ctx.chapters) \intersect Of({"Chapter"})
  BY ListsAreTyped, ExistingFacts DEF Chapters
<1>2. Chapters \in Seq(DOMAIN Entity)
  BY <1>1, OfIsTyped, SeqGrows
<1>. QED  BY <1>1, <1>2

(* The calls that the visitor makes. *)
LEMMA StartVisitCalls ==
    ASSUME ObjectsTyped, StartVisit
    PROVE  /\ todo' \in Seq(VisitCall)
           /\ ToSet(todo') = VisitCalls(ToSet(Chapters), <<>>)
<1>. DEFINE cs == Chapters
<1>1. todo' = FlattenSeq([k \in DOMAIN cs |-> Visits(Children(cs[k]), <<cs[k]>>)])
  BY DEF StartVisit, Chapters
<1>2. cs \in Seq(DOMAIN Entity) /\ <<>> \in Seq(STRING) /\ Given
  BY ChaptersFacts DEF ObjectsTyped
<1>. HIDE DEF cs
<1>3. \A k \in DOMAIN cs : Append(<<>>, cs[k]) = <<cs[k]>>
  OBVIOUS
<1>4. [k \in DOMAIN cs |-> Visits(Children(cs[k]), <<cs[k]>>)]
        = [k \in DOMAIN cs |-> Visits(Children(cs[k]), Append(<<>>, cs[k]))]
  BY <1>3
<1>5. todo' = VisitsBelow(cs, <<>>)
  BY <1>1, <1>4 DEF VisitsBelow
<1>6. VisitsBelow(cs, <<>>) \in Seq(VisitCall) /\ ToSet(VisitsBelow(cs, <<>>)) = VisitCalls(ToSet(cs), <<>>)
  BY <1>2, VisitsBelowFacts
<1>. QED  BY <1>5, <1>6 DEF cs

LEMMA VisitingFacts ==
    ASSUME ObjectsTyped, NEW isItem \in BOOLEAN, Visiting(isItem)
    PROVE  /\ ctx' = ctx /\ stage = "visit" /\ stage' = "visit" /\ Loaded
           /\ UNCHANGED <<order, parent, required, target, chosen, fileReply, hop>>
           /\ todo \in Seq(VisitCall) /\ todo # <<>>
           /\ Current \in VisitCall /\ Tail(todo) \in Seq(VisitCall)
           /\ ToSet(todo) = {Current} \union ToSet(Tail(todo))
           /\ Current.entity \in DOMAIN Entity /\ Current.path \in Seq(STRING)
           /\ Current.item \in IF isItem THEN Items ELSE {None}
<1>1. /\ ctx' = ctx /\ stage = "visit" /\ stage' = "visit" /\ Loaded
      /\ UNCHANGED <<order, parent, required, target, chosen, fileReply, hop>>
      /\ todo \in Seq(VisitCall) /\ todo # <<>>
      /\ isItem = (Current.item # None)
  BY DEF Visiting, ObjectsTyped, CallsTyped, Loaded, modelVars, replyVars
<1>2. /\ Current \in VisitCall /\ Tail(todo) \in Seq(VisitCall)
      /\ ToSet(todo) = {Current} \union ToSet(Tail(todo))
  BY <1>1, HeadAndTail DEF Current
<1>3. Current.entity \in DOMAIN Entity /\ Current.path \in Seq(STRING) /\ Current.item \in Items \union {None}
  BY <1>2 DEF VisitCall
<1>. QED  BY <1>1, <1>2, <1>3

LEMMA ListCalls ==
    ASSUME ObjectsTyped, VisitListQuestion
    PROVE  /\ todo' \in Seq(VisitCall)
           /\ ToSet(todo') = ItemCalls(Current.entity, Current.path, ItemsAt(Current.path))
                             \union ToSet(Tail(todo))
<1>1. Visiting(FALSE) /\ Given
  BY DEF VisitListQuestion, ObjectsTyped
<1>2. Current.entity \in DOMAIN Entity /\ Current.path \in Seq(STRING) /\ Tail(todo) \in Seq(VisitCall)
  BY <1>1, VisitingFacts
<1>. DEFINE new == ItemVisits(Current.entity, Current.path, ItemsAt(Current.path))
<1>3. todo' = new \o Tail(todo)
  BY DEF VisitListQuestion, ItemVisits, ItemsAt
<1>4. new \in Seq(VisitCall) /\ ToSet(new) = ItemCalls(Current.entity, Current.path, ItemsAt(Current.path))
  BY <1>1, <1>2, ItemsAreTyped, ItemVisitsFacts
<1>. HIDE DEF new
<1>5. todo' \in Seq(VisitCall) /\ ToSet(todo') = ToSet(new) \union ToSet(Tail(todo))
  <2>. DEFINE old == Tail(todo)
  <2>1. new \in Seq(VisitCall) /\ old \in Seq(VisitCall) /\ todo' = new \o old
    BY <1>2, <1>3, <1>4
  <2>. HIDE DEF old
  <2>2. new \o old \in Seq(VisitCall) /\ ToSet(new \o old) = ToSet(new) \union ToSet(old)
    BY <2>1, ToSetConcat
  <2>3. todo' \in Seq(VisitCall) /\ ToSet(todo') = ToSet(new) \union ToSet(old)
    BY <2>1, <2>2, Zenon
  <2>. QED  BY <2>3 DEF old
<1>. QED  BY <1>4, <1>5

LEMMA OptionsCalls ==
    ASSUME ObjectsTyped, VisitOptionsQuestion
    PROVE  /\ todo' \in Seq(VisitCall)
           /\ ToSet(todo') = VisitCalls(ToSet(Followed(Current.path)), Current.path)
                             \union ToSet(Tail(todo))
<1>1. Visiting(FALSE) /\ Given
  BY DEF VisitOptionsQuestion, ObjectsTyped
<1>2. Loaded /\ Current.path \in Seq(STRING) /\ Tail(todo) \in Seq(VisitCall)
  BY <1>1, VisitingFacts
<1>. DEFINE new == VisitsBelow(Followed(Current.path), Current.path)
<1>3. todo' = new \o Tail(todo)
  BY DEF VisitOptionsQuestion, VisitsBelow
<1>4. new \in Seq(VisitCall) /\ ToSet(new) = VisitCalls(ToSet(Followed(Current.path)), Current.path)
  BY <1>1, <1>2, FollowedIsTyped, VisitsBelowFacts
<1>. HIDE DEF new
<1>5. todo' \in Seq(VisitCall) /\ ToSet(todo') = ToSet(new) \union ToSet(Tail(todo))
  <2>. DEFINE old == Tail(todo)
  <2>1. new \in Seq(VisitCall) /\ old \in Seq(VisitCall) /\ todo' = new \o old
    BY <1>2, <1>3, <1>4
  <2>. HIDE DEF old
  <2>2. new \o old \in Seq(VisitCall) /\ ToSet(new \o old) = ToSet(new) \union ToSet(old)
    BY <2>1, ToSetConcat
  <2>3. todo' \in Seq(VisitCall) /\ ToSet(todo') = ToSet(new) \union ToSet(old)
    BY <2>1, <2>2, Zenon
  <2>. QED  BY <2>3 DEF old
<1>. QED  BY <1>4, <1>5

LEMMA VisitItemCalls ==
    ASSUME ObjectsTyped, VisitItem
    PROVE  /\ todo' \in Seq(VisitCall)
           /\ ToSet(todo') = VisitsOf(ToSet(Children(Current.entity)), Current.path)
                             \union ToSet(Tail(todo))
<1>1. Visiting(TRUE) /\ Given
  BY DEF VisitItem, ObjectsTyped
<1>2. Current.entity \in DOMAIN Entity /\ Current.path \in Seq(STRING) /\ Tail(todo) \in Seq(VisitCall)
  BY <1>1, VisitingFacts
<1>. DEFINE cs == Children(Current.entity)
            new == Visits(cs, Current.path)
<1>3. todo' = new \o Tail(todo)
  BY DEF VisitItem
<1>4. cs \in Seq(DOMAIN Entity) /\ DOMAIN Entity \subseteq STRING
  BY <1>1, <1>2, ChildrenFacts, OfIsTyped
<1>. HIDE DEF cs
<1>5. new \in Seq([entity: DOMAIN Entity, path: Seq(STRING), item: {None}, n: {0}])
      /\ ToSet(new) = VisitsOf(ToSet(cs), Current.path)
  BY <1>2, <1>4, VisitsFacts
<1>6. [entity: DOMAIN Entity, path: Seq(STRING), item: {None}, n: {0}] \subseteq VisitCall
  BY DEF VisitCall
<1>. HIDE DEF new
<1>7. new \in Seq(VisitCall)
  BY <1>5, <1>6, SeqGrows
<1>8. todo' \in Seq(VisitCall) /\ ToSet(todo') = ToSet(new) \union ToSet(Tail(todo))
  <2>. DEFINE old == Tail(todo)
  <2>1. new \in Seq(VisitCall) /\ old \in Seq(VisitCall) /\ todo' = new \o old
    BY <1>2, <1>3, <1>7
  <2>. HIDE DEF old
  <2>2. new \o old \in Seq(VisitCall) /\ ToSet(new \o old) = ToSet(new) \union ToSet(old)
    BY <2>1, ToSetConcat
  <2>3. todo' \in Seq(VisitCall) /\ ToSet(todo') = ToSet(new) \union ToSet(old)
    BY <2>1, <2>2, Zenon
  <2>. QED  BY <2>3 DEF old
<1>. QED  BY <1>5, <1>8 DEF cs

LEMMA StartVisitTyped == ASSUME ObjectsTyped, StartVisit PROVE ObjectsTyped'
<1>1. ctx' = ctx /\ stage = "project" /\ stage' = "visit" /\ Loaded
      /\ UNCHANGED <<order, parent, required, target, chosen, fileReply, titles, sameAs, pending, hop>>
  BY DEF StartVisit, Loaded, modelVars, replyVars, titleVars
<1>2. todo' \in Seq(VisitCall)
  BY StartVisitCalls
<1>3. CallsTyped' /\ stage' \in Stages /\ Given'
  BY <1>1, <1>2, SameContext DEF CallsTyped, Stages, ObjectsTyped
<1>4. ModelTyped' /\ RepliesTyped' /\ TitlesTyped'
  BY <1>1, SameContext DEF ObjectsTyped, ModelTyped, RepliesTyped, TitlesTyped
<1>. QED  BY <1>3, <1>4 DEF ObjectsTyped

LEMMA VisitQuestionTyped ==
    ASSUME ObjectsTyped, VisitListQuestion \/ VisitOptionsQuestion \/ VisitOtherQuestion
    PROVE  ObjectsTyped' /\ UNCHANGED <<titles, sameAs, pending>>
<1>1. Visiting(FALSE) /\ UNCHANGED <<titles, sameAs, pending>>
  BY DEF VisitListQuestion, VisitOptionsQuestion, VisitOtherQuestion
<1>2. ctx' = ctx /\ stage = "visit" /\ stage' = "visit" /\ Loaded
      /\ UNCHANGED <<order, parent, required, target, chosen, fileReply, hop>>
      /\ Tail(todo) \in Seq(VisitCall)
  BY <1>1, VisitingFacts
<1>3. todo' \in Seq(VisitCall)
  BY <1>2, ListCalls, OptionsCalls DEF VisitOtherQuestion
<1>4. CallsTyped' /\ stage' \in Stages /\ Given'
  BY <1>2, <1>3, SameContext DEF CallsTyped, Stages, ObjectsTyped
<1>5. ModelTyped' /\ RepliesTyped' /\ TitlesTyped'
  BY <1>1, <1>2, SameContext DEF ObjectsTyped, ModelTyped, RepliesTyped, TitlesTyped
<1>. QED  BY <1>1, <1>4, <1>5 DEF ObjectsTyped

LEMMA VisitItemTyped ==
    ASSUME ObjectsTyped, VisitItem
    PROVE  ObjectsTyped' /\ DOMAIN titles' = DOMAIN titles \union {Current.item}
<1>1. Visiting(TRUE)
  BY DEF VisitItem
<1>2. ctx' = ctx /\ stage = "visit" /\ stage' = "visit" /\ Loaded
      /\ UNCHANGED <<order, parent, required, target, chosen, fileReply, hop>>
      /\ Current.item \in Items
  BY <1>1, VisitingFacts
<1>3. todo' \in Seq(VisitCall)
  BY VisitItemCalls
<1>4. CallsTyped' /\ stage' \in Stages /\ Given'
  BY <1>2, <1>3, SameContext DEF CallsTyped, Stages, ObjectsTyped
<1>5. ModelTyped' /\ RepliesTyped'
  BY <1>2, SameContext DEF ObjectsTyped, ModelTyped, RepliesTyped
<1>6. PICK title, named :
         /\ titles' = Put(titles, Current.item, title)
         /\ sameAs' = IF named # None THEN Put(sameAs, Current.item, named) ELSE sameAs
         /\ pending' = IF named # None /\ Current.item \notin DOMAIN sameAs
                       THEN Append(pending, Current.item) ELSE pending
  <2>. DEFINE followups == Children(Current.entity)
              first == Append(Current.path, IF followups = <<>> THEN None ELSE followups[1])
              title == IF first \in Paths /\ HasDirectTitle(ReplyAt(first))
                       THEN DirectTitle(first) ELSE Numbered(Current.n)
              named == IF first \in Paths THEN Named(ReplyAt(first)) ELSE None
  <2>1. /\ titles' = Put(titles, Current.item, title)
        /\ sameAs' = IF named # None THEN Put(sameAs, Current.item, named) ELSE sameAs
        /\ pending' = IF named # None /\ Current.item \notin DOMAIN sameAs
                      THEN Append(pending, Current.item) ELSE pending
    BY DEF VisitItem
  <2>. HIDE DEF title, named
  <2>. QED  BY <2>1
<1>7. DOMAIN titles' = DOMAIN titles \union {Current.item}
  BY <1>6 DEF Put
<1>8. DOMAIN sameAs' = DOMAIN sameAs \union (IF named # None THEN {Current.item} ELSE {})
  BY <1>6 DEF Put
<1>9. TitlesTyped
  BY <1>2 DEF ObjectsTyped
<1>10. pending' \in Seq(DOMAIN sameAs')
  <2>1. pending \in Seq(DOMAIN sameAs')
    BY <1>8, <1>9, SeqGrows DEF TitlesTyped
  <2>2. named # None => Current.item \in DOMAIN sameAs'
    BY <1>8
  <2>3. CASE named # None /\ Current.item \notin DOMAIN sameAs
    <3>1. Append(pending, Current.item) \in Seq(DOMAIN sameAs')
      BY <2>1, <2>2, <2>3
    <3>. QED  BY <1>6, <2>3, <3>1
  <2>4. CASE ~(named # None /\ Current.item \notin DOMAIN sameAs)
    <3>1. pending' = pending
      BY <1>6, <2>4
    <3>. QED  BY <2>1, <3>1
  <2>. QED  BY <2>3, <2>4
<1>11. TitlesTyped'
  BY <1>2, <1>7, <1>8, <1>9, <1>10 DEF TitlesTyped
<1>. QED  BY <1>4, <1>5, <1>7, <1>11 DEF ObjectsTyped

LEMMA ChainTyped ==
    ASSUME ObjectsTyped, StartTitles \/ PopItem \/ FollowSameAs \/ CopyTitle \/ ShowTitles
    PROVE  ObjectsTyped' /\ DOMAIN titles' = DOMAIN titles
<1>1. ctx' = ctx /\ stage \in {"visit", "titles"} /\ stage' \in {"titles", "built"} /\ Loaded
      /\ UNCHANGED <<order, parent, required, target, chosen, fileReply, sameAs>>
      /\ TitlesTyped
  BY DEF StartTitles, PopItem, FollowSameAs, CopyTitle, ShowTitles, Loaded, modelVars, replyVars,
     titleVars, ObjectsTyped
<1>2. todo' = <<>>
  BY DEF StartTitles, PopItem, FollowSameAs, CopyTitle, ShowTitles, ObjectsTyped, CallsTyped
<1>3. CallsTyped' /\ stage' \in Stages /\ Given'
  BY <1>1, <1>2, SameContext DEF CallsTyped, Stages, ObjectsTyped
<1>4. ModelTyped' /\ RepliesTyped'
  BY <1>1, SameContext DEF ObjectsTyped, ModelTyped, RepliesTyped
<1>5. /\ DOMAIN titles' = DOMAIN titles
      /\ pending' \in Seq(DOMAIN sameAs)
      /\ hop'.item \in DOMAIN sameAs \union {None}
  <2>1. CASE StartTitles \/ ShowTitles
    BY <1>1, <2>1 DEF StartTitles, ShowTitles, titleVars, TitlesTyped
  <2>2. CASE PopItem
    <3>1. pending \in Seq(DOMAIN sameAs) /\ pending # <<>>
      BY <1>1, <2>2 DEF PopItem, TitlesTyped
    <3>2. Last(pending) \in DOMAIN sameAs /\ Front(pending) \in Seq(DOMAIN sameAs)
      BY <3>1 DEF Last, Front
    <3>3. hop'.item = Last(pending) /\ pending' = Front(pending) /\ titles' = titles
      BY <2>2 DEF PopItem
    <3>. QED  BY <3>2, <3>3
  <2>3. CASE FollowSameAs
    <3>1. UNCHANGED <<titles, pending>>
      BY <2>3 DEF FollowSameAs
    <3>2. hop'.item = hop.item
      BY <2>3 DEF FollowSameAs
    <3>. QED  BY <1>1, <3>1, <3>2 DEF TitlesTyped
  <2>4. CASE CopyTitle
    <3>1. pending' = pending /\ hop'.item = None
      BY <2>4 DEF CopyTitle, Nowhere
    <3>2. hop.item \in DOMAIN titles
      BY <1>1, <2>4 DEF CopyTitle, TitlesTyped
    <3>3. DOMAIN titles' = DOMAIN titles
      BY <2>4, <3>2 DEF CopyTitle, Put
    <3>. QED  BY <1>1, <3>1, <3>3 DEF TitlesTyped
  <2>. QED  BY <2>1, <2>2, <2>3, <2>4
<1>6. TitlesTyped'
  BY <1>1, <1>5 DEF TitlesTyped
<1>. QED  BY <1>3, <1>4, <1>5, <1>6 DEF ObjectsTyped

(* The extractor: what it is called with. *)
LEMMA ExtractTyped ==
    ASSUME NEW es \in Seq(DOMAIN Entity), Given, NEW path \in Seq(STRING), NEW place \in Seq(STRING)
    PROVE  Extract(es, path, place) \in Seq(ExtractCall)
<1>1. Extract(es, path, place) \in Seq([entity: DOMAIN Entity, path: Seq(STRING), at: {place}])
  BY OfIsTyped, ExtractFacts
<1>2. [entity: DOMAIN Entity, path: Seq(STRING), at: {place}] \subseteq ExtractCall
  BY DEF ExtractCall
<1>. QED  BY <1>1, <1>2, SeqGrows

LEMMA ExtractingFacts ==
    ASSUME ObjectsTyped, NEW types, Extracting(types)
    PROVE  /\ ctx' = ctx /\ stage = "extract" /\ stage' = "extract" /\ Loaded
           /\ UNCHANGED <<order, parent, required, target, chosen, fileReply, titles, sameAs, pending, hop>>
           /\ Tail(todo) \in Seq(ExtractCall) /\ Current.entity \in DOMAIN Entity
           /\ Current.path \in Seq(STRING) /\ Current.at \in Seq(STRING)
<1>1. /\ ctx' = ctx /\ stage = "extract" /\ stage' = "extract" /\ Loaded
      /\ UNCHANGED <<order, parent, required, target, chosen, fileReply, titles, sameAs, pending, hop>>
      /\ todo \in Seq(ExtractCall) /\ todo # <<>>
  BY DEF Extracting, ObjectsTyped, CallsTyped, Loaded, modelVars, replyVars, titleVars
<1>2. Current \in ExtractCall /\ Tail(todo) \in Seq(ExtractCall)
  BY <1>1, HeadAndTail DEF Current
<1>3. Current.entity \in DOMAIN Entity /\ Current.path \in Seq(STRING) /\ Current.at \in Seq(STRING)
  BY <1>2 DEF ExtractCall
<1>. QED  BY <1>1, <1>2, <1>3

(* Calls of the extractor for one place after the other. *)
LEMMA PlacesTyped ==
    ASSUME NEW n \in Nat, NEW ss, ss = [k \in 1..n |-> ss[k]],
           \A k \in 1..n : ss[k] \in Seq(ExtractCall)
    PROVE  FlattenSeq(ss) \in Seq(ExtractCall)
<1>1. ss \in Seq(Seq(ExtractCall))
  OBVIOUS
<1>. QED  BY <1>1, FlattenFacts

LEMMA ExtractionCalls ==
    ASSUME ObjectsTyped,
           ExtractChapter \/ ExtractReply \/ ExtractChoices \/ ExtractAnswer \/ ExtractItems
    PROVE  todo' \in Seq(ExtractCall)
<1>0. PICK types : Extracting(types)
  BY DEF ExtractChapter, ExtractReply, ExtractChoices, ExtractAnswer, ExtractItems
<1>1. /\ Tail(todo) \in Seq(ExtractCall) /\ Current.entity \in DOMAIN Entity /\ Loaded /\ Given
      /\ Current.path \in Seq(STRING) /\ Current.at \in Seq(STRING) /\ DOMAIN Entity \subseteq STRING
  BY <1>0, ExtractingFacts, OfIsTyped DEF ObjectsTyped
<1>2. CASE ExtractReply \/ ExtractChoices
  BY <1>1, <1>2 DEF ExtractReply, ExtractChoices
<1>3. CASE ExtractChapter
  <2>. DEFINE new == Extract(Children(Current.entity), Current.path, ObjectOf(Current.path))
              old == Tail(todo)
  <2>1. todo' = new \o old
    BY <1>3 DEF ExtractChapter
  <2>2. new \in Seq(ExtractCall) /\ old \in Seq(ExtractCall)
    BY <1>1, ChildrenFacts, ExtractTyped DEF ObjectOf
  <2>. HIDE DEF new, old
  <2>3. new \o old \in Seq(ExtractCall)
    BY <2>2, ToSetConcat
  <2>. QED  BY <2>1, <2>3, Zenon
<1>4. CASE ExtractAnswer
  <2>. DEFINE fs == Followed(Current.path)
              place(a) == Append(Current.path, a)
              new == FlattenSeq([k \in DOMAIN fs |->
                         Extract(Children(fs[k]), place(fs[k]), ObjectOf(place(fs[k])))])
              old == Tail(todo)
  <2>1. todo' = new \o old
    BY <1>4 DEF ExtractAnswer
  <2>2. fs \in Seq(DOMAIN Entity) /\ old \in Seq(ExtractCall)
    BY <1>1, FollowedIsTyped
  <2>. HIDE DEF fs, old
  <2>3. ASSUME NEW k \in 1..Len(fs)
        PROVE  Extract(Children(fs[k]), place(fs[k]), ObjectOf(place(fs[k]))) \in Seq(ExtractCall)
    <3>1. fs[k] \in DOMAIN Entity
      BY <2>2
    <3>2. Children(fs[k]) \in Seq(DOMAIN Entity) /\ place(fs[k]) \in Seq(STRING)
      BY <1>1, <3>1, ChildrenFacts
    <3>. HIDE DEF place
    <3>3. ObjectOf(place(fs[k])) \in Seq(STRING)
      BY <1>1, <3>2 DEF ObjectOf
    <3>. QED  BY <1>1, <3>2, <3>3, ExtractTyped
  <2>. HIDE DEF place
  <2>4. DOMAIN fs = 1..Len(fs) /\ Len(fs) \in Nat
    BY <2>2
  <2>5. new \in Seq(ExtractCall)
    <3>. DEFINE ss == [k \in 1..Len(fs) |-> Extract(Children(fs[k]), place(fs[k]), ObjectOf(place(fs[k])))]
    <3>1. ss = [k \in 1..Len(fs) |-> ss[k]] /\ \A k \in 1..Len(fs) : ss[k] \in Seq(ExtractCall)
      BY <2>3
    <3>2. new = FlattenSeq(ss)
      BY <2>4
    <3>. HIDE DEF ss, new
    <3>3. FlattenSeq(ss) \in Seq(ExtractCall)
      BY <2>4, <3>1, PlacesTyped
    <3>. QED  BY <3>2, <3>3
  <2>. HIDE DEF new
  <2>6. new \o old \in Seq(ExtractCall)
    BY <2>2, <2>5, ToSetConcat
  <2>. QED  BY <2>1, <2>6, Zenon
<1>5. CASE ExtractItems
  <2>1. PICK items \in {<<>>, ItemsAt(Current.path)} :
           todo' = FlattenSeq([k \in DOMAIN items |->
                       Extract(Children(Current.entity), Append(Current.path, items[k]),
                               Append(Current.path, items[k]))]) \o Tail(todo)
    <3>. DEFINE its == IF HasReply(Current.path, "ItemListReply") /\ IsKeyed
                       THEN ReplyAt(Current.path).value ELSE <<>>
    <3>1. todo' = FlattenSeq([k \in DOMAIN its |->
                     Extract(Children(Current.entity), [j \in DOMAIN its |-> Append(Current.path, its[j])][k],
                             [j \in DOMAIN its |-> Append(Current.path, its[j])][k])]) \o Tail(todo)
      BY <1>5 DEF ExtractItems
    <3>2. its \in {<<>>, ItemsAt(Current.path)}
      BY DEF ItemsAt
    <3>. HIDE DEF its
    <3>3. \A k \in DOMAIN its :
             [j \in DOMAIN its |-> Append(Current.path, its[j])][k] = Append(Current.path, its[k])
      OBVIOUS
    <3>4. [k \in DOMAIN its |->
             Extract(Children(Current.entity), [j \in DOMAIN its |-> Append(Current.path, its[j])][k],
                     [j \in DOMAIN its |-> Append(Current.path, its[j])][k])]
          = [k \in DOMAIN its |->
                Extract(Children(Current.entity), Append(Current.path, its[k]), Append(Current.path, its[k]))]
      BY <3>3
    <3>5. todo' = FlattenSeq([k \in DOMAIN its |->
                     Extract(Children(Current.entity), Append(Current.path, its[k]),
                             Append(Current.path, its[k]))]) \o Tail(todo)
      BY <3>1, <3>4, Zenon
    <3>. QED  BY <3>2, <3>5
  <2>2. items \in Seq(Items) /\ Items \subseteq STRING
    <3>1. ItemsAt(Current.path) \in Seq(Items) /\ Items \subseteq STRING
      BY <1>1, ItemsAreTyped
    <3>2. <<>> \in Seq(Items)
      OBVIOUS
    <3>3. items = <<>> \/ items = ItemsAt(Current.path)
      BY <2>1
    <3>. QED  BY <3>1, <3>2, <3>3, Zenon
  <2>. DEFINE place(i) == Append(Current.path, i)
              new == FlattenSeq([k \in DOMAIN items |->
                         Extract(Children(Current.entity), place(items[k]), place(items[k]))])
              old == Tail(todo)
  <2>3. todo' = new \o old /\ old \in Seq(ExtractCall)
    BY <1>1, <2>1
  <2>. HIDE DEF old
  <2>4. Children(Current.entity) \in Seq(DOMAIN Entity)
    BY <1>1, ChildrenFacts
  <2>5. ASSUME NEW k \in 1..Len(items)
        PROVE  Extract(Children(Current.entity), place(items[k]), place(items[k])) \in Seq(ExtractCall)
    <3>1. items[k] \in STRING
      <4>1. items[k] \in Items
        BY <2>2
      <4>. QED  BY <2>2, <4>1
    <3>2. place(items[k]) \in Seq(STRING)
      BY <1>1, <3>1
    <3>. HIDE DEF place
    <3>. QED  BY <1>1, <2>4, <3>2, ExtractTyped
  <2>. HIDE DEF place
  <2>6. DOMAIN items = 1..Len(items) /\ Len(items) \in Nat
    BY <2>2
  <2>7. new \in Seq(ExtractCall)
    <3>. DEFINE ss == [k \in 1..Len(items) |->
                          Extract(Children(Current.entity), place(items[k]), place(items[k]))]
    <3>1. ss = [k \in 1..Len(items) |-> ss[k]] /\ \A k \in 1..Len(items) : ss[k] \in Seq(ExtractCall)
      BY <2>5
    <3>2. new = FlattenSeq(ss)
      BY <2>6
    <3>. HIDE DEF ss, new
    <3>3. FlattenSeq(ss) \in Seq(ExtractCall)
      BY <2>6, <3>1, PlacesTyped
    <3>. QED  BY <3>2, <3>3
  <2>. HIDE DEF new
  <2>8. new \o old \in Seq(ExtractCall)
    BY <2>3, <2>7, ToSetConcat
  <2>. QED  BY <2>3, <2>8, Zenon
<1>. QED  BY <1>2, <1>3, <1>4, <1>5

LEMMA ExtractionTyped == ASSUME ObjectsTyped, ExtractionNext PROVE ObjectsTyped'
<1>1. ctx' = ctx /\ stage \in {"built", "extract"} /\ stage' \in {"extract", "extracted"} /\ Loaded
      /\ UNCHANGED <<order, parent, required, target, chosen, fileReply, titles, sameAs, pending, hop>>
  BY DEF ExtractionNext, StartExtraction, ExtractChapter, ExtractReply, ExtractChoices, ExtractAnswer,
     ExtractItems, FinishExtraction, Extracting, Loaded, modelVars, replyVars, titleVars
<1>2. CallsTyped'
  <2>1. CASE StartExtraction
    <3>1. todo' = Extract(Chapters, <<>>, Root) /\ stage' = "extract" /\ Given /\ Root \in Seq(STRING)
      BY <2>1 DEF StartExtraction, Chapters, ObjectsTyped, Root
    <3>2. todo' \in Seq(ExtractCall)
      <4>1. Chapters \in Seq(DOMAIN Entity) /\ <<>> \in Seq(STRING)
        BY <3>1, ChaptersFacts
      <4>2. Extract(Chapters, <<>>, Root) \in Seq(ExtractCall)
        BY <3>1, <4>1, ExtractTyped, Zenon
      <4>. QED  BY <3>1, <4>2
    <3>. QED  BY <1>1, <3>1, <3>2, SameContext DEF CallsTyped
  <2>2. CASE ExtractChapter \/ ExtractReply \/ ExtractChoices \/ ExtractAnswer \/ ExtractItems
    <3>1. stage' = "extract"
      BY <2>2 DEF ExtractChapter, ExtractReply, ExtractChoices, ExtractAnswer, ExtractItems, Extracting
    <3>. QED  BY <1>1, <2>2, <3>1, ExtractionCalls, SameContext DEF CallsTyped
  <2>3. CASE FinishExtraction
    BY <1>1, <2>3 DEF FinishExtraction, CallsTyped
  <2>. QED  BY <2>1, <2>2, <2>3 DEF ExtractionNext
<1>3. stage' \in Stages /\ Given'
  BY <1>1, SameContext DEF Stages, ObjectsTyped
<1>4. ModelTyped' /\ RepliesTyped' /\ TitlesTyped'
  BY <1>1, SameContext DEF ObjectsTyped, ModelTyped, RepliesTyped, TitlesTyped
<1>. QED  BY <1>2, <1>3, <1>4 DEF ObjectsTyped

LEMMA ObjectsInit == ASSUME BuildInit PROVE ObjectsTyped
<1>1. Given
  BY DocumentAssumption DEF BuildInit, Given
<1>2. stage = "new" /\ todo = <<>>
  BY DEF BuildInit, ContextInit
<1>. QED  BY <1>1, <1>2 DEF ObjectsTyped, CallsTyped, Stages, Loaded

LEMMA ObjectsTypedStep == ASSUME ObjectsTyped, [Next]_vars PROVE ObjectsTyped'
<1>1. CASE ContextNext
  BY <1>1, LoadTyped, ResolveModelTyped, ResolveTyped, ResolveReportTyped, ResolveReplyTyped,
     StartVisitTyped, VisitQuestionTyped, VisitItemTyped, ChainTyped DEF ContextNext
<1>2. CASE ExtractionNext
  BY <1>2, ExtractionTyped
<1>3. CASE ForgetObjects /\ stage \in {"built", "extracted"}
  <2>1. stage' = "new" /\ todo' = <<>> /\ ctx' = ctx
    BY <1>3 DEF ForgetObjects, ObjectsTyped, CallsTyped
  <2>. QED  BY <2>1, SameContext DEF ObjectsTyped, CallsTyped, Stages, Loaded
<1>4. CASE UNCHANGED objectVars
  <2>1. /\ ctx' = ctx
        /\ UNCHANGED <<stage, todo, order, parent, required, target, chosen, fileReply,
                      titles, sameAs, pending, hop>>
    BY <1>4 DEF objectVars, contextVars, modelVars, replyVars, titleVars
  <2>2. CallsTyped' /\ stage' \in Stages /\ Given'
    BY <2>1, SameContext DEF CallsTyped, ObjectsTyped
  <2>3. Loaded => ModelTyped' /\ RepliesTyped' /\ TitlesTyped'
    BY <2>1, SameContext DEF ObjectsTyped, ModelTyped, RepliesTyped, TitlesTyped
  <2>. QED  BY <2>1, <2>2, <2>3 DEF ObjectsTyped, Loaded
<1>. QED  BY <1>1, <1>2, <1>3, <1>4, ObjectSteps DEF ObjectStep

LEMMA TypedObjects == ASSUME FormatInv, ObjectsTyped PROVE TypeOK
<1>1. stage \in {"model", "visit", "extract"} => \A k \in DOMAIN todo : todo[k].entity \in DOMAIN Entity
  <2>1. ASSUME NEW T, \A call \in T : call.entity \in DOMAIN Entity, todo \in Seq(T)
        PROVE  \A k \in DOMAIN todo : todo[k].entity \in DOMAIN Entity
    BY <2>1
  <2>2. /\ \A call \in ModelCall : call.entity \in DOMAIN Entity
        /\ \A call \in VisitCall : call.entity \in DOMAIN Entity
        /\ \A call \in ExtractCall : call.entity \in DOMAIN Entity
    BY DEF ModelCall, VisitCall, ExtractCall
  <2>. QED  BY <2>1, <2>2 DEF ObjectsTyped, CallsTyped
<1>2. stage \notin {"new", "invalid"} =>
         /\ required \in [Of(QuestionTypes) -> {"unset", "yes", "no"}]
         /\ parent \in [DOMAIN Entity -> DOMAIN Entity \union {None}]
         /\ target \in [DOMAIN Entity -> DOMAIN Entity \union {None}]
         /\ fileReply \in [ctx.files -> Paths \union {None}]
         /\ DOMAIN sameAs \subseteq DOMAIN titles /\ DOMAIN titles \subseteq Items
  BY DEF ObjectsTyped, Loaded, ModelTyped, RepliesTyped, TitlesTyped, Questions
<1>3. stage \in {"loaded", "model", "project"} => titles = <<>>
  BY DEF ObjectsTyped, Loaded, TitlesTyped
<1>. QED
  BY <1>1, <1>2, <1>3 DEF TypeOK, ObjectsTyped, FormatInv, Stages, PhaseNames, PandocStates

(* The loaded objects are typed and every call is about an entity that     *)
(* exists; a conversion runs only while the build waits for it.            *)
THEOREM TypeCorrect == Spec => []TypeOK
<1>1. BuildInit => FormatInv /\ ObjectsTyped
  BY FormatInit, ObjectsInit
<1>2. FormatInv /\ ObjectsTyped /\ [Next]_vars => FormatInv' /\ ObjectsTyped'
  BY FormatStep, ObjectsTypedStep
<1>. QED  BY <1>1, <1>2, TypedObjects, PTL DEF Spec

-----------------------------------------------------------------------------
(* The entities that the knowledge model leads to                          *)

Below(e) == ToSet(Children(e))
OneDown(above) == above \union UNION {Below(e) : e \in above}
UnderAt(f, n) == IF n = 0 THEN ToSet(Chapters) ELSE OneDown(f[n - 1])
UnderUpTo(f, m) == f = [n \in 0..m |-> UnderAt(f, n)]
HasUnder(m) == \E f : UnderUpTo(f, m)
UnderList == CHOOSE f : UnderUpTo(f, Cardinality(Entities))

LEMMA InModelIsUnder == InModel = UnderList[Cardinality(Entities)]
BY DEF InModel, UnderList, UnderUpTo, UnderAt, OneDown, Below, Chapters

LEMMA UnderExists ==
    ASSUME NEW m \in Nat
    PROVE  HasUnder(m)
<1>. DEFINE Bad == {n \in Nat : ~HasUnder(n)}
<1>. SUFFICES ASSUME Bad # {} PROVE FALSE
  OBVIOUS
<1>1. PICK n \in Bad : \A k \in Bad : n <= k
  BY LeastNumber
<1>2. CASE n = 0
  <2>. DEFINE f == [k \in 0..0 |-> ToSet(Chapters)]
  <2>1. UnderUpTo(f, 0)
    BY DEF UnderUpTo, UnderAt
  <2>. QED  BY <1>1, <1>2, <2>1 DEF HasUnder
<1>3. CASE n # 0
  <2>1. n - 1 \in Nat /\ n - 1 \notin Bad
    BY <1>1, <1>3
  <2>2. PICK g : UnderUpTo(g, n - 1)
    BY <2>1 DEF HasUnder
  <2>. DEFINE f == [k \in 0..n |-> IF k = n THEN OneDown(g[n - 1]) ELSE g[k]]
  <2>a. f = [k \in 0..n |-> IF k = n THEN OneDown(g[n - 1]) ELSE g[k]]
    OBVIOUS
  <2>. HIDE DEF f
  <2>b. \A k \in 0..n : f[k] = IF k = n THEN OneDown(g[n - 1]) ELSE g[k]
    BY <2>a
  <2>3. \A k \in 0..n - 1 : f[k] = g[k] /\ g[k] = UnderAt(g, k)
    <3>1. \A k \in 0..n - 1 : g[k] = UnderAt(g, k)
      BY <2>2, <2>1 DEF UnderUpTo
    <3>2. \A k \in 0..n - 1 : k \in 0..n /\ k # n
      BY <2>1
    <3>. QED  BY <3>1, <3>2, <2>b
  <2>4. ASSUME NEW k \in 0..n  PROVE f[k] = UnderAt(f, k)
    <3>1. CASE k = 0
      BY <2>3, <2>1, <3>1 DEF UnderAt
    <3>2. CASE k # 0
      <4>1. k - 1 \in 0..n - 1 /\ f[k - 1] = g[k - 1]
        BY <3>2, <2>3, <2>1
      <4>2. f[k] = OneDown(g[k - 1])
        <5>1. CASE k = n
          BY <2>b, <5>1
        <5>2. CASE k # n
          BY <2>3, <3>2, <5>2, <2>1 DEF UnderAt
        <5>. QED  BY <5>1, <5>2
      <4>. QED  BY <4>1, <4>2, <3>2 DEF UnderAt
    <3>. QED  BY <3>1, <3>2
  <2>5. UnderUpTo(f, n)
    BY <2>4, <2>a DEF UnderUpTo
  <2>. QED  BY <1>1, <2>5 DEF HasUnder
<1>. QED  BY <1>2, <1>3

LEMMA UnderFacts ==
    /\ Cardinality(Entities) \in Nat
    /\ InModel = UnderList[Cardinality(Entities)]
    /\ UnderList[0] = ToSet(Chapters)
    /\ \A n \in 1..Cardinality(Entities) : UnderList[n] = OneDown(UnderList[n - 1])
<1>1. Cardinality(Entities) \in Nat
  BY ContextAssumption, FS_CardinalityType
<1>2. UnderUpTo(UnderList, Cardinality(Entities))
  BY <1>1, UnderExists DEF HasUnder, UnderList
<1>. DEFINE u == UnderList
            N == Cardinality(Entities)
<1>3. u = [n \in 0..N |-> UnderAt(u, n)]
  BY <1>2 DEF UnderUpTo
<1>. HIDE DEF u, N
<1>4. N \in Nat
  BY <1>1 DEF N
<1>5. \A n \in 0..N : u[n] = UnderAt(u, n)
  BY <1>3, Zenon
<1>6. u[0] = ToSet(Chapters) /\ \A n \in 1..N : u[n] = OneDown(u[n - 1])
  BY <1>4, <1>5 DEF UnderAt
<1>. QED  BY <1>1, <1>6, InModelIsUnder DEF u, N

(* It is the least set with the chapters that is closed under Children.    *)
LEMMA InModelIsLeast ==
    ASSUME NEW S, ToSet(Chapters) \subseteq S, \A e \in S : Below(e) \subseteq S
    PROVE  InModel \subseteq S
<1>. DEFINE u == UnderList
            N == Cardinality(Entities)
<1>1. /\ N \in Nat /\ u[0] = ToSet(Chapters)
      /\ \A n \in 1..N : u[n] = OneDown(u[n - 1])
  BY UnderFacts
<1>. HIDE DEF u, N
<1>. DEFINE Bad == {n \in 0..N : ~(u[n] \subseteq S)}
<1>2. Bad = {}
  <2>. SUFFICES ASSUME Bad # {} PROVE FALSE
    OBVIOUS
  <2>0. Bad \subseteq Nat
    BY <1>1
  <2>1. PICK n \in Bad : \A k \in Bad : n <= k
    BY LeastNumber, <2>0
  <2>2. n # 0
    BY <1>1, <2>1
  <2>3. n \in 1..N /\ n - 1 \in 0..N /\ n - 1 \notin Bad
    BY <1>1, <2>1, <2>2
  <2>4. u[n - 1] \subseteq S /\ u[n] = OneDown(u[n - 1])
    BY <1>1, <2>3
  <2>5. u[n] \subseteq S
    BY <2>4, Zenon DEF OneDown
  <2>. QED  BY <2>1, <2>5
<1>3. u[N] \subseteq S
  BY <1>1, <1>2
<1>. QED  BY <1>3, UnderFacts DEF u, N

(* It is closed: it has been reached after as many steps down as there are *)
(* entities, because every step before that has added one.                 *)
ClosedSet(S) == \A e \in S : Below(e) \subseteq S

LEMMA InModelIsClosed ==
    ASSUME Given
    PROVE  /\ ToSet(Chapters) \subseteq InModel
           /\ ClosedSet(InModel)
           /\ InModel \subseteq DOMAIN Entity
<1>. DEFINE u == UnderList
            N == Cardinality(Entities)
<1>1. /\ N \in Nat /\ u[0] = ToSet(Chapters) /\ InModel = u[N]
      /\ \A n \in 1..N : u[n] = OneDown(u[n - 1])
  BY UnderFacts
<1>2. /\ ToSet(Chapters) \subseteq DOMAIN Entity /\ DOMAIN Entity \subseteq Entities
      /\ \A e \in DOMAIN Entity : Below(e) \subseteq DOMAIN Entity
  <2>1. \A e \in DOMAIN Entity : Below(e) \subseteq DOMAIN Entity
    BY ChildrenFacts, OfIsTyped DEF Below
  <2>. QED  BY <2>1, ChaptersFacts, OfIsTyped
<1>3. InModel \subseteq DOMAIN Entity
  BY <1>2, InModelIsLeast, Zenon
<1>4. IsFiniteSet(Entities) /\ N = Cardinality(Entities)
  BY ContextAssumption
<1>. HIDE DEF u, N
<1>. DEFINE Right(n) == /\ ToSet(Chapters) \subseteq u[n] /\ u[n] \subseteq DOMAIN Entity
                        /\ ClosedSet(u[n]) \/ Cardinality(u[n]) >= n
            Bad == {n \in 0..N : ~Right(n)}
<1>5. Bad = {}
  <2>. SUFFICES ASSUME Bad # {} PROVE FALSE
    OBVIOUS
  <2>0. Bad \subseteq Nat
    BY <1>1
  <2>1. PICK n \in Bad : \A k \in Bad : n <= k
    BY LeastNumber, <2>0
  <2>2. CASE n = 0
    <3>1. u[0] \subseteq Entities
      BY <1>1, <1>2
    <3>2. Cardinality(u[0]) >= 0
      BY <3>1, <1>4, FS_Subset, FS_CardinalityType
    <3>. QED  BY <1>1, <1>2, <2>1, <2>2, <3>2
  <2>3. CASE n # 0
    <3>1. n \in 1..N /\ n - 1 \in 0..N /\ n - 1 \notin Bad /\ n \in Nat
      BY <1>1, <2>1, <2>3
    <3>2. Right(n - 1) /\ u[n] = OneDown(u[n - 1])
      BY <1>1, <3>1
    <3>3. ToSet(Chapters) \subseteq u[n] /\ u[n] \subseteq DOMAIN Entity
      BY <1>2, <3>2, Zenon DEF OneDown
    <3>4. CASE ClosedSet(u[n - 1])
      <4>1. u[n] = u[n - 1]
        BY <3>2, <3>4 DEF OneDown, ClosedSet
      <4>. QED  BY <2>1, <3>3, <3>4, <4>1
    <3>5. CASE ~ClosedSet(u[n - 1])
      <4>1. Cardinality(u[n - 1]) >= n - 1
        BY <3>2, <3>5
      <4>2. u[n - 1] \subseteq u[n] /\ u[n - 1] # u[n]
        BY <3>2, <3>5 DEF OneDown, ClosedSet
      <4>3. IsFiniteSet(u[n]) /\ Cardinality(u[n]) \in Nat
        BY <1>2, <1>4, <3>3, FS_Subset, FS_CardinalityType
      <4>4. Cardinality(u[n - 1]) <= Cardinality(u[n]) /\ Cardinality(u[n - 1]) # Cardinality(u[n])
            /\ Cardinality(u[n - 1]) \in Nat
        BY <4>2, <4>3, FS_Subset, FS_CardinalityType
      <4>5. Cardinality(u[n]) >= n
        BY <3>1, <4>1, <4>3, <4>4
      <4>. QED  BY <2>1, <3>3, <4>5
    <3>. QED  BY <3>4, <3>5
  <2>. QED  BY <2>2, <2>3
<1>6. Right(N)
  BY <1>1, <1>5
<1>7. ClosedSet(u[N])
  <2>1. CASE Cardinality(u[N]) >= N
    <3>1. u[N] \subseteq Entities
      BY <1>2, <1>6
    <3>2. Cardinality(u[N]) <= N /\ Cardinality(u[N]) \in Nat
      BY <1>4, <3>1, FS_Subset, FS_CardinalityType
    <3>3. Cardinality(u[N]) = N
      BY <1>1, <2>1, <3>2
    <3>4. u[N] = Entities
      BY <1>4, <3>1, <3>3, FS_Subset
    <3>. QED  BY <1>2, <1>6, <3>4 DEF ClosedSet
  <2>. QED  BY <1>6, <2>1
<1>. QED  BY <1>1, <1>3, <1>6, <1>7

-----------------------------------------------------------------------------
(* Required questions                                                      *)
(*                                                                         *)
(* The inductive invariant: resolve_links is called for entities that the  *)
(* model leads to (or for resources); what has a parent has been resolved  *)
(* and what is listed under it has been, or is about to be; and whoever    *)
(* has been resolved has compared its phase with numbered phases.          *)

Listed == Existing(ctx.phases, {"Phase"})
PhasesNumbered ==
    \A p \in Of({"Phase"}) : order[p] \in DOMAIN Listed /\ Listed[order[p]] = p
RequiredNow(q) == IF IsRequired(q) THEN "yes" ELSE "no"
Asking == Of(QuestionTypes \ {"FileQuestion"})

Tied(e) == parent[e] # None
Awaited(e) == stage = "model" /\ \E f \in ToSet(todo) : f.entity = e /\ f.owner # None
AwaitedChapter(c) == stage = "model" /\ Frame(c, None) \in ToSet(todo)
FollowedUp(e) == \A q \in Below(e) : Tied(q) \/ Awaited(q)

Tops == {"Chapter", "ResourceCollection"}
CallsInModel ==
    \A f \in ToSet(todo) :
        /\ f.owner = None <=> TypeOf(f.entity) \in Tops
        /\ f.entity \in InModel \/ TypeOf(f.entity) \in {"ResourceCollection", "ResourcePage"}

TiedInModel == \A e \in DOMAIN Entity : Tied(e) => e \in InModel \/ TypeOf(e) = "ResourcePage"
RequiredIfTied == \A q \in Asking : required[q] = IF Tied(q) THEN RequiredNow(q) ELSE "unset"
ChaptersFollowed == \A c \in ToSet(Chapters) : FollowedUp(c) \/ AwaitedChapter(c)
TiedFollowed == \A e \in DOMAIN Entity : Tied(e) => FollowedUp(e)

ModelInv ==
    /\ Loaded => TiedInModel
    /\ stage = "loaded" => (\A e \in DOMAIN Entity : ~Tied(e)) /\ (\A q \in Asking : required[q] = "unset")
    /\ stage = "model" => CallsInModel
    /\ stage = "model" \/ AfterModel =>
          PhasesNumbered /\ RequiredIfTied /\ ChaptersFollowed /\ TiedFollowed

LEMMA SameModel ==
    ASSUME ctx' = ctx
    PROVE  /\ Listed' = Listed /\ Chapters' = Chapters /\ Asking' = Asking
           /\ Of({"Phase"})' = Of({"Phase"})
           /\ \A e : Below(e)' = Below(e) /\ TypeOf(e)' = TypeOf(e)
           /\ InModel' = InModel
<1>1. Listed' = Listed /\ Chapters' = Chapters /\ Asking' = Asking /\ Of({"Phase"})' = Of({"Phase"})
  BY DEF Listed, Chapters, Existing, Of, Entity, TypeOf, Asking
<1>2. \A e : Below(e)' = Below(e) /\ TypeOf(e)' = TypeOf(e)
  BY DEF Below, Children, Existing, Of, Entity, TypeOf
<1>3. InModel' = InModel
  BY DEF InModel, Children, Existing, Of, Entity, TypeOf
<1>. QED  BY <1>1, <1>2, <1>3

(* The numbers that the phases get are their places in the list.           *)
LEMMA PhasesGetNumbers ==
    ASSUME ObjectsTyped, Loaded, ResolveModel
    PROVE  \A p \in Of({"Phase"}) : order'[p] \in DOMAIN Listed /\ Listed[order'[p]] = p
<1>1. order' = [p \in DOMAIN order |->
                   IF \E k \in DOMAIN Listed : Listed[k] = p
                   THEN CHOOSE k \in DOMAIN Listed : Listed[k] = p ELSE order[p]]
  BY DEF ResolveModel, NumberPhases, Listed
<1>2. DOMAIN order = Of({"Phase"})
  BY DEF ObjectsTyped, ModelTyped
<1>3. ASSUME NEW p \in Of({"Phase"})  PROVE \E k \in DOMAIN Listed : Listed[k] = p
  <2>1. p \in ToSet(ctx.phases)
    BY DEF ObjectsTyped, Given, IsContext, Of, Entity, TypeOf
  <2>2. p \in ToSet(Listed)
    BY <2>1, ListsAreTyped, ExistingFacts DEF Listed, ObjectsTyped
  <2>. QED  BY <2>2 DEF ToSet
<1>4. ASSUME NEW p \in Of({"Phase"})  PROVE order'[p] \in DOMAIN Listed /\ Listed[order'[p]] = p
  <2>1. order'[p] = CHOOSE k \in DOMAIN Listed : Listed[k] = p
    BY <1>1, <1>2, <1>3
  <2>. QED  BY <1>3, <2>1
<1>. QED  BY <1>4

LEMMA ModelStarts == ASSUME ObjectsTyped, ModelInv, ResolveModel PROVE ModelInv'
<1>0. /\ stage = "loaded" /\ stage' = "model" /\ ctx' = ctx /\ UNCHANGED <<parent, required>> /\ Given /\ Loaded
      /\ \A e \in DOMAIN Entity : ~Tied(e)
      /\ \A q \in Asking : required[q] = "unset"
  BY DEF ResolveModel, ModelInv, ObjectsTyped, Loaded
<1>. DEFINE rs == Existing(ctx.collections, {"ResourceCollection"})
<1>1. ToSet(todo') = CallsOf(ToSet(Chapters), None) \union CallsOf(ToSet(rs), None)
  <2>1. Chapters \in Seq(DOMAIN Entity) /\ rs \in Seq(Of({"ResourceCollection"}))
    BY <1>0, ChaptersFacts, ListsAreTyped, ExistingFacts
  <2>2. rs \in Seq(DOMAIN Entity)
    BY <1>0, <2>1, OfIsTyped, SeqGrows
  <2>. DEFINE a == Frames(Chapters, None)
              b == Frames(rs, None)
  <2>3. todo' = a \o b
    BY DEF ResolveModel, Chapters
  <2>. HIDE DEF rs
  <2>4. /\ a \in Seq(ModelCall) /\ b \in Seq(ModelCall)
        /\ ToSet(a) = CallsOf(ToSet(Chapters), None) /\ ToSet(b) = CallsOf(ToSet(rs), None)
    BY <2>1, <2>2, FramesTyped, FramesFacts
  <2>. HIDE DEF a, b
  <2>5. ToSet(a \o b) = ToSet(a) \union ToSet(b)
    BY <2>4, ToSetConcat
  <2>. QED  BY <2>3, <2>4, <2>5, Zenon
<1>2. \A e \in ToSet(rs) : TypeOf(e) = "ResourceCollection"
  <2>1. ToSet(rs) \subseteq Of({"ResourceCollection"})
    BY <1>0, ListsAreTyped, ExistingFacts
  <2>. QED  BY <2>1 DEF Of
<1>3. \A c \in ToSet(Chapters) : TypeOf(c) = "Chapter" /\ c \in InModel
  BY <1>0, ChaptersFacts, InModelIsClosed DEF Of
<1>. HIDE DEF rs
<1>4. CallsInModel'
  <2>1. ASSUME NEW f \in ToSet(todo')
        PROVE  /\ f.owner = None /\ TypeOf(f.entity) \in Tops
               /\ f.entity \in InModel \/ TypeOf(f.entity) \in {"ResourceCollection", "ResourcePage"}
    <3>1. CASE f \in CallsOf(ToSet(Chapters), None)
      BY <1>3, <3>1 DEF CallsOf, Frame, Tops
    <3>2. CASE f \in CallsOf(ToSet(rs), None)
      BY <1>2, <3>2 DEF CallsOf, Frame, Tops
    <3>. QED  BY <1>1, <2>1, <3>1, <3>2
  <2>. QED  BY <1>0, <2>1, SameModel DEF CallsInModel
<1>5. \A e \in DOMAIN Entity : ~Tied(e)'
  BY <1>0 DEF Tied
<1>6. DOMAIN Entity' = DOMAIN Entity /\ Asking \subseteq DOMAIN Entity
  BY <1>0 DEF Entity, Asking, Of
<1>7. TiedInModel' /\ TiedFollowed'
  BY <1>5, <1>6 DEF TiedInModel, TiedFollowed
<1>8. RequiredIfTied'
  BY <1>0, <1>5, <1>6, SameModel DEF RequiredIfTied
<1>9. ChaptersFollowed'
  <2>1. \A c \in ToSet(Chapters) : Frame(c, None) \in ToSet(todo')
    BY <1>1 DEF CallsOf
  <2>. QED  BY <1>0, <2>1, SameModel DEF ChaptersFollowed, AwaitedChapter, Frame
<1>10. PhasesNumbered'
  BY <1>0, PhasesGetNumbers, SameModel DEF PhasesNumbered
<1>. QED  BY <1>0, <1>4, <1>7, <1>8, <1>9, <1>10 DEF ModelInv, AfterModel

LEMMA ModelGoesOn ==
    ASSUME ObjectsTyped, ModelInv, ResolveEntity \/ ResolveQuestion \/ ResolveFileQuestion
    PROVE  ModelInv'
<1>1. PICK types : Enter(types)
  BY DEF ResolveEntity, ResolveQuestion, ResolveFileQuestion
<1>a. PICK e, o : e = Head(todo).entity /\ o = Head(todo).owner
  OBVIOUS
<1>2. /\ ctx' = ctx /\ stage = "model" /\ stage' = "model" /\ Loaded /\ Given /\ order' = order
      /\ ToSet(todo) = {Head(todo)} \union ToSet(Tail(todo))
      /\ e \in DOMAIN Entity /\ o \in DOMAIN Entity \union {None}
      /\ parent' = [parent EXCEPT ![e] = o]
      /\ ToSet(todo') = CallsOf(Below(e), e) \union ToSet(Tail(todo))
      /\ Head(todo) = Frame(e, o)
  <2>1. Head(todo) \in ModelCall
    BY <1>1, EnterFacts
  <2>2. Head(todo) = Frame(e, o)
    BY <1>a, <2>1 DEF ModelCall, Frame
  <2>3. ToSet(todo') = CallsOf(Below(e), e) \union ToSet(Tail(todo))
    BY <1>a, <1>1, EnterFacts DEF Below
  <2>. QED  BY <1>a, <1>1, <2>2, <2>3, EnterFacts DEF ObjectsTyped
<1>3. /\ TiedInModel /\ CallsInModel /\ PhasesNumbered /\ RequiredIfTied /\ ChaptersFollowed /\ TiedFollowed
      /\ DOMAIN parent = DOMAIN Entity
  BY <1>2 DEF ModelInv, ObjectsTyped, ModelTyped
<1>4. Head(todo) \in ToSet(todo)
  BY <1>2
<1>5. /\ o = None <=> TypeOf(e) \in Tops
      /\ e \in InModel \/ TypeOf(e) \in {"ResourceCollection", "ResourcePage"}
  <2>1. Frame(e, o).entity = e /\ Frame(e, o).owner = o
    BY DEF Frame
  <2>. QED  BY <1>2, <1>3, <1>4, <2>1, Zenon DEF CallsInModel
(* What is below e. *)
<1>6. \A x \in DOMAIN Entity : \A q \in Below(x) :
         /\ q \in DOMAIN Entity /\ TypeOf(q) \notin Tops
         /\ x \in InModel => q \in InModel
         /\ TypeOf(x) = "ResourceCollection" => TypeOf(q) = "ResourcePage"
         /\ TypeOf(x) # "ResourcePage"
  <2>. SUFFICES ASSUME NEW x \in DOMAIN Entity, NEW q \in Below(x)
                PROVE  /\ q \in DOMAIN Entity /\ TypeOf(q) \notin Tops
                       /\ x \in InModel => q \in InModel
                       /\ TypeOf(x) = "ResourceCollection" => TypeOf(q) = "ResourcePage"
                       /\ TypeOf(x) # "ResourcePage"
    OBVIOUS
  <2>1. q \in Of(ChildTypes(TypeOf(x)))
    BY <1>2, ChildrenFacts DEF Below
  <2>2. q \in DOMAIN Entity /\ TypeOf(q) \in ChildTypes(TypeOf(x))
    BY <2>1 DEF Of
  <2>3. TypeOf(q) \notin Tops
    BY <2>2 DEF ChildTypes, QuestionTypes, Tops
  <2>4. TypeOf(x) = "ResourceCollection" => TypeOf(q) = "ResourcePage"
    BY <2>2 DEF ChildTypes
  <2>5. TypeOf(x) # "ResourcePage"
    BY <2>2 DEF ChildTypes
  <2>6. x \in InModel => q \in InModel
    BY <1>2, InModelIsClosed DEF ClosedSet
  <2>. QED  BY <2>2, <2>3, <2>4, <2>5, <2>6
<1>7. CallsInModel'
  <2>1. ASSUME NEW f \in ToSet(todo')
        PROVE  /\ f.owner = None <=> TypeOf(f.entity) \in Tops
               /\ f.entity \in InModel \/ TypeOf(f.entity) \in {"ResourceCollection", "ResourcePage"}
    <3>1. CASE f \in ToSet(Tail(todo))
      BY <1>2, <1>3, <3>1 DEF CallsInModel
    <3>2. CASE f \in CallsOf(Below(e), e)
      <4>1. PICK q \in Below(e) : f = Frame(q, e)
        BY <3>2 DEF CallsOf
      <4>2. f.entity = q /\ f.owner = e
        BY <4>1 DEF Frame
      <4>3. e # None
        BY <1>2, OfIsTyped, AbsentIsNoString
      <4>4. e \in InModel \/ TypeOf(e) = "ResourceCollection"
        BY <1>2, <1>5, <1>6
      <4>. QED  BY <1>2, <1>6, <4>2, <4>3, <4>4
    <3>. QED  BY <1>2, <2>1, <3>1, <3>2
  <2>. QED  BY <1>2, <2>1, SameModel DEF CallsInModel
(* What is tied afterwards. *)
<1>8. /\ \A x \in DOMAIN Entity : x # e => (Tied(x)' <=> Tied(x))
      /\ Tied(e)' <=> o # None
  <2>. DEFINE P == [parent EXCEPT ![e] = o]
  <2>1. P[e] = o /\ \A x \in DOMAIN Entity : x # e => P[x] = parent[x]
    BY <1>2, <1>3
  <2>2. parent' = P
    BY <1>2
  <2>. HIDE DEF P
  <2>. QED  BY <2>1, <2>2 DEF Tied
<1>9. DOMAIN Entity' = DOMAIN Entity
  BY <1>2 DEF Entity
<1>10. TiedInModel'
  <2>1. ASSUME NEW x \in DOMAIN Entity, Tied(x)'  PROVE x \in InModel \/ TypeOf(x) = "ResourcePage"
    <3>1. CASE x # e
      BY <1>3, <1>8, <2>1, <3>1 DEF TiedInModel
    <3>2. CASE x = e
      <4>1. TypeOf(e) \notin Tops
        BY <1>5, <1>8, <2>1, <3>2
      <4>. QED  BY <1>5, <3>2, <4>1 DEF Tops
    <3>. QED  BY <3>1, <3>2
  <2>. QED  BY <1>2, <1>9, <2>1, SameModel DEF TiedInModel
(* What was tied or awaited is so afterwards, or is tied now. *)
<1>11. ASSUME NEW q \in DOMAIN Entity, TypeOf(q) \notin Tops, Tied(q) \/ Awaited(q)
       PROVE  Tied(q)' \/ Awaited(q)'
  <2>1. CASE q = e
    BY <1>5, <1>8, <1>11, <2>1 DEF Tied
  <2>2. CASE q # e /\ Tied(q)
    BY <1>8, <1>11, <2>2
  <2>3. CASE q # e /\ Awaited(q)
    <3>1. PICK f \in ToSet(todo) : f.entity = q /\ f.owner # None
      BY <2>3 DEF Awaited
    <3>2. f # Head(todo)
      BY <1>a, <3>1, <2>3
    <3>3. f \in ToSet(todo')
      BY <1>2, <3>1, <3>2
    <3>. QED  BY <1>2, <3>1, <3>3 DEF Awaited
  <2>. QED  BY <1>11, <2>1, <2>2, <2>3
<1>12. ASSUME NEW x \in DOMAIN Entity, FollowedUp(x)  PROVE FollowedUp(x)'
  BY <1>2, <1>6, <1>11, <1>12, SameModel DEF FollowedUp
<1>13. FollowedUp(e)'
  <2>1. ASSUME NEW q \in Below(e)  PROVE Awaited(q)'
    <3>1. Frame(q, e) \in ToSet(todo')
      BY <1>2 DEF CallsOf
    <3>2. e # None
      BY <1>2, OfIsTyped, AbsentIsNoString
    <3>3. Frame(q, e).entity = q /\ Frame(q, e).owner = e
      BY DEF Frame
    <3>. QED  BY <1>2, <3>1, <3>2, <3>3 DEF Awaited
  <2>. QED  BY <1>2, <2>1, SameModel DEF FollowedUp
<1>14. TiedFollowed'
  <2>1. ASSUME NEW x \in DOMAIN Entity, Tied(x)'  PROVE FollowedUp(x)'
    <3>1. CASE x = e
      BY <1>13, <3>1 DEF FollowedUp
    <3>2. CASE x # e
      BY <1>3, <1>8, <1>12, <2>1, <3>2 DEF TiedFollowed
    <3>. QED  BY <3>1, <3>2
  <2>. QED  BY <1>9, <2>1 DEF TiedFollowed
<1>15. ChaptersFollowed'
  <2>1. ASSUME NEW c \in ToSet(Chapters)  PROVE FollowedUp(c)' \/ AwaitedChapter(c)'
    <3>1. c \in DOMAIN Entity
      BY <1>2, ChaptersFacts, OfIsTyped
    <3>2. CASE FollowedUp(c)
      BY <1>12, <3>1, <3>2
    <3>3. CASE AwaitedChapter(c) /\ c # e
      <4>1. Frame(c, None) # Head(todo)
        BY <1>a, <3>3 DEF Frame
      <4>. QED  BY <1>2, <3>3, <4>1 DEF AwaitedChapter, Frame
    <3>4. CASE c = e
      BY <1>13, <3>4 DEF FollowedUp
    <3>. QED  BY <1>3, <3>2, <3>3, <3>4 DEF ChaptersFollowed
  <2>. QED  BY <1>2, <2>1, SameModel DEF ChaptersFollowed
<1>16. PhasesNumbered'
  BY <1>2, <1>3, SameModel DEF PhasesNumbered
<1>17. RequiredIfTied'
  <2>0. \A q : RequiredNow(q)' = RequiredNow(q)
    BY <1>2 DEF RequiredNow, IsRequired, OrderOf, CurrentPhase, Lookup, IsA, TypeOf, Entity
  <2>1. ASSUME NEW q \in Asking
        PROVE  required'[q] = IF Tied(q)' THEN RequiredNow(q) ELSE "unset"
    <3>0. q \in DOMAIN Entity /\ q \in DOMAIN required /\ TypeOf(q) \in QuestionTypes \ {"FileQuestion"}
      BY <1>2 DEF Asking, Of, ObjectsTyped, ModelTyped, Questions
    <3>1. CASE q # e
      <4>1. required'[q] = required[q]
        BY <1>a, <3>0, <3>1 DEF ResolveEntity, ResolveQuestion, ResolveFileQuestion
      <4>. QED  BY <1>3, <1>8, <3>0, <3>1, <4>1 DEF RequiredIfTied
    <3>2. CASE q = e
      <4>1. o # None
        BY <1>5, <3>0, <3>2 DEF Tops, QuestionTypes
      <4>2. ResolveQuestion
        BY <1>a, <3>0, <3>2 DEF ResolveEntity, ResolveQuestion, ResolveFileQuestion, Enter, QuestionTypes
      <4>3. required'[q] = RequiredNow(q)
        BY <1>a, <3>0, <3>2, <4>2 DEF ResolveQuestion, RequiredNow
      <4>. QED  BY <1>8, <3>2, <4>1, <4>3 DEF Tied
    <3>. QED  BY <3>1, <3>2
  <2>. QED  BY <1>2, <2>0, <2>1, SameModel DEF RequiredIfTied
<1>. QED
  BY <1>2, <1>7, <1>10, <1>14, <1>15, <1>16, <1>17 DEF ModelInv, AfterModel

(* After the model is resolved nothing is awaited, and it stays as it is.  *)
LEMMA ModelStays ==
    ASSUME ObjectsTyped, ModelInv, ctx' = ctx, order' = order, parent' = parent, required' = required,
           AfterModel \/ (stage = "model" /\ todo = <<>>), AfterModel', stage' # "model"
    PROVE  ModelInv'
<1>0. Loaded /\ Loaded' /\ Given
  BY DEF AfterModel, Loaded, ObjectsTyped
<1>1. TiedInModel /\ PhasesNumbered /\ RequiredIfTied /\ ChaptersFollowed /\ TiedFollowed
  BY <1>0 DEF ModelInv
<1>2. \A e : Tied(e)' <=> Tied(e)
  BY DEF Tied
<1>3. \A e : ~Awaited(e) /\ ~AwaitedChapter(e)
  BY DEF Awaited, AwaitedChapter, AfterModel, ToSet
<1>4. \A e \in DOMAIN Entity : FollowedUp(e) => FollowedUp(e)'
  BY <1>2, <1>3, SameModel DEF FollowedUp
<1>5. \A q : RequiredNow(q)' = RequiredNow(q)
  BY DEF RequiredNow, IsRequired, OrderOf, CurrentPhase, Lookup, IsA, TypeOf, Entity
<1>6. DOMAIN Entity' = DOMAIN Entity /\ ToSet(Chapters) \subseteq DOMAIN Entity
  BY <1>0, ChaptersFacts, OfIsTyped DEF Entity
<1>7. TiedInModel' /\ TiedFollowed'
  BY <1>1, <1>2, <1>4, <1>6, SameModel DEF TiedInModel, TiedFollowed
<1>8. RequiredIfTied' /\ PhasesNumbered'
  BY <1>1, <1>2, <1>5, SameModel DEF RequiredIfTied, PhasesNumbered
<1>9. ChaptersFollowed'
  BY <1>1, <1>3, <1>4, <1>6, SameModel DEF ChaptersFollowed
<1>10. stage' # "loaded"
  BY DEF AfterModel
<1>. QED  BY <1>7, <1>8, <1>9, <1>10 DEF ModelInv

LEMMA ModelLoads == ASSUME ObjectsTyped, Load PROVE ModelInv'
<1>1. ctx' = ctx /\ stage' \in {"loaded", "invalid"} /\ Given
  BY DEF Load, ObjectsTyped
<1>2. \A e \in DOMAIN Entity : ~Tied(e)'
  BY DEF Load, Tied
<1>3. \A q \in Asking : required'[q] = "unset"
  BY DEF Load, Asking, Of
<1>4. DOMAIN Entity' = DOMAIN Entity
  BY <1>1 DEF Entity
<1>5. TiedInModel'
  BY <1>2, <1>4 DEF TiedInModel
<1>. QED  BY <1>1, <1>2, <1>3, <1>4, <1>5, SameModel DEF ModelInv, AfterModel

LEMMA ModelStep == ASSUME ObjectsTyped, ModelInv, [Next]_vars PROVE ModelInv'
<1>0. ctx' = ctx
  BY ContextStays
<1>1. CASE Load
  BY <1>1, ModelLoads
<1>2. CASE ResolveModel
  BY <1>2, ModelStarts
<1>3. CASE ResolveEntity \/ ResolveQuestion \/ ResolveFileQuestion
  BY <1>3, ModelGoesOn
<1>4. CASE ResolveReport
  BY <1>0, <1>4, ModelStays DEF ResolveReport, AfterModel
<1>5. CASE ResolveReply \/ StartVisit \/ StartTitles
  <2>1. order' = order /\ parent' = parent /\ required' = required /\ AfterModel /\ stage' \in {"project", "visit", "titles"}
    BY <1>5 DEF ResolveReply, StartVisit, StartTitles, modelVars, AfterModel
  <2>2. AfterModel /\ AfterModel' /\ stage' # "model"
    BY <2>1 DEF AfterModel
  <2>. QED  BY <1>0, <2>1, <2>2, ModelStays
<1>6. CASE VisitListQuestion \/ VisitOptionsQuestion \/ VisitOtherQuestion \/ VisitItem
  <2>1. order' = order /\ parent' = parent /\ required' = required /\ AfterModel /\ stage' = "visit"
    BY <1>6 DEF VisitListQuestion, VisitOptionsQuestion, VisitOtherQuestion, VisitItem,
       Visiting, modelVars, AfterModel
  <2>2. AfterModel /\ AfterModel' /\ stage' # "model"
    BY <2>1 DEF AfterModel
  <2>. QED  BY <1>0, <2>1, <2>2, ModelStays
<1>7. CASE PopItem \/ FollowSameAs \/ CopyTitle \/ ShowTitles
  <2>1. order' = order /\ parent' = parent /\ required' = required /\ AfterModel /\ stage' \in {"titles", "built"}
    BY <1>7 DEF PopItem, FollowSameAs, CopyTitle, ShowTitles, modelVars, AfterModel
  <2>2. AfterModel /\ AfterModel' /\ stage' # "model"
    BY <2>1 DEF AfterModel
  <2>. QED  BY <1>0, <2>1, <2>2, ModelStays
<1>8. CASE ExtractionNext
  <2>1. order' = order /\ parent' = parent /\ required' = required /\ AfterModel /\ stage' \in {"extract", "extracted"}
    BY <1>8 DEF ExtractionNext, StartExtraction, ExtractChapter, ExtractReply, ExtractChoices, ExtractAnswer,
       ExtractItems, Extracting, FinishExtraction, modelVars, AfterModel
  <2>2. AfterModel /\ AfterModel' /\ stage' # "model"
    BY <2>1 DEF AfterModel
  <2>. QED  BY <1>0, <2>1, <2>2, ModelStays
<1>9. CASE ForgetObjects
  <2>1. stage' = "new"
    BY <1>9 DEF ForgetObjects
  <2>. QED  BY <2>1 DEF ModelInv, Loaded, AfterModel
<1>10. CASE UNCHANGED objectVars
  <2>1. UNCHANGED <<stage, todo, order, parent, required>>
    BY <1>10 DEF objectVars, contextVars, modelVars
  <2>2. \A e : (Tied(e)' <=> Tied(e)) /\ (Awaited(e)' <=> Awaited(e)) /\ (AwaitedChapter(e)' <=> AwaitedChapter(e))
    BY <2>1 DEF Tied, Awaited, AwaitedChapter
  <2>3. \A e : FollowedUp(e)' <=> FollowedUp(e)
    BY <1>0, <2>2, SameModel DEF FollowedUp
  <2>4. \A q : RequiredNow(q)' = RequiredNow(q)
    BY <1>0, <2>1 DEF RequiredNow, IsRequired, OrderOf, CurrentPhase, Lookup, IsA, TypeOf, Entity
  <2>5. DOMAIN Entity' = DOMAIN Entity
    BY <1>0 DEF Entity
  <2>6. TiedInModel' = TiedInModel /\ CallsInModel' = CallsInModel
    BY <1>0, <2>1, <2>2, <2>5, SameModel DEF TiedInModel, CallsInModel
  <2>7. (PhasesNumbered => PhasesNumbered') /\ (RequiredIfTied => RequiredIfTied')
    BY <1>0, <2>1, <2>2, <2>4, SameModel DEF PhasesNumbered, RequiredIfTied
  <2>8. (ChaptersFollowed => ChaptersFollowed') /\ (TiedFollowed => TiedFollowed')
    BY <1>0, <2>2, <2>3, <2>5, SameModel DEF ChaptersFollowed, TiedFollowed
  <2>. QED  BY <1>0, <2>1, <2>2, <2>5, <2>6, <2>7, <2>8, SameModel DEF ModelInv, Loaded, AfterModel
<1>. QED
  BY <1>1, <1>2, <1>3, <1>4, <1>5, <1>6, <1>7, <1>8, <1>9, <1>10, ObjectSteps DEF ObjectStep, ContextNext

(* A question has a parent exactly if the model leads to it.               *)
LEMMA TiedIsInModel ==
    ASSUME ObjectsTyped, ModelInv, AfterModel, NEW e \in DOMAIN Entity,
           TypeOf(e) \notin {"Chapter", "ResourcePage"}
    PROVE  Tied(e) <=> e \in InModel
<1>0. Loaded /\ Given /\ stage # "model"
  BY DEF AfterModel, Loaded, ObjectsTyped
<1>1. TiedInModel /\ ChaptersFollowed /\ TiedFollowed /\ \A x : ~Awaited(x) /\ ~AwaitedChapter(x)
  BY <1>0 DEF ModelInv, Awaited, AwaitedChapter
<1>. DEFINE S == ToSet(Chapters) \union {x \in DOMAIN Entity : Tied(x)}
<1>2. \A x \in S : Below(x) \subseteq S
  <2>1. \A x \in DOMAIN Entity : Below(x) \subseteq DOMAIN Entity
    BY <1>0, ChildrenFacts, OfIsTyped DEF Below
  <2>2. ToSet(Chapters) \subseteq DOMAIN Entity
    BY <1>0, ChaptersFacts, OfIsTyped
  <2>. QED  BY <1>1, <2>1, <2>2 DEF ChaptersFollowed, TiedFollowed, FollowedUp
<1>3. ToSet(Chapters) \subseteq S
  OBVIOUS
<1>. HIDE DEF S
<1>4. InModel \subseteq S
  BY <1>2, <1>3, InModelIsLeast
<1>5. \A c \in ToSet(Chapters) : TypeOf(c) = "Chapter"
  BY <1>0, ChaptersFacts DEF Of
<1>. QED  BY <1>1, <1>4, <1>5 DEF S, TiedInModel

(* To compare the orders of two phases is to compare their places.         *)
LEMMA RequiredIsWanted ==
    ASSUME ObjectsTyped, Loaded, PhasesNumbered, NEW q
    PROVE  IsRequired(q) <=> WantedByNow(q)
<1>. DEFINE now == CurrentPhase
            wanted == Entity[q].phase
            then == Lookup(wanted, {"Phase"})
<1>0. Given /\ order \in [Of({"Phase"}) -> Nat] /\ None \notin DOMAIN Entity
  BY OfIsTyped, AbsentIsNoString DEF ObjectsTyped, ModelTyped
<1>1. /\ Listed \in Seq(Of({"Phase"})) /\ Len(Listed) \in Nat /\ DOMAIN Listed = 1..Len(Listed)
      /\ Len(Listed) < PhaseNeverOrder /\ IsInjective(Listed)
  <2>1. /\ ctx.phases \in Seq(STRING) /\ IsInjective(ctx.phases) /\ Len(ctx.phases) < PhaseNeverOrder
        /\ Len(ctx.phases) \in Nat
    BY <1>0 DEF Given, IsContext
  <2>2. Listed \in Seq(Of({"Phase"})) /\ Len(Listed) <= Len(ctx.phases) /\ IsInjective(Listed)
    BY <2>1, ExistingFacts DEF Listed
  <2>. QED  BY <2>1, <2>2 DEF PhaseNeverOrder
<1>2. /\ now \in Of({"Phase"}) \union {None} /\ then \in Of({"Phase"}) \union {None}
      /\ then # None <=> wanted \in Of({"Phase"})
      /\ then # None => then = wanted
      /\ None \notin Of({"Phase"})
  BY <1>0 DEF CurrentPhase, Lookup, IsA, Of
<1>3. /\ IsRequired(q) <=> wanted # None /\ OrderOf(now) >= OrderOf(then)
      /\ WantedByNow(q) <=> /\ wanted # None
                            /\ \/ now = None
                               \/ \E i, j \in DOMAIN Listed : i <= j /\ Listed[i] = wanted /\ Listed[j] = now
  BY DEF IsRequired, WantedByNow, Listed
<1>. HIDE DEF now, wanted, then
<1>4. \A p \in Of({"Phase"}) : /\ OrderOf(p) \in 1..Len(Listed) /\ Listed[OrderOf(p)] = p
                               /\ \A i \in DOMAIN Listed : Listed[i] = p => i = OrderOf(p)
  <2>1. ASSUME NEW p \in Of({"Phase"})
        PROVE  /\ OrderOf(p) \in 1..Len(Listed) /\ Listed[OrderOf(p)] = p
               /\ \A i \in DOMAIN Listed : Listed[i] = p => i = OrderOf(p)
    <3>1. OrderOf(p) = order[p]
      BY <1>2 DEF OrderOf
    <3>2. OrderOf(p) \in DOMAIN Listed /\ Listed[OrderOf(p)] = p
      BY <3>1 DEF PhasesNumbered
    <3>. QED  BY <1>1, <3>2 DEF IsInjective
  <2>. QED  BY <2>1
<1>5. OrderOf(None) = PhaseNeverOrder /\ PhaseNeverOrder \in Nat
  BY DEF OrderOf, PhaseNeverOrder
<1>6. CASE now = None
  <2>1. OrderOf(now) >= OrderOf(then)
    BY <1>1, <1>2, <1>4, <1>5, <1>6
  <2>. QED  BY <1>3, <1>6, <2>1
<1>7. CASE now # None /\ then = None
  <2>1. ~(OrderOf(now) >= OrderOf(then))
    BY <1>1, <1>2, <1>4, <1>5, <1>7
  <2>2. \A i \in DOMAIN Listed : Listed[i] # wanted
    BY <1>1, <1>2, <1>7
  <2>. QED  BY <1>3, <1>7, <2>1, <2>2
<1>8. CASE now # None /\ then # None
  <2>1. wanted \in Of({"Phase"}) /\ now \in Of({"Phase"}) /\ then = wanted
    BY <1>2, <1>8
  <2>2. OrderOf(now) >= OrderOf(wanted) <=>
           \E i, j \in DOMAIN Listed : i <= j /\ Listed[i] = wanted /\ Listed[j] = now
    BY <1>1, <1>4, <2>1
  <2>. QED  BY <1>3, <1>8, <2>1, <2>2
<1>. QED  BY <1>6, <1>7, <1>8

LEMMA PhasesFollow == ASSUME ObjectsTyped, ModelInv PROVE RequiredFollowsPhases
<1>. SUFFICES ASSUME stage = "built", NEW q \in Asking
              PROVE  IF q \in InModel THEN RequiredIs(q) ELSE required[q] = "unset"
  BY DEF RequiredFollowsPhases, Asking
<1>1. AfterModel /\ Loaded /\ PhasesNumbered /\ RequiredIfTied
  BY DEF AfterModel, Loaded, ModelInv
<1>2. q \in DOMAIN Entity /\ TypeOf(q) \notin {"Chapter", "ResourcePage"}
  BY DEF Asking, Of, QuestionTypes
<1>3. Tied(q) <=> q \in InModel
  BY <1>1, <1>2, TiedIsInModel
<1>4. required[q] = IF Tied(q) THEN RequiredNow(q) ELSE "unset"
  BY <1>1 DEF RequiredIfTied
<1>5. RequiredNow(q) = IF WantedByNow(q) THEN "yes" ELSE "no"
  BY <1>1, RequiredIsWanted DEF RequiredNow
<1>. QED  BY <1>3, <1>4, <1>5 DEF RequiredIs

LEMMA ModelInit == ASSUME BuildInit PROVE ModelInv
BY DEF BuildInit, ContextInit, ModelInv, Loaded, AfterModel

(* However deep a question is and wherever its phase is listed, its phase  *)
(* has been compared with the project's when the objects are used.         *)
THEOREM PhasesCorrect == Spec => []RequiredFollowsPhases
<1>1. BuildInit => ObjectsTyped /\ ModelInv
  BY ObjectsInit, ModelInit
<1>2. ObjectsTyped /\ ModelInv /\ [Next]_vars => ObjectsTyped' /\ ModelInv'
  BY ObjectsTypedStep, ModelStep
<1>. QED  BY <1>1, <1>2, PhasesFollow, PTL DEF Spec

-----------------------------------------------------------------------------
(* Paths                                                                   *)

Begins(s, t) == Len(s) <= Len(t) /\ \A k \in 1..Len(s) : t[k] = s[k]

LEMMA BeginningOf ==
    ASSUME NEW s \in Seq(STRING), NEW t \in Seq(STRING), Begins(s, t)
    PROVE  SubSeq(t, 1, Len(s)) = s
<1>1. Len(s) \in Nat /\ Len(t) \in Nat /\ Len(s) <= Len(t) /\ \A k \in 1..Len(s) : t[k] = s[k]
  BY DEF Begins
<1>. DEFINE u == SubSeq(t, 1, Len(s))
<1>2. u \in Seq(STRING) /\ Len(u) = Len(s) /\ \A k \in 1..Len(s) : u[k] = t[k]
  BY <1>1
<1>3. u = [k \in 1..Len(s) |-> u[k]] /\ s = [k \in 1..Len(s) |-> s[k]]
  <2>. HIDE DEF u
  <2>. QED  BY <1>2
<1>. HIDE DEF u
<1>4. \A k \in 1..Len(s) : u[k] = s[k]
  BY <1>1, <1>2
<1>5. [k \in 1..Len(s) |-> u[k]] = [k \in 1..Len(s) |-> s[k]]
  BY <1>4
<1>6. u = s
  BY <1>3, <1>5, Zenon
<1>. QED  BY <1>6 DEF u

LEMMA OneMore ==
    ASSUME NEW T, NEW s \in Seq(T), NEW x \in T
    PROVE  /\ Append(s, x) \in Seq(T) /\ Len(Append(s, x)) = Len(s) + 1 /\ Len(s) \in Nat
           /\ Append(s, x)[Len(s) + 1] = x
           /\ \A k \in 1..Len(s) : Append(s, x)[k] = s[k]
OBVIOUS

LEMMA AppendFacts ==
    ASSUME NEW s \in Seq(STRING), NEW x \in STRING
    PROVE  /\ Append(s, x) \in Seq(STRING) /\ Append(s, x) # <<>>
           /\ Len(Append(s, x)) = Len(s) + 1 /\ Len(s) \in Nat
           /\ Last(Append(s, x)) = x /\ Append(s, x)[Len(s) + 1] = x
           /\ \A k \in 1..Len(s) : Append(s, x)[k] = s[k]
           /\ Begins(s, Append(s, x))
<1>. DEFINE a == Append(s, x)
<1>1. a \in Seq(STRING) /\ Len(a) = Len(s) + 1 /\ Len(s) \in Nat
  BY OneMore
<1>2. a[Len(s) + 1] = x
  BY OneMore
<1>3. \A k \in 1..Len(s) : a[k] = s[k]
  BY OneMore
<1>4. a # <<>>
  <2>. HIDE DEF a
  <2>1. Len(<<>>) = 0
    OBVIOUS
  <2>. QED  BY <1>1, <2>1
<1>. HIDE DEF a
<1>5. Last(a) = x
  BY <1>1, <1>2 DEF Last
<1>6. Begins(s, a)
  BY <1>1, <1>3 DEF Begins
<1>. QED  BY <1>1, <1>2, <1>3, <1>4, <1>5, <1>6 DEF a

(* The beginnings of a longer path are those of the path, and the path.    *)
LEMMA LiveGrows ==
    ASSUME NEW path \in Seq(STRING), path # <<>>, NEW x \in STRING, Live(path), LeadsOn(path, x)
    PROVE  Live(Append(path, x))
<1>. DEFINE a == Append(path, x)
<1>1. /\ a \in Seq(STRING) /\ Len(a) = Len(path) + 1 /\ Len(path) \in Nat \ {0}
      /\ a[Len(path) + 1] = x /\ \A k \in 1..Len(path) : a[k] = path[k]
  <2>1. Len(path) \in Nat \ {0}
    OBVIOUS
  <2>. QED  BY <2>1, AppendFacts
<1>. HIDE DEF a
<1>2. a[1] \in ToSet(Existing(ctx.chapters, {"Chapter"}))
  BY <1>1 DEF Live
<1>3. ASSUME NEW k \in 2..Len(a)  PROVE LeadsOn(SubSeq(a, 1, k - 1), a[k])
  <2>1. k - 1 \in 1..Len(path) /\ k \in Nat
    BY <1>1
  <2>. DEFINE u == SubSeq(path, 1, k - 1)
  <2>2. u \in Seq(STRING) /\ Len(u) = k - 1 /\ \A i \in 1..k - 1 : u[i] = path[i]
    BY <2>1
  <2>. HIDE DEF u
  <2>3. Begins(u, a)
    BY <1>1, <2>1, <2>2 DEF Begins
  <2>4. SubSeq(a, 1, k - 1) = u
    BY <1>1, <2>2, <2>3, BeginningOf
  <2>5. CASE k = Len(path) + 1
    <3>1. Begins(path, a)
      BY <1>1 DEF Begins
    <3>2. SubSeq(a, 1, Len(path)) = path
      BY <1>1, <3>1, BeginningOf
    <3>3. k - 1 = Len(path) /\ a[k] = x
      <4>1. k - 1 = Len(path)
        BY <1>1, <2>5
      <4>. QED  BY <1>1, <2>5, <4>1
    <3>. QED  BY <3>2, <3>3
  <2>6. CASE k # Len(path) + 1
    <3>1. k \in 2..Len(path)
      BY <1>1, <2>1, <2>6
    <3>2. LeadsOn(u, path[k])
      BY <3>1 DEF Live, u
    <3>3. a[k] = path[k]
      BY <1>1, <3>1
    <3>. QED  BY <2>4, <3>2, <3>3
  <2>. QED  BY <2>5, <2>6
<1>4. Live(a)
  BY <1>2, <1>3 DEF Live
<1>. QED  BY <1>4 DEF a

LEMMA LiveLeadsOn ==
    ASSUME NEW path \in Seq(STRING), NEW s \in Seq(STRING), Live(path), Begins(s, path),
           s # <<>>, Len(s) < Len(path)
    PROVE  LeadsOn(s, path[Len(s) + 1])
<1>1. Len(s) + 1 \in 2..Len(path) /\ (Len(s) + 1) - 1 = Len(s)
  OBVIOUS
<1>2. SubSeq(path, 1, Len(s)) = s
  BY BeginningOf
<1>3. LeadsOn(SubSeq(path, 1, (Len(s) + 1) - 1), path[Len(s) + 1])
  BY <1>1 DEF Live
<1>. QED  BY <1>1, <1>2, <1>3

LEMMA BeginsOneMore ==
    ASSUME NEW path \in Seq(STRING), NEW s \in Seq(STRING), Begins(s, path), Len(s) < Len(path)
    PROVE  /\ path[Len(s) + 1] \in STRING
           /\ Begins(Append(s, path[Len(s) + 1]), path)
<1>1. path[Len(s) + 1] \in STRING /\ Len(s) \in Nat /\ Len(path) \in Nat
  OBVIOUS
<1>. DEFINE a == Append(s, path[Len(s) + 1])
<1>2. Len(a) = Len(s) + 1 /\ a[Len(s) + 1] = path[Len(s) + 1] /\ \A k \in 1..Len(s) : a[k] = s[k]
  BY <1>1, AppendFacts
<1>. HIDE DEF a
<1>3. Begins(a, path)
  BY <1>1, <1>2 DEF Begins
<1>. QED  BY <1>1, <1>3 DEF a

LEMMA BeginsAll ==
    ASSUME NEW path \in Seq(STRING), NEW s \in Seq(STRING), Begins(s, path), ~(Len(s) < Len(path))
    PROVE  s = path
<1>1. Len(s) = Len(path) /\ Len(s) \in Nat
  BY DEF Begins
<1>2. SubSeq(path, 1, Len(s)) = s /\ SubSeq(path, 1, Len(path)) = path
  <2>1. Begins(path, path)
    BY DEF Begins
  <2>. QED  BY <2>1, BeginningOf
<1>. QED  BY <1>1, <1>2

-----------------------------------------------------------------------------
(* The items that get titles                                               *)
(*                                                                         *)
(* The inductive invariant: the visitor is only on live paths, so that it  *)
(* gives titles to live items only; and of every live item that has no     *)
(* title yet, a call that is still to be made is on the path to it.        *)

LiveItems == UNION {ToSet(ReplyAt(p).value) : p \in LiveLists}

(* The call is on a live path, which ends with its question or its item.   *)
LiveCall(f) ==
    /\ Live(f.path) /\ f.path # <<>>
    /\ f.item = None =>
          /\ Last(f.path) = f.entity
          /\ TypeOf(f.entity) \in QuestionTypes
    /\ f.item # None =>
          /\ Len(f.path) > 1 /\ Last(f.path) = f.item
          /\ f.path[Len(f.path) - 1] = f.entity
          /\ TypeOf(f.entity) = "ListQuestion"
          /\ f.item \in LiveItems

Coming(path) == \E f \in ToSet(todo) : Begins(f.path, path)
ChosenIs(p) == chosen[p] = Linked(ReplyAt(p))
LiveCalls == \A f \in ToSet(todo) : LiveCall(f)
ItemsComing ==
    \A p \in LiveLists : \A i \in ToSet(ReplyAt(p).value) : i \in DOMAIN titles \/ Coming(Append(p, i))

VisitInv ==
    /\ stage = "project" => \A p \in Paths : p \in ToSet(todo) \/ ChosenIs(p)
    /\ AfterProject => \A p \in Paths : ChosenIs(p)
    /\ stage = "visit" => LiveCalls /\ ItemsComing
    /\ stage \in {"visit", "titles", "built"} => DOMAIN titles \subseteq LiveItems
    /\ stage \in {"titles", "built"} => LiveItems \subseteq DOMAIN titles

LEMMA SameLive ==
    ASSUME ctx' = ctx
    PROVE  /\ \A p : Live(p)' = Live(p) /\ Linked(p)' = Linked(p) /\ ReplyAt(p)' = ReplyAt(p)
           /\ LiveLists' = LiveLists /\ LiveItems' = LiveItems /\ Paths' = Paths
           /\ \A f : LiveCall(f)' = LiveCall(f)
<1>1. /\ \A e : TypeOf(e)' = TypeOf(e) /\ Children(e)' = Children(e)
      /\ \A e, types : IsA(e, types)' = IsA(e, types)
      /\ \A p, type : HasReply(p, type)' = HasReply(p, type)
      /\ \A p : ReplyAt(p)' = ReplyAt(p) /\ Linked(p)' = Linked(p)
      /\ InModel' = InModel /\ Paths' = Paths
  <2>1. \A e : TypeOf(e)' = TypeOf(e) /\ Children(e)' = Children(e)
    BY DEF Children, Existing, Of, Entity, TypeOf
  <2>2. \A e, types : IsA(e, types)' = IsA(e, types)
    BY DEF IsA, Entity, TypeOf
  <2>3. \A p, type : HasReply(p, type)' = HasReply(p, type)
    BY DEF HasReply, ReplyAt, Paths
  <2>4. \A p : ReplyAt(p)' = ReplyAt(p) /\ Linked(p)' = Linked(p)
    BY DEF ReplyAt, Linked, Existing, Of, Entity, TypeOf
  <2>. QED  BY <2>1, <2>2, <2>3, <2>4, SameModel, SameContext
<1>2. \A p, x : LeadsOn(p, x)' = LeadsOn(p, x)
  BY <1>1 DEF LeadsOn
<1>3. \A p : Live(p)' = Live(p)
  <2>1. Existing(ctx.chapters, {"Chapter"})' = Existing(ctx.chapters, {"Chapter"})
    BY SameModel DEF Chapters
  <2>. QED  BY <1>2, <2>1 DEF Live
<1>4. LiveLists' = LiveLists
  BY <1>1, <1>3 DEF LiveLists
<1>5. LiveItems' = LiveItems
  BY <1>1, <1>4 DEF LiveItems
<1>6. \A f : LiveCall(f)' = LiveCall(f)
  BY <1>1, <1>3, <1>5 DEF LiveCall
<1>. QED  BY <1>1, <1>3, <1>4, <1>5, <1>6

LEMMA ListsAreLive ==
    ASSUME Given, NEW p \in LiveLists, NEW i \in ToSet(ReplyAt(p).value)
    PROVE  /\ p \in Seq(STRING) /\ p # <<>> /\ i \in Items /\ i \in STRING /\ i \in LiveItems
           /\ HasReply(p, "ItemListReply") /\ IsA(Last(p), {"ListQuestion"}) /\ Live(p)
           /\ Append(p, i) \in Seq(STRING) /\ Last(Append(p, i)) = i
           /\ Live(Append(p, i)) /\ Len(Append(p, i)) > 2
<1>1. /\ p \in Paths /\ HasReply(p, "ItemListReply") /\ IsA(Last(p), {"ListQuestion"}) /\ Live(p)
      /\ i \in LiveItems
  BY DEF LiveLists, LiveItems
<1>2. p \in Seq(STRING) /\ p # <<>> /\ ReplyAt(p).value \in Seq(Items)
  BY <1>1, ReplyFacts DEF HasReply
<1>3. i \in Items
  BY <1>2 DEF ToSet
<1>4. i \in STRING
  BY <1>3, ContextAssumption
<1>5. LeadsOn(p, i)
  BY <1>1 DEF LeadsOn
<1>6. Live(Append(p, i))
  BY <1>1, <1>2, <1>4, <1>5, LiveGrows
<1>7. /\ Append(p, i) \in Seq(STRING) /\ Last(Append(p, i)) = i
      /\ Len(Append(p, i)) = Len(p) + 1 /\ Len(p) \in Nat
  BY <1>2, <1>4, AppendFacts
<1>8. Len(p) # 0
  BY <1>2
<1>9. Len(p) # 1
  <2>. SUFFICES ASSUME Len(p) = 1  PROVE FALSE
    OBVIOUS
  <2>1. Last(p) = p[1]
    BY <1>2 DEF Last
  <2>2. p[1] \in ToSet(Chapters)
    BY <1>1 DEF Live, Chapters
  <2>3. TypeOf(p[1]) = "Chapter"
    BY <2>2, ChaptersFacts DEF Of
  <2>. QED  BY <1>1, <2>1, <2>3 DEF IsA
<1>. DEFINE a == Append(p, i)
<1>10. Len(a) = Len(p) + 1 /\ Len(p) \in Nat
  BY <1>7
<1>. HIDE DEF a
<1>11. Len(a) > 2
  <2>1. \A m \in Nat : m # 0 /\ m # 1 => m + 1 > 2
    OBVIOUS
  <2>2. Len(p) + 1 > 2
    BY <1>8, <1>9, <1>10, <2>1, Zenon
  <2>. QED  BY <1>10, <2>2, Zenon
<1>. QED  BY <1>1, <1>2, <1>3, <1>4, <1>6, <1>7, <1>11, Zenon DEF a

(* The three kinds of calls that a live call makes. *)
LEMMA FollowupIsLive ==
    ASSUME Given, NEW path \in Seq(STRING), NEW e \in DOMAIN Entity, IsA(e, {"Chapter", "Answer"}),
           Live(Append(path, e)), NEW q \in Below(e)
    PROVE  LiveCall(Visit(q, Append(path, e)))
<1>1. e \in STRING /\ q \in DOMAIN Entity /\ q \in STRING /\ TypeOf(q) \in QuestionTypes
  <2>1. q \in Of(ChildTypes(TypeOf(e)))
    BY ChildrenFacts DEF Below
  <2>2. TypeOf(q) \in QuestionTypes
    BY <2>1 DEF ChildTypes, IsA, Of
  <2>. QED  BY <2>1, <2>2, OfIsTyped
<1>. DEFINE longer == Append(path, e)
<1>2. longer \in Seq(STRING) /\ longer # <<>> /\ Last(longer) = e
  BY <1>1, AppendFacts
<1>3. LeadsOn(longer, q)
  BY <1>2 DEF LeadsOn, Below
<1>4. Live(longer)
  OBVIOUS
<1>. HIDE DEF longer
<1>5. Live(Append(longer, q)) /\ Append(longer, q) # <<>> /\ Last(Append(longer, q)) = q
  BY <1>1, <1>2, <1>3, <1>4, LiveGrows, AppendFacts
<1>. QED  BY <1>1, <1>5 DEF LiveCall, Visit, longer

LEMMA ItemQuestionIsLive ==
    ASSUME Given, NEW f \in VisitCall, LiveCall(f), f.item # None, NEW q \in Below(f.entity)
    PROVE  LiveCall(Visit(q, f.path))
<1>1. /\ f.entity \in DOMAIN Entity /\ f.path \in Seq(STRING) /\ f.item \in Items
      /\ Live(f.path) /\ f.path # <<>> /\ Last(f.path) = f.item
      /\ f.path[Len(f.path) - 1] = f.entity /\ TypeOf(f.entity) = "ListQuestion"
  BY DEF VisitCall, LiveCall
<1>2. q \in DOMAIN Entity /\ q \in STRING /\ TypeOf(q) \in QuestionTypes
  <2>1. q \in Of(ChildTypes(TypeOf(f.entity)))
    BY <1>1, ChildrenFacts DEF Below
  <2>2. TypeOf(q) \in QuestionTypes
    BY <1>1, <2>1 DEF ChildTypes, Of
  <2>. QED  BY <2>1, <2>2, OfIsTyped
<1>3. LeadsOn(f.path, q)
  BY <1>1 DEF LeadsOn, Below
<1>4. Live(Append(f.path, q)) /\ Append(f.path, q) # <<>> /\ Last(Append(f.path, q)) = q
  BY <1>1, <1>2, <1>3, LiveGrows, AppendFacts
<1>. QED  BY <1>2, <1>4 DEF LiveCall, Visit

LEMMA ItemIsLive ==
    ASSUME Given, NEW f \in VisitCall, LiveCall(f), f.item = None, TypeOf(f.entity) = "ListQuestion",
           NEW k \in DOMAIN ItemsAt(f.path)
    PROVE  LiveCall(VisitOfItem(f.entity, f.path, ItemsAt(f.path), k))
<1>. DEFINE p == f.path
            i == ItemsAt(p)[k]
<1>1. /\ p \in Seq(STRING) /\ p # <<>> /\ Live(p) /\ Last(p) = f.entity /\ f.entity \in DOMAIN Entity
  BY DEF VisitCall, LiveCall
<1>2. HasReply(p, "ItemListReply") /\ ItemsAt(p) = ReplyAt(p).value
  BY DEF ItemsAt
<1>3. p \in LiveLists
  BY <1>1, <1>2 DEF LiveLists, IsA, HasReply
<1>4. i \in ToSet(ReplyAt(p).value)
  BY <1>2 DEF ToSet
<1>. HIDE DEF p, i
<1>5. /\ i \in Items /\ i \in STRING /\ i \in LiveItems /\ Live(Append(p, i)) /\ None \notin Items
      /\ Append(p, i) # <<>> /\ Last(Append(p, i)) = i
      /\ Len(Append(p, i)) = Len(p) + 1 /\ Len(p) \in Nat
      /\ \A j \in 1..Len(p) : Append(p, i)[j] = p[j]
  BY <1>1, <1>3, <1>4, ListsAreLive, AppendFacts, ContextAssumption
<1>6. Len(p) # 0
  BY <1>1
<1>7. Append(p, i)[Len(Append(p, i)) - 1] = f.entity
  BY <1>1, <1>5, <1>6 DEF Last
<1>8. VisitOfItem(f.entity, p, ItemsAt(p), k) = [entity |-> f.entity, path |-> Append(p, i), item |-> i, n |-> k]
  BY DEF VisitOfItem, i
<1>9. LiveCall([entity |-> f.entity, path |-> Append(p, i), item |-> i, n |-> k])
  BY <1>5, <1>6, <1>7 DEF LiveCall
<1>. QED  BY <1>8, <1>9 DEF p

(* A path that begins the path to a live item is the whole path, or it     *)
(* leads on along it.                                                      *)
LEMMA Onwards ==
    ASSUME Given, NEW p \in LiveLists, NEW i \in ToSet(ReplyAt(p).value),
           NEW s \in Seq(STRING), s # <<>>, Begins(s, Append(p, i))
    PROVE  \/ Last(s) = i
           \/ \E x \in STRING : LeadsOn(s, x) /\ Begins(Append(s, x), Append(p, i))
<1>. DEFINE a == Append(p, i)
<1>1. a \in Seq(STRING) /\ Last(a) = i /\ Live(a) /\ Begins(s, a)
  BY ListsAreLive
<1>. HIDE DEF a
<1>2. CASE Len(s) < Len(a)
  <2>1. LeadsOn(s, a[Len(s) + 1])
    BY <1>1, <1>2, LiveLeadsOn
  <2>2. a[Len(s) + 1] \in STRING /\ Begins(Append(s, a[Len(s) + 1]), a)
    BY <1>1, <1>2, BeginsOneMore
  <2>. QED  BY <2>1, <2>2 DEF a
<1>3. CASE ~(Len(s) < Len(a))
  <2>1. s = a
    BY <1>1, <1>3, BeginsAll
  <2>. QED  BY <1>1, <2>1
<1>. QED  BY <1>2, <1>3

(* An item and an entity are never the same.                               *)
LEMMA ItemsAreNoEntities ==
    ASSUME Given
    PROVE  /\ \A e \in DOMAIN Entity : e \notin Items
           /\ None \notin Items /\ None \notin DOMAIN Entity
<1>1. DOMAIN Entity \subseteq Entities
  BY OfIsTyped
<1>2. None \notin Items /\ None \notin Entities
  BY ContextAssumption
<1>. QED  BY <1>1, <1>2, ContextAssumption

(* An item gets its title, or a question of it is on the way.              *)
LEMMA PastAnItem ==
    ASSUME Given, NEW f \in VisitCall, LiveCall(f), f.item # None,
           NEW p \in LiveLists, NEW i \in ToSet(ReplyAt(p).value), Begins(f.path, Append(p, i))
    PROVE  \/ i = f.item
           \/ \E q \in Below(f.entity) : Begins(Visit(q, f.path).path, Append(p, i))
<1>1. /\ f.path \in Seq(STRING) /\ f.path # <<>> /\ f.item \in Items
      /\ Last(f.path) = f.item /\ f.path[Len(f.path) - 1] = f.entity
  BY DEF VisitCall, LiveCall
<1>2. ASSUME NEW x, LeadsOn(f.path, x)  PROVE x \in Below(f.entity)
  BY <1>1, <1>2, ItemsAreNoEntities DEF LeadsOn, IsA, Below
<1>3. \A q : Visit(q, f.path).path = Append(f.path, q)
  BY DEF Visit
<1>. QED  BY <1>1, <1>2, <1>3, Onwards

(* A list question is followed to all of its items.                        *)
LEMMA PastAList ==
    ASSUME Given, NEW f \in VisitCall, LiveCall(f), f.item = None, TypeOf(f.entity) = "ListQuestion",
           NEW p \in LiveLists, NEW i \in ToSet(ReplyAt(p).value), Begins(f.path, Append(p, i))
    PROVE  \E c \in ItemCalls(f.entity, f.path, ItemsAt(f.path)) : Begins(c.path, Append(p, i))
<1>1. f.path \in Seq(STRING) /\ f.path # <<>> /\ Last(f.path) = f.entity /\ f.entity \in DOMAIN Entity
  BY DEF VisitCall, LiveCall
<1>2. Last(f.path) # i
  BY <1>1, ItemsAreNoEntities, ListsAreLive
<1>3. PICK x \in STRING : LeadsOn(f.path, x) /\ Begins(Append(f.path, x), Append(p, i))
  BY <1>1, <1>2, Onwards
<1>4. HasReply(f.path, "ItemListReply") /\ x \in ToSet(ReplyAt(f.path).value)
  BY <1>1, <1>3, ItemsAreNoEntities DEF LeadsOn, IsA
<1>5. PICK k \in DOMAIN ItemsAt(f.path) : ItemsAt(f.path)[k] = x
  BY <1>4 DEF ItemsAt, ToSet
<1>6. VisitOfItem(f.entity, f.path, ItemsAt(f.path), k).path = Append(f.path, x)
  BY <1>5 DEF VisitOfItem
<1>. QED  BY <1>3, <1>5, <1>6 DEF ItemCalls

LEMMA CallBelow ==
    ASSUME NEW S, NEW path, NEW e \in S, NEW q \in DOMAIN Entity, q \in ToSet(Children(e))
    PROVE  Visit(q, Append(path, e)) \in VisitCalls(S, path)
<1>1. <<e, q>> \in {x \in S \X DOMAIN Entity : x[2] \in ToSet(Children(x[1]))}
  OBVIOUS
<1>2. Visit(q, Append(path, e)) = Visit(<<e, q>>[2], Append(path, <<e, q>>[1]))
  OBVIOUS
<1>. QED  BY <1>1, <1>2, Zenon DEF VisitCalls

LEMMA CallsBelow ==
    ASSUME Given, NEW S, NEW path, NEW f \in VisitCalls(S, path)
    PROVE  \E e \in S : \E q \in ToSet(Children(e)) : f = Visit(q, Append(path, e))
BY DEF VisitCalls

(* The answer that is followed under an options question is the one that   *)
(* leads on: it exists, and the model leads to it.                         *)
LEMMA FollowedLeadsOn ==
    ASSUME ObjectsTyped, ModelInv, AfterModel, NEW path \in Paths, ChosenIs(path), HasReply(path, "AnswerReply")
    PROVE  \A a : a \in ToSet(Followed(path)) <=>
                     ReplyAt(path).value = <<a>> /\ IsA(a, {"Answer"}) /\ a \in InModel
<1>0. Given /\ Loaded
  BY DEF ObjectsTyped, AfterModel, Loaded
<1>. DEFINE v == ReplyAt(path).value
<1>1. v \in Seq(STRING) /\ Len(v) = 1 /\ ReplyAt(path).type = "AnswerReply"
  BY <1>0, ReplyFacts DEF HasReply, SingleTypes
<1>2. chosen[path] = Existing(v, {"Answer"})
  BY <1>1 DEF ChosenIs, Linked
<1>. HIDE DEF v
<1>3. v = <<v[1]>> /\ v[1] \in STRING /\ ToSet(v) = {v[1]}
  <2>1. DOMAIN v = {1} /\ v[1] \in STRING
    BY <1>1
  <2>2. v = [k \in 1..Len(v) |-> v[k]] /\ Len(v) = 1
    BY <1>1
  <2>3. v = <<v[1]>>
    BY <1>1, <2>1, <2>2
  <2>. QED  BY <2>1, <2>3 DEF ToSet
<1>4. ToSet(chosen[path]) = {v[1]} \intersect Of({"Answer"})
  BY <1>1, <1>2, <1>3, ExistingFacts
<1>5. ToSet(Followed(path)) = ToSet(chosen[path]) \intersect {a \in DOMAIN Entity : Tied(a)}
  BY <1>0, FollowedIsTyped DEF Tied
<1>6. \A a \in Of({"Answer"}) : Tied(a) <=> a \in InModel
  BY TiedIsInModel DEF Of
<1>7. ASSUME NEW a
      PROVE  a \in ToSet(Followed(path)) <=> v = <<a>> /\ IsA(a, {"Answer"}) /\ a \in InModel
  <2>1. v = <<a>> <=> a = v[1]
    BY <1>3
  <2>2. IsA(a, {"Answer"}) <=> a \in Of({"Answer"})
    BY DEF IsA, Of
  <2>3. a \in Of({"Answer"}) => a \in DOMAIN Entity
    BY DEF Of
  <2>. QED  BY <1>4, <1>5, <1>6, <2>1, <2>2, <2>3
<1>. QED  BY <1>7 DEF v

LEMMA PastOptions ==
    ASSUME ObjectsTyped, ModelInv, AfterModel, \A x \in Paths : ChosenIs(x),
           NEW f \in VisitCall, LiveCall(f), f.item = None, TypeOf(f.entity) = "OptionsQuestion",
           NEW p \in LiveLists, NEW i \in ToSet(ReplyAt(p).value), Begins(f.path, Append(p, i))
    PROVE  \E c \in VisitCalls(ToSet(Followed(f.path)), f.path) : Begins(c.path, Append(p, i))
<1>0. Given
  BY DEF ObjectsTyped
<1>1. f.path \in Seq(STRING) /\ f.path # <<>> /\ Last(f.path) = f.entity /\ f.entity \in DOMAIN Entity
  BY DEF VisitCall, LiveCall
<1>2. Last(f.path) # i
  BY <1>0, <1>1, ItemsAreNoEntities, ListsAreLive
<1>3. PICK a \in STRING : LeadsOn(f.path, a) /\ Begins(Append(f.path, a), Append(p, i))
  BY <1>0, <1>1, <1>2, Onwards
<1>4. /\ HasReply(f.path, "AnswerReply") /\ ReplyAt(f.path).value = <<a>>
      /\ IsA(a, {"Answer"}) /\ a \in InModel
  BY <1>0, <1>1, <1>3, ItemsAreNoEntities DEF LeadsOn, IsA
<1>5. a \in ToSet(Followed(f.path)) /\ a \in DOMAIN Entity
  BY <1>4, FollowedLeadsOn DEF HasReply, IsA
<1>. DEFINE longer == Append(f.path, a)
<1>6. longer \in Seq(STRING) /\ longer # <<>> /\ Last(longer) = a
  BY <1>1, AppendFacts
<1>7. Last(longer) # i
  BY <1>0, <1>5, <1>6, ItemsAreNoEntities, ListsAreLive
<1>8. Begins(longer, Append(p, i))
  BY <1>3
<1>. HIDE DEF longer
<1>9. PICK q \in STRING : LeadsOn(longer, q) /\ Begins(Append(longer, q), Append(p, i))
  BY <1>0, <1>6, <1>7, <1>8, Onwards
<1>10. q \in ToSet(Children(a)) /\ q \in DOMAIN Entity
  <2>1. q \in ToSet(Children(a))
    BY <1>0, <1>4, <1>5, <1>6, <1>9, ItemsAreNoEntities DEF LeadsOn, IsA
  <2>. QED  BY <1>0, <1>5, <2>1, ChildrenFacts, OfIsTyped
<1>11. Visit(q, longer) \in VisitCalls(ToSet(Followed(f.path)), f.path)
  BY <1>5, <1>10, CallBelow DEF longer
<1>12. Visit(q, longer).path = Append(longer, q)
  BY DEF Visit
<1>. QED  BY <1>9, <1>11, <1>12

(* No other question leads on.                                             *)
LEMMA PastOthers ==
    ASSUME Given, NEW f \in VisitCall, LiveCall(f), f.item = None,
           TypeOf(f.entity) \notin {"ListQuestion", "OptionsQuestion"},
           NEW p \in LiveLists, NEW i \in ToSet(ReplyAt(p).value)
    PROVE  ~Begins(f.path, Append(p, i))
<1>. SUFFICES ASSUME Begins(f.path, Append(p, i))  PROVE FALSE
  OBVIOUS
<1>1. /\ f.path \in Seq(STRING) /\ f.path # <<>> /\ Last(f.path) = f.entity /\ f.entity \in DOMAIN Entity
      /\ TypeOf(f.entity) \in QuestionTypes
  BY DEF VisitCall, LiveCall
<1>2. Last(f.path) # i
  BY <1>1, ItemsAreNoEntities, ListsAreLive
<1>3. PICK x \in STRING : LeadsOn(f.path, x)
  BY <1>1, <1>2, Onwards
<1>. QED  BY <1>1, <1>3, ItemsAreNoEntities DEF LeadsOn, IsA, QuestionTypes

(* A call is replaced by the calls it makes: it is enough that these are   *)
(* live, and that each live item that was coming by the call gets a title, *)
(* or comes by one of them.                                                *)
Replaced(f, new, rest) == ToSet(todo) = {f} \union rest /\ ToSet(todo') = new \union rest
ComeBy(f, new, titled) ==
    \A p \in LiveLists : \A i \in ToSet(ReplyAt(p).value) :
        Begins(f.path, Append(p, i)) => i \in titled \/ \E c \in new : Begins(c.path, Append(p, i))

LEMMA VisitGoesOn ==
    ASSUME ObjectsTyped, VisitInv, todo \in Seq(VisitCall), stage = "visit", stage' = "visit",
           ctx' = ctx, chosen' = chosen,
           NEW new, NEW rest, NEW f, Replaced(f, new, rest), \A c \in new : LiveCall(c),
           DOMAIN titles \subseteq DOMAIN titles', DOMAIN titles' \subseteq LiveItems,
           ComeBy(f, new, DOMAIN titles')
    PROVE  VisitInv'
<1>1. LiveCalls /\ ItemsComing /\ AfterProject
  BY DEF VisitInv, AfterProject
<1>2. LiveCalls'
  BY <1>1, SameLive DEF LiveCalls, Replaced
<1>3. ItemsComing'
  <2>1. ASSUME NEW p \in LiveLists, NEW i \in ToSet(ReplyAt(p).value)
        PROVE  i \in DOMAIN titles' \/ \E c \in ToSet(todo') : Begins(c.path, Append(p, i))
    <3>1. i \in DOMAIN titles \/ \E c \in ToSet(todo) : Begins(c.path, Append(p, i))
      BY <1>1 DEF ItemsComing, Coming
    <3>2. (\E c \in rest : Begins(c.path, Append(p, i))) \/ i \in DOMAIN titles \/ Begins(f.path, Append(p, i))
      BY <3>1 DEF Replaced
    <3>. QED  BY <3>2 DEF ComeBy, Replaced
  <2>2. LiveLists' = LiveLists /\ \A p : ReplyAt(p)' = ReplyAt(p)
    BY SameLive
  <2>. QED  BY <2>1, <2>2 DEF ItemsComing, Coming
<1>4. \A p \in Paths : ChosenIs(p)'
  BY <1>1, SameLive DEF VisitInv, ChosenIs
<1>. QED  BY <1>2, <1>3, <1>4, SameLive DEF VisitInv, AfterProject

LEMMA VisitOfQuestions ==
    ASSUME ObjectsTyped, ModelInv, VisitInv,
           VisitListQuestion \/ VisitOptionsQuestion \/ VisitOtherQuestion
    PROVE  VisitInv'
<1>1. Visiting(FALSE) /\ titles' = titles /\ Given
  BY DEF VisitListQuestion, VisitOptionsQuestion, VisitOtherQuestion, ObjectsTyped
<1>2. /\ ctx' = ctx /\ stage = "visit" /\ stage' = "visit" /\ chosen' = chosen
      /\ todo \in Seq(VisitCall) /\ AfterModel
  BY <1>1, VisitingFacts DEF AfterModel
<1>3. /\ LiveCalls /\ ItemsComing /\ DOMAIN titles \subseteq LiveItems
      /\ \A x \in Paths : ChosenIs(x)
  BY <1>2 DEF VisitInv, AfterProject
<1>4. PICK f : f = Current
  OBVIOUS
<1>5. /\ f \in VisitCall /\ f.item = None /\ f.path \in Seq(STRING) /\ f.entity \in DOMAIN Entity
      /\ ToSet(todo) = {f} \union ToSet(Tail(todo))
  BY <1>1, <1>4, VisitingFacts
<1>6. LiveCall(f) /\ f.path # <<>> /\ Last(f.path) = f.entity
  BY <1>3, <1>5 DEF LiveCalls, LiveCall
<1>7. PICK rest : rest = ToSet(Tail(todo))
  OBVIOUS
<1>8. DOMAIN titles \subseteq DOMAIN titles' /\ DOMAIN titles' \subseteq LiveItems
  BY <1>1, <1>3
<1>9. CASE VisitListQuestion
  <2>1. TypeOf(f.entity) = "ListQuestion"
    BY <1>4, <1>9 DEF VisitListQuestion
  <2>. DEFINE new == ItemCalls(f.entity, f.path, ItemsAt(f.path))
  <2>2. ToSet(todo') = new \union rest
    BY <1>4, <1>7, <1>9, ListCalls
  <2>3. \A c \in new : LiveCall(c)
    BY <1>1, <1>5, <1>6, <2>1, ItemIsLive DEF ItemCalls
  <2>4. \A p \in LiveLists : \A i \in ToSet(ReplyAt(p).value) :
           Begins(f.path, Append(p, i)) => \E c \in new : Begins(c.path, Append(p, i))
    BY <1>1, <1>5, <1>6, <2>1, PastAList
  <2>. HIDE DEF new
  <2>5. Replaced(f, new, rest) /\ ComeBy(f, new, DOMAIN titles')
    BY <1>5, <1>7, <2>2, <2>4 DEF Replaced, ComeBy
  <2>. QED  BY <1>2, <1>3, <1>8, <2>3, <2>5, VisitGoesOn, Zenon
<1>10. CASE VisitOptionsQuestion
  <2>1. TypeOf(f.entity) = "OptionsQuestion"
    BY <1>4, <1>10 DEF VisitOptionsQuestion
  <2>. DEFINE new == VisitCalls(ToSet(Followed(f.path)), f.path)
  <2>2. ToSet(todo') = new \union rest
    BY <1>4, <1>7, <1>10, OptionsCalls
  <2>3. ASSUME NEW c \in new  PROVE LiveCall(c)
    <3>1. PICK a \in ToSet(Followed(f.path)) : \E q \in ToSet(Children(a)) : c = Visit(q, Append(f.path, a))
      BY <1>1, CallsBelow
    <3>2. PICK q \in Below(a) : c = Visit(q, Append(f.path, a))
      BY <3>1 DEF Below
    <3>3. HasReply(f.path, "AnswerReply") /\ f.path \in Paths
      BY <3>1, <1>2, FollowedIsTyped DEF HasReply, AfterModel, Loaded
    <3>4. ReplyAt(f.path).value = <<a>> /\ IsA(a, {"Answer"}) /\ a \in InModel
      BY <1>2, <1>3, <3>1, <3>3, FollowedLeadsOn
    <3>5. IsA(f.entity, {"OptionsQuestion"})
      BY <1>5, <2>1 DEF IsA
    <3>6. LeadsOn(f.path, a)
      BY <1>6, <3>3, <3>4, <3>5 DEF LeadsOn
    <3>7. a \in DOMAIN Entity /\ a \in STRING /\ IsA(a, {"Chapter", "Answer"})
      BY <1>1, <3>4, OfIsTyped DEF IsA
    <3>8. Live(Append(f.path, a))
      BY <1>5, <1>6, <3>6, <3>7, LiveGrows DEF LiveCall
    <3>. QED  BY <1>1, <1>5, <3>2, <3>7, <3>8, FollowupIsLive
  <2>4. \A p \in LiveLists : \A i \in ToSet(ReplyAt(p).value) :
           Begins(f.path, Append(p, i)) => \E c \in new : Begins(c.path, Append(p, i))
    BY <1>2, <1>3, <1>5, <1>6, <2>1, PastOptions
  <2>. HIDE DEF new
  <2>5. Replaced(f, new, rest) /\ ComeBy(f, new, DOMAIN titles')
    BY <1>5, <1>7, <2>2, <2>4 DEF Replaced, ComeBy
  <2>. QED  BY <1>2, <1>3, <1>8, <2>3, <2>5, VisitGoesOn, Zenon
<1>11. CASE VisitOtherQuestion
  <2>1. TypeOf(f.entity) \notin {"ListQuestion", "OptionsQuestion"} /\ ToSet(todo') = {} \union rest
    BY <1>4, <1>7, <1>11 DEF VisitOtherQuestion
  <2>2. \A p \in LiveLists : \A i \in ToSet(ReplyAt(p).value) : ~Begins(f.path, Append(p, i))
    BY <1>1, <1>5, <1>6, <2>1, PastOthers
  <2>. DEFINE new == {}
  <2>3. Replaced(f, new, rest) /\ ComeBy(f, new, DOMAIN titles')
    BY <1>5, <1>7, <2>1, <2>2 DEF Replaced, ComeBy
  <2>4. \A c \in new : LiveCall(c)
    OBVIOUS
  <2>. HIDE DEF new
  <2>. QED  BY <1>2, <1>3, <1>8, <2>3, <2>4, VisitGoesOn, Zenon
<1>. QED  BY <1>9, <1>10, <1>11

LEMMA VisitOfItems == ASSUME ObjectsTyped, ModelInv, VisitInv, VisitItem PROVE VisitInv'
<1>1. Visiting(TRUE) /\ Given
  BY DEF VisitItem, ObjectsTyped
<1>2. /\ ctx' = ctx /\ stage = "visit" /\ stage' = "visit" /\ chosen' = chosen /\ todo \in Seq(VisitCall)
  BY <1>1, VisitingFacts
<1>3. LiveCalls /\ DOMAIN titles \subseteq LiveItems
  BY <1>2 DEF VisitInv
<1>4. PICK f : f = Current
  OBVIOUS
<1>5. /\ f \in VisitCall /\ f.item \in Items /\ f.item # None /\ f.path \in Seq(STRING)
      /\ ToSet(todo) = {f} \union ToSet(Tail(todo))
  BY <1>1, <1>4, VisitingFacts, ItemsAreNoEntities
<1>6. LiveCall(f) /\ f.item \in LiveItems
  BY <1>3, <1>5 DEF LiveCalls, LiveCall
<1>7. PICK rest : rest = ToSet(Tail(todo))
  OBVIOUS
<1>8. DOMAIN titles' = DOMAIN titles \union {f.item}
  BY <1>4, VisitItemTyped
<1>. DEFINE new == VisitsOf(Below(f.entity), f.path)
<1>9. ToSet(todo') = new \union rest
  BY <1>4, <1>7, VisitItemCalls DEF Below
<1>10. \A c \in new : LiveCall(c)
  BY <1>1, <1>5, <1>6, ItemQuestionIsLive DEF VisitsOf
<1>11. \A p \in LiveLists : \A i \in ToSet(ReplyAt(p).value) :
          Begins(f.path, Append(p, i)) =>
             i \in DOMAIN titles' \/ \E c \in new : Begins(c.path, Append(p, i))
  <2>1. ASSUME NEW p \in LiveLists, NEW i \in ToSet(ReplyAt(p).value), Begins(f.path, Append(p, i)), i # f.item
        PROVE  \E c \in new : Begins(c.path, Append(p, i))
    BY <1>1, <1>5, <1>6, <2>1, PastAnItem DEF VisitsOf
  <2>. HIDE DEF new
  <2>. QED  BY <1>8, <2>1
<1>. HIDE DEF new
<1>12. Replaced(f, new, rest) /\ ComeBy(f, new, DOMAIN titles')
  BY <1>5, <1>7, <1>9, <1>11 DEF Replaced, ComeBy
<1>13. DOMAIN titles \subseteq DOMAIN titles' /\ DOMAIN titles' \subseteq LiveItems
  BY <1>3, <1>6, <1>8
<1>. QED  BY <1>2, <1>10, <1>12, <1>13, VisitGoesOn, Zenon

(* The visit starts with the questions of the chapters.                    *)
LEMMA VisitStarts == ASSUME ObjectsTyped, VisitInv, StartVisit PROVE VisitInv'
<1>1. /\ ctx' = ctx /\ stage = "project" /\ stage' = "visit" /\ chosen' = chosen /\ titles' = titles
      /\ todo = <<>> /\ Given /\ titles = <<>>
  BY DEF StartVisit, replyVars, titleVars, ObjectsTyped, Loaded, TitlesTyped
<1>2. \A p \in Paths : ChosenIs(p)
  BY <1>1 DEF VisitInv, ToSet
<1>3. ToSet(todo') = VisitCalls(ToSet(Chapters), <<>>)
  BY StartVisitCalls
<1>4. \A c \in ToSet(Chapters) : /\ c \in DOMAIN Entity /\ c \in STRING /\ IsA(c, {"Chapter", "Answer"})
                                 /\ TypeOf(c) = "Chapter"
  BY <1>1, ChaptersFacts, OfIsTyped DEF Of, IsA
<1>5. <<>> \in Seq(STRING) /\ \A c \in ToSet(Chapters) : Append(<<>>, c) = <<c>>
  OBVIOUS
<1>6. \A f \in ToSet(todo') : LiveCall(f)
  <2>1. ASSUME NEW f \in VisitCalls(ToSet(Chapters), <<>>)  PROVE LiveCall(f)
    <3>. DEFINE path == <<>>
    <3>0. \E c \in ToSet(Chapters) : \E q \in ToSet(Children(c)) : f = Visit(q, Append(path, c))
      <4>1. f \in VisitCalls(ToSet(Chapters), path)
        BY <2>1
      <4>. HIDE DEF path
      <4>. QED  BY <1>1, <4>1, CallsBelow
    <3>1. PICK c \in ToSet(Chapters) : \E q \in ToSet(Children(c)) : f = Visit(q, Append(<<>>, c))
      BY <3>0
    <3>2. PICK q \in Below(c) : f = Visit(q, Append(<<>>, c))
      BY <3>1 DEF Below
    <3>3. Live(<<c>>)
      BY <3>1 DEF Live, Chapters
    <3>. QED  BY <1>1, <1>4, <1>5, <3>1, <3>2, <3>3, FollowupIsLive
  <2>. QED  BY <1>3, <2>1
<1>7. ASSUME NEW p \in LiveLists, NEW i \in ToSet(ReplyAt(p).value)
      PROVE  \E f \in ToSet(todo') : Begins(f.path, Append(p, i))
  <2>. DEFINE a == Append(p, i)
  <2>1. a \in Seq(STRING) /\ Live(a) /\ Len(a) > 2
    BY <1>1, ListsAreLive
  <2>. HIDE DEF a
  <2>2. PICK c : c = a[1]
    OBVIOUS
  <2>3. c \in ToSet(Chapters) /\ c \in DOMAIN Entity /\ c \in STRING /\ TypeOf(c) = "Chapter"
    BY <1>4, <2>1, <2>2 DEF Live, Chapters
  <2>4. <<c>> \in Seq(STRING) /\ Len(<<c>>) = 1 /\ <<c>> # <<>> /\ <<c>>[1] = c
    BY <2>3
  <2>5. Begins(<<c>>, a) /\ Len(<<c>>) < Len(a) /\ Last(<<c>>) = c
    BY <2>1, <2>2, <2>4 DEF Begins, Last
  <2>6. LeadsOn(<<c>>, a[Len(<<c>>) + 1])
    BY <2>1, <2>4, <2>5, LiveLeadsOn
  <2>7. a[Len(<<c>>) + 1] \in STRING /\ Begins(Append(<<c>>, a[Len(<<c>>) + 1]), a)
    BY <2>1, <2>4, <2>5, BeginsOneMore
  <2>8. PICK q \in STRING : LeadsOn(<<c>>, q) /\ Begins(Append(<<c>>, q), a)
    BY <2>6, <2>7
  <2>9. q \in ToSet(Children(c))
    BY <1>1, <2>3, <2>5, <2>8, ItemsAreNoEntities DEF LeadsOn, IsA
  <2>10. q \in DOMAIN Entity
    BY <1>1, <2>3, <2>9, ChildrenFacts, OfIsTyped
  <2>11. Visit(q, Append(<<>>, c)) \in VisitCalls(ToSet(Chapters), <<>>)
    BY <2>3, <2>9, <2>10, CallBelow
  <2>12. Visit(q, Append(<<>>, c)).path = Append(<<c>>, q)
    BY <1>5, <2>3 DEF Visit
  <2>. QED  BY <1>3, <2>8, <2>11, <2>12 DEF a
<1>8. LiveCalls' /\ ItemsComing' /\ \A p \in Paths : ChosenIs(p)'
  BY <1>1, <1>2, <1>6, <1>7, SameLive DEF LiveCalls, ItemsComing, Coming, ChosenIs
<1>9. DOMAIN titles' = {}
  BY <1>1
<1>. QED  BY <1>1, <1>8, <1>9, SameLive DEF VisitInv, AfterProject

(* Every reply is linked once the project is resolved.                     *)
LEMMA RepliesGetLinked == ASSUME ObjectsTyped, VisitInv, ResolveReport \/ ResolveReply PROVE VisitInv'
<1>1. ctx' = ctx /\ stage' = "project" /\ stage \in {"model", "project"} /\ Given
  BY DEF ResolveReport, ResolveReply, ObjectsTyped
<1>2. \A p \in Paths : p \in ToSet(todo') \/ ChosenIs(p)'
  <2>1. CASE ResolveReport
    BY <2>1, ResolveReportTyped
  <2>2. CASE ResolveReply
    <3>1. PICK p : p = Head(todo)
      OBVIOUS
    <3>2. /\ todo \in Seq(Paths) /\ todo # <<>> /\ todo' = Tail(todo) /\ stage = "project"
          /\ chosen \in [Paths -> Seq(STRING)]
          /\ chosen' = [chosen EXCEPT ![p] = Linked(ReplyAt(p))]
      BY <2>2, <3>1 DEF ResolveReply, ObjectsTyped, CallsTyped, Loaded, RepliesTyped
    <3>3. ToSet(todo) = {p} \union ToSet(Tail(todo)) /\ p \in Paths
      BY <3>1, <3>2, HeadAndTail
    <3>4. \A x \in Paths : x \in ToSet(todo) \/ ChosenIs(x)
      BY <3>2 DEF VisitInv
    <3>5. ASSUME NEW x \in Paths, x \notin ToSet(todo')  PROVE chosen'[x] = Linked(ReplyAt(x))
      <4>1. CASE x = p
        BY <3>2, <3>3, <4>1
      <4>2. CASE x # p
        BY <3>2, <3>3, <3>4, <3>5, <4>2 DEF ChosenIs
      <4>. QED  BY <4>1, <4>2
    <3>. QED  BY <1>1, <3>5, SameLive DEF ChosenIs
  <2>. QED  BY <2>1, <2>2
<1>. QED  BY <1>1, <1>2, SameLive DEF VisitInv, AfterProject

LEMMA VisitStep == ASSUME ObjectsTyped, ModelInv, VisitInv, [Next]_vars PROVE VisitInv'
<1>0. ctx' = ctx
  BY ContextStays
<1>1. CASE Load \/ ResolveModel \/ ResolveEntity \/ ResolveQuestion \/ ResolveFileQuestion \/ ForgetObjects
  <2>1. stage' \in {"new", "invalid", "loaded", "model"}
    BY <1>1 DEF Load, ResolveModel, ResolveEntity, ResolveQuestion, ResolveFileQuestion, Enter, ForgetObjects
  <2>. QED  BY <2>1 DEF VisitInv, AfterProject
<1>2. CASE StartTitles \/ PopItem \/ FollowSameAs \/ CopyTitle \/ ShowTitles
  <2>1. /\ stage' \in {"titles", "built"} /\ chosen' = chosen /\ AfterProject
        /\ stage = "titles" \/ (stage = "visit" /\ todo = <<>>)
    BY <1>2 DEF StartTitles, PopItem, FollowSameAs, CopyTitle, ShowTitles, replyVars, AfterProject
  <2>2. DOMAIN titles' = DOMAIN titles
    BY <1>2, ChainTyped
  <2>3. LiveItems \subseteq DOMAIN titles
    <3>1. CASE stage = "titles"
      BY <3>1 DEF VisitInv
    <3>2. CASE stage = "visit" /\ todo = <<>>
      <4>1. ItemsComing /\ \A p : ~Coming(p)
        BY <3>2 DEF VisitInv, Coming, ToSet
      <4>. QED  BY <4>1 DEF ItemsComing, LiveItems
    <3>. QED  BY <2>1, <3>1, <3>2
  <2>4. DOMAIN titles \subseteq LiveItems /\ \A p \in Paths : ChosenIs(p)
    BY <2>1 DEF VisitInv
  <2>5. \A p \in Paths : ChosenIs(p)'
    BY <1>0, <2>1, <2>4, SameLive DEF ChosenIs
  <2>. QED  BY <1>0, <2>1, <2>2, <2>3, <2>4, <2>5, SameLive DEF VisitInv
<1>3. CASE ExtractionNext
  <2>1. stage' \in {"extract", "extracted"} /\ chosen' = chosen /\ AfterProject
    BY <1>3 DEF ExtractionNext, StartExtraction, ExtractChapter, ExtractReply, ExtractChoices, ExtractAnswer,
       ExtractItems, Extracting, FinishExtraction, replyVars, AfterProject
  <2>2. \A p \in Paths : ChosenIs(p)'
    BY <1>0, <2>1, SameLive DEF VisitInv, ChosenIs
  <2>. QED  BY <1>0, <2>1, <2>2, SameLive DEF VisitInv
<1>4. CASE UNCHANGED objectVars
  <2>1. UNCHANGED <<stage, todo, chosen, titles>>
    BY <1>4 DEF objectVars, contextVars, replyVars, titleVars
  <2>2. \A p : ChosenIs(p)' = ChosenIs(p) /\ Coming(p)' = Coming(p)
    BY <1>0, <2>1, SameLive DEF ChosenIs, Coming
  <2>3. LiveCalls' = LiveCalls /\ (ItemsComing => ItemsComing')
    BY <1>0, <2>1, <2>2, SameLive DEF LiveCalls, ItemsComing
  <2>. QED  BY <1>0, <2>1, <2>2, <2>3, SameLive DEF VisitInv, AfterProject
<1>. QED
  BY <1>1, <1>2, <1>3, <1>4, RepliesGetLinked, VisitStarts, VisitOfQuestions, VisitOfItems, ObjectSteps
  DEF ObjectStep, ContextNext

LEMMA VisitInit == ASSUME BuildInit PROVE VisitInv
BY DEF BuildInit, ContextInit, VisitInv, AfterProject

LEMMA LiveAreTitled == ASSUME VisitInv PROVE LiveItemsAreTitled
BY DEF VisitInv, LiveItemsAreTitled, LiveItems

(* Items get a title if they can be reached, through lists and chosen      *)
(* answers at any depth, and only then.                                    *)
THEOREM LiveCorrect == Spec => []LiveItemsAreTitled
<1>1. BuildInit => ObjectsTyped /\ ModelInv /\ VisitInv
  BY ObjectsInit, ModelInit, VisitInit
<1>2. ObjectsTyped /\ ModelInv /\ VisitInv /\ [Next]_vars => ObjectsTyped' /\ ModelInv' /\ VisitInv'
  BY ObjectsTypedStep, ModelStep, VisitStep
<1>. QED  BY <1>1, <1>2, LiveAreTitled, PTL DEF Spec

-----------------------------------------------------------------------------
(* Where a chain of items ends                                             *)

NextOf(x) == IF x \in DOMAIN sameAs THEN sameAs[x] ELSE x
ChainAt(c, item, n) == IF n = 0 THEN item ELSE NextOf(c[n - 1])
ChainUpTo(c, item, m) == c = [n \in 0..m |-> ChainAt(c, item, n)]
HasChain(item, m) == \E c : ChainUpTo(c, item, m)
ChainList(item) == CHOOSE c : ChainUpTo(c, item, Cardinality(Items))

LEMMA ChainEndIsLast == \A item : ChainEnd(item) = ChainList(item)[Cardinality(Items)]
BY DEF ChainEnd, ChainList, ChainUpTo, ChainAt, NextOf

LEMMA ChainExists ==
    ASSUME NEW item, NEW m \in Nat
    PROVE  HasChain(item, m)
<1>. DEFINE Bad == {n \in Nat : ~HasChain(item, n)}
<1>. SUFFICES ASSUME Bad # {} PROVE FALSE
  OBVIOUS
<1>1. PICK n \in Bad : \A k \in Bad : n <= k
  BY LeastNumber
<1>2. CASE n = 0
  <2>. DEFINE f == [k \in 0..0 |-> item]
  <2>1. ChainUpTo(f, item, 0)
    BY DEF ChainUpTo, ChainAt
  <2>. QED  BY <1>1, <1>2, <2>1 DEF HasChain
<1>3. CASE n # 0
  <2>1. n - 1 \in Nat /\ n - 1 \notin Bad
    BY <1>1, <1>3
  <2>2. PICK g : ChainUpTo(g, item, n - 1)
    BY <2>1 DEF HasChain
  <2>. DEFINE f == [k \in 0..n |-> IF k = n THEN NextOf(g[n - 1]) ELSE g[k]]
  <2>3. f = [k \in 0..n |-> IF k = n THEN NextOf(g[n - 1]) ELSE g[k]]
    OBVIOUS
  <2>. HIDE DEF f
  <2>4. \A k \in 0..n : f[k] = IF k = n THEN NextOf(g[n - 1]) ELSE g[k]
    BY <2>3
  <2>5. \A k \in 0..n - 1 : f[k] = g[k] /\ g[k] = ChainAt(g, item, k)
    <3>1. \A k \in 0..n - 1 : g[k] = ChainAt(g, item, k)
      BY <2>2, <2>1 DEF ChainUpTo
    <3>2. \A k \in 0..n - 1 : k \in 0..n /\ k # n
      BY <2>1
    <3>. QED  BY <3>1, <3>2, <2>4
  <2>6. ASSUME NEW k \in 0..n  PROVE f[k] = ChainAt(f, item, k)
    <3>1. CASE k = 0
      BY <2>5, <2>1, <3>1 DEF ChainAt
    <3>2. CASE k # 0
      <4>1. k - 1 \in 0..n - 1 /\ f[k - 1] = g[k - 1]
        BY <3>2, <2>5, <2>1
      <4>2. f[k] = NextOf(g[k - 1])
        <5>1. CASE k = n
          BY <2>4, <5>1
        <5>2. CASE k # n
          BY <2>5, <3>2, <5>2, <2>1 DEF ChainAt
        <5>. QED  BY <5>1, <5>2
      <4>. QED  BY <4>1, <4>2, <3>2 DEF ChainAt
    <3>. QED  BY <3>1, <3>2
  <2>7. ChainUpTo(f, item, n)
    BY <2>3, <2>6 DEF ChainUpTo
  <2>. QED  BY <1>1, <2>7 DEF HasChain
<1>. QED  BY <1>2, <1>3

LEMMA ChainFacts ==
    ASSUME NEW item
    PROVE  /\ Cardinality(Items) \in Nat
           /\ ChainEnd(item) = ChainList(item)[Cardinality(Items)]
           /\ ChainList(item)[0] = item
           /\ \A n \in 1..Cardinality(Items) : ChainList(item)[n] = NextOf(ChainList(item)[n - 1])
<1>1. Cardinality(Items) \in Nat
  BY ContextAssumption, FS_CardinalityType
<1>2. ChainUpTo(ChainList(item), item, Cardinality(Items))
  BY <1>1, ChainExists DEF HasChain, ChainList
<1>. DEFINE c == ChainList(item)
            N == Cardinality(Items)
<1>3. c = [n \in 0..N |-> ChainAt(c, item, n)]
  BY <1>2 DEF ChainUpTo
<1>. HIDE DEF c, N
<1>4. N \in Nat
  BY <1>1 DEF N
<1>5. \A n \in 0..N : c[n] = ChainAt(c, item, n)
  BY <1>3, Zenon
<1>6. c[0] = item /\ \A n \in 1..N : c[n] = NextOf(c[n - 1])
  BY <1>4, <1>5 DEF ChainAt
<1>. QED  BY <1>1, <1>6, ChainEndIsLast DEF c, N

(* A chain does not leave a set that is closed under sameAs.               *)
LEMMA ChainStaysIn ==
    ASSUME NEW S, NEW item \in S, \A x \in S : NextOf(x) \in S
    PROVE  ChainEnd(item) \in S
<1>. DEFINE c == ChainList(item)
            N == Cardinality(Items)
<1>1. N \in Nat /\ c[0] = item /\ \A n \in 1..N : c[n] = NextOf(c[n - 1])
  BY ChainFacts
<1>. HIDE DEF c, N
<1>. DEFINE Bad == {n \in 0..N : c[n] \notin S}
<1>2. Bad = {}
  <2>. SUFFICES ASSUME Bad # {} PROVE FALSE
    OBVIOUS
  <2>0. Bad \subseteq Nat
    BY <1>1
  <2>1. PICK n \in Bad : \A k \in Bad : n <= k
    BY LeastNumber, <2>0
  <2>2. n # 0
    BY <1>1, <2>1
  <2>3. n \in 1..N /\ n - 1 \in 0..N /\ n - 1 \notin Bad
    BY <1>1, <2>1, <2>2
  <2>4. c[n - 1] \in S /\ c[n] = NextOf(c[n - 1])
    BY <1>1, <2>3
  <2>. QED  BY <2>1, <2>4
<1>3. c[N] \in S
  BY <1>1, <1>2
<1>. QED  BY <1>3, ChainFacts DEF c, N

(* Whoever names an item shares the end of its chain.                      *)
LEMMA ChainIsShared ==
    ASSUME NEW item, ~Cyclic(item)
    PROVE  ChainEnd(NextOf(item)) = ChainEnd(item)
<1>. DEFINE next == NextOf(item)
            c == ChainList(item)
            d == ChainList(next)
            N == Cardinality(Items)
<1>1. /\ N \in Nat /\ ChainEnd(item) = c[N] /\ c[0] = item /\ \A n \in 1..N : c[n] = NextOf(c[n - 1])
      /\ ChainEnd(next) = d[N] /\ d[0] = next /\ \A n \in 1..N : d[n] = NextOf(d[n - 1])
  <2>1. /\ N \in Nat /\ ChainEnd(item) = c[N] /\ c[0] = item /\ \A n \in 1..N : c[n] = NextOf(c[n - 1])
    BY ChainFacts
  <2>2. ChainEnd(next) = d[N] /\ d[0] = next /\ \A n \in 1..N : d[n] = NextOf(d[n - 1])
    <3>. HIDE DEF next
    <3>. QED  BY ChainFacts
  <2>. QED  BY <2>1, <2>2
<1>2. next = NextOf(c[0])
  BY <1>1
<1>. HIDE DEF c, d, N, next
<1>. DEFINE Bad == {n \in 0..N : d[n] # NextOf(c[n])}
<1>3. Bad = {}
  <2>. SUFFICES ASSUME Bad # {} PROVE FALSE
    OBVIOUS
  <2>0. Bad \subseteq Nat
    BY <1>1
  <2>1. PICK n \in Bad : \A k \in Bad : n <= k
    BY LeastNumber, <2>0
  <2>2. n # 0
    BY <1>1, <1>2, <2>1
  <2>3. n \in 1..N /\ n - 1 \in 0..N /\ n - 1 \notin Bad
    BY <1>1, <2>1, <2>2
  <2>4. d[n - 1] = NextOf(c[n - 1])
    BY <2>3
  <2>5. d[n] = NextOf(d[n - 1]) /\ c[n] = NextOf(c[n - 1])
    BY <1>1, <2>3
  <2>6. d[n] = NextOf(c[n])
    BY <2>4, <2>5
  <2>. QED  BY <2>1, <2>6
<1>4. d[N] = NextOf(c[N])
  BY <1>1, <1>3
<1>5. NextOf(c[N]) = c[N]
  BY <1>1 DEF Cyclic, NextOf
<1>. QED  BY <1>1, <1>4, <1>5 DEF next

(* The end of a chain of which a part is known: what was met, each with    *)
(* the next one, up to where the chain is followed to.                     *)
LEMMA ChainIsFollowed ==
    ASSUME NEW item, NEW met, NEW last \in met, item \in met, ~Cyclic(item),
           \A x \in met : x = last \/ (x \in DOMAIN sameAs /\ sameAs[x] \in met),
           NextOf(last) \in met
    PROVE  last = ChainEnd(item) /\ last \notin DOMAIN sameAs
<1>1. \A x \in met : NextOf(x) \in met
  BY DEF NextOf
<1>2. ChainEnd(item) \in met
  BY <1>1, ChainStaysIn
<1>3. ChainEnd(item) \notin DOMAIN sameAs
  BY DEF Cyclic
<1>. QED  BY <1>2, <1>3

-----------------------------------------------------------------------------
(* The titles of items                                                     *)
(*                                                                         *)
(* The inductive invariant: an item that has been visited has the title,   *)
(* and names the item, that the reply to its first question gives it; the  *)
(* chain that is followed has met what it came by; and an item that waits  *)
(* no longer has the title of the end of its chain, if that has one.       *)

(* An item is an element of one list, at one place.                        *)
ItemsAreOnce ==
    \A p, o \in LiveLists : \A k \in DOMAIN ReplyAt(p).value, j \in DOMAIN ReplyAt(o).value :
        ReplyAt(p).value[k] = ReplyAt(o).value[j] => p = o /\ k = j

Places == {x \in LiveLists \X Nat : x[2] \in DOMAIN ReplyAt(x[1]).value}
ItemAt(x) == ReplyAt(x[1]).value[x[2]]
FirstAt(x) == FirstReply(x[1], ItemAt(x))
NamedAt(x) == Names(FirstAt(x))
OwnTitle(x) ==
    IF FirstAt(x) \in Paths /\ HasDirectTitle(ReplyAt(FirstAt(x)))
    THEN DirectTitle(FirstAt(x)) ELSE Numbered(x[2])

CallsOfItems ==
    \A f \in ToSet(todo) : f.item # None =>
        \E x \in Places : f.item = ItemAt(x) /\ f.path = Append(x[1], f.item) /\ f.n = x[2]

(* What the items name is what their replies say. *)
NamesAreRight ==
    \A x \in Places : ItemAt(x) \in DOMAIN titles =>
        /\ ItemAt(x) \in DOMAIN sameAs <=> NamedAt(x) # None
        /\ ItemAt(x) \in DOMAIN sameAs => sameAs[ItemAt(x)] = NamedAt(x)
TitlesAreOwn == \A x \in Places : ItemAt(x) \in DOMAIN titles => titles[ItemAt(x)] = OwnTitle(x)

HopMet ==
    hop.item # None =>
        /\ DOMAIN hop = {"item", "at", "met"}
        /\ hop.item \in hop.met /\ hop.at \in hop.met
        /\ \A y \in hop.met : y = hop.at \/ (y \in DOMAIN sameAs /\ sameAs[y] \in hop.met)

Waits(item) == item \in ToSet(pending) \/ hop.item = item
TitleIsRight(x) ==
    LET item == ItemAt(x)
    IN  /\ item \notin DOMAIN sameAs => titles[item] = OwnTitle(x)
        /\ item \in DOMAIN sameAs /\ ~Cyclic(item) =>
              \/ Waits(item) /\ titles[item] = OwnTitle(x)
              \/ ChainEnd(item) \in DOMAIN titles /\ titles[item] = titles[ChainEnd(item)]
              \/ ChainEnd(item) \notin DOMAIN titles /\ titles[item] = OwnTitle(x)
TitlesAreRight == \A x \in Places : ItemAt(x) \in DOMAIN titles => TitleIsRight(x)
ShownIsRight ==
    \A p \in DOMAIN shown :
        Named(ReplyAt(p)) \in DOMAIN titles => shown[p] = titles[Named(ReplyAt(p))]

TitlesInv ==
    /\ stage = "visit" =>
          CallsOfItems /\ TitlesAreOwn /\ hop.item = None /\ DOMAIN sameAs \subseteq ToSet(pending)
    /\ stage \in {"visit", "titles", "built"} => NamesAreRight
    /\ stage \in {"titles", "built"} => HopMet /\ TitlesAreRight
    /\ stage = "built" => ShownIsRight /\ pending = <<>> /\ hop.item = None
    /\ stage \in {"loaded", "model", "project"} =>
          sameAs = <<>> /\ pending = <<>> /\ hop.item = None

LEMMA PlaceFacts ==
    ASSUME Given, NEW x \in Places
    PROVE  /\ x = <<x[1], x[2]>> /\ x[1] \in LiveLists /\ x[1] \in Paths
           /\ x[2] \in DOMAIN ReplyAt(x[1]).value
           /\ ItemAt(x) \in ToSet(ReplyAt(x[1]).value) /\ ItemAt(x) \in LiveItems
           /\ ItemAt(x) \in Items /\ ItemAt(x) \in STRING /\ ItemAt(x) # None
<1>1. x = <<x[1], x[2]>> /\ x[1] \in LiveLists /\ x[1] \in Paths /\ x[2] \in DOMAIN ReplyAt(x[1]).value
  BY DEF Places, LiveLists
<1>2. ItemAt(x) \in ToSet(ReplyAt(x[1]).value)
  BY <1>1 DEF ItemAt, ToSet
<1>3. ItemAt(x) \in Items /\ ItemAt(x) \in STRING /\ ItemAt(x) \in LiveItems
  BY <1>1, <1>2, ListsAreLive
<1>4. ItemAt(x) # None
  BY <1>3, ItemsAreNoEntities
<1>. QED  BY <1>1, <1>2, <1>3, <1>4

LEMMA LiveItemsHavePlaces ==
    ASSUME Given, NEW item \in LiveItems
    PROVE  \E x \in Places : ItemAt(x) = item
<1>1. PICK p \in LiveLists : item \in ToSet(ReplyAt(p).value)
  BY DEF LiveItems
<1>2. PICK k \in DOMAIN ReplyAt(p).value : ReplyAt(p).value[k] = item
  BY <1>1 DEF ToSet
<1>3. ReplyAt(p).value \in Seq(STRING)
  BY <1>1, ReplyFacts DEF LiveLists
<1>4. k \in Nat
  BY <1>2, <1>3
<1>5. <<p, k>> \in Places
  BY <1>1, <1>2, <1>4 DEF Places
<1>6. ItemAt(<<p, k>>) = item
  BY <1>2 DEF ItemAt
<1>. QED  BY <1>5, <1>6

LEMMA SamePlaces ==
    ASSUME ctx' = ctx
    PROVE  /\ Places' = Places /\ (ItemsAreOnce => ItemsAreOnce') /\ (ItemsAreOnce' => ItemsAreOnce)
           /\ \A x : ItemAt(x)' = ItemAt(x) /\ FirstAt(x)' = FirstAt(x) /\ NamedAt(x)' = NamedAt(x)
<1>1. LiveLists' = LiveLists /\ Paths' = Paths /\ \A p : ReplyAt(p)' = ReplyAt(p)
  BY SameLive
<1>2. Places' = Places /\ \A x : ItemAt(x)' = ItemAt(x)
  BY <1>1 DEF Places, ItemAt
<1>3. \A p, item : FirstReply(p, item)' = FirstReply(p, item)
  BY DEF FirstReply, Children, Existing, Of, Entity, TypeOf
<1>4. \A x : FirstAt(x)' = FirstAt(x)
  BY <1>2, <1>3 DEF FirstAt
<1>5. \A x : NamedAt(x)' = NamedAt(x)
  BY <1>1, <1>4 DEF NamedAt, Names, Named
<1>6. (ItemsAreOnce => ItemsAreOnce') /\ (ItemsAreOnce' => ItemsAreOnce)
  BY <1>1 DEF ItemsAreOnce
<1>. QED  BY <1>2, <1>4, <1>5, <1>6

(* The reply that the visitor looks at is that of the item's first         *)
(* question.                                                               *)
LEMMA FirstIsAppended ==
    ASSUME Given, NEW x \in Places, NEW q
    PROVE  Append(Append(x[1], ItemAt(x)), q) = x[1] \o <<ItemAt(x), q>>
<1>1. x[1] \in Seq(STRING) /\ ItemAt(x) \in STRING
  BY PlaceFacts, ReplyFacts
<1>2. PICK p, i : p = x[1] /\ i = ItemAt(x) /\ p \in Seq(STRING)
  BY <1>1
<1>. DEFINE a == Append(Append(p, i), q)
            b == p \o <<i, q>>
<1>3. a = b
  OBVIOUS
<1>. QED  BY <1>2, <1>3

LEMMA SameTitles ==
    ASSUME ctx' = ctx, chosen' = chosen
    PROVE  \A x : OwnTitle(x)' = OwnTitle(x)
<1>1. \A x : FirstAt(x)' = FirstAt(x)
  BY SamePlaces
<1>2. Paths' = Paths /\ \A p : ReplyAt(p)' = ReplyAt(p)
  BY SameLive
<1>. QED  BY <1>1, <1>2 DEF OwnTitle, HasDirectTitle, DirectTitle, Numbered

(* What the visit of an item writes down. *)
LEMMA VisitItemWrites ==
    ASSUME ObjectsTyped, VisitInv, TitlesInv, VisitItem
    PROVE  \E x \in Places :
              /\ Current.item = ItemAt(x)
              /\ titles' = Put(titles, ItemAt(x), OwnTitle(x))
              /\ sameAs' = IF NamedAt(x) # None THEN Put(sameAs, ItemAt(x), NamedAt(x)) ELSE sameAs
              /\ pending' = IF NamedAt(x) # None /\ ItemAt(x) \notin DOMAIN sameAs
                            THEN Append(pending, ItemAt(x)) ELSE pending
<1>1. Visiting(TRUE) /\ Given
  BY DEF VisitItem, ObjectsTyped
<1>2. stage = "visit" /\ Current \in ToSet(todo) /\ Current \in VisitCall /\ Current.item \in Items
  BY <1>1, VisitingFacts
<1>3. Current.item # None
  BY <1>1, <1>2, ItemsAreNoEntities
<1>4. CallsOfItems /\ LiveCalls
  BY <1>2 DEF TitlesInv, VisitInv
<1>5. PICK x \in Places : /\ Current.item = ItemAt(x) /\ Current.path = Append(x[1], Current.item)
                          /\ Current.n = x[2]
  BY <1>2, <1>3, <1>4 DEF CallsOfItems
<1>6. Current.path[Len(Current.path) - 1] = Current.entity
  BY <1>2, <1>3, <1>4 DEF LiveCalls, LiveCall
<1>7. Current.entity = Last(x[1])
  <2>. DEFINE p == x[1]
              i == ItemAt(x)
              a == Append(p, i)
  <2>1. p \in Seq(STRING) /\ p # <<>> /\ i \in STRING
    BY <1>1, PlaceFacts, ReplyFacts
  <2>2. Current.entity = a[Len(a) - 1]
    BY <1>5, <1>6
  <2>. HIDE DEF p, i
  <2>3. Len(a) = Len(p) + 1 /\ Len(p) \in Nat /\ \A k \in 1..Len(p) : a[k] = p[k]
    BY <2>1, AppendFacts
  <2>. HIDE DEF a
  <2>4. Len(p) # 0
    BY <2>1
  <2>5. Len(a) - 1 = Len(p) /\ Len(p) \in 1..Len(p)
    BY <2>3, <2>4
  <2>6. a[Len(a) - 1] = p[Len(p)]
    BY <2>3, <2>5
  <2>7. Current.entity = Last(p)
    BY <2>2, <2>6 DEF Last
  <2>. QED  BY <2>7 DEF p
<1>. DEFINE followups == Children(Current.entity)
            q == IF followups = <<>> THEN None ELSE followups[1]
            first == Append(Current.path, q)
<1>8. first = FirstAt(x)
  <2>1. first = Append(Append(x[1], ItemAt(x)), q)
    BY <1>5
  <2>2. FirstAt(x) = x[1] \o <<ItemAt(x), q>>
    BY <1>7 DEF FirstAt, FirstReply
  <2>. HIDE DEF first, q
  <2>3. Append(Append(x[1], ItemAt(x)), q) = x[1] \o <<ItemAt(x), q>>
    BY <1>1, FirstIsAppended
  <2>. QED  BY <2>1, <2>2, <2>3
<1>. DEFINE named == IF first \in Paths THEN Named(ReplyAt(first)) ELSE None
            title == IF first \in Paths /\ HasDirectTitle(ReplyAt(first))
                     THEN DirectTitle(first) ELSE Numbered(Current.n)
<1>9. /\ titles' = Put(titles, Current.item, title)
      /\ sameAs' = IF named # None THEN Put(sameAs, Current.item, named) ELSE sameAs
      /\ pending' = IF named # None /\ Current.item \notin DOMAIN sameAs
                    THEN Append(pending, Current.item) ELSE pending
  BY DEF VisitItem
<1>. HIDE DEF first
<1>10. named = NamedAt(x)
  BY <1>8 DEF NamedAt, Names
<1>11. title = OwnTitle(x)
  BY <1>5, <1>8 DEF OwnTitle
<1>. HIDE DEF named, title
<1>. QED  BY <1>5, <1>9, <1>10, <1>11

LEMMA ToSetAppend ==
    ASSUME NEW T, NEW s \in Seq(T), NEW x \in T
    PROVE  ToSet(Append(s, x)) = ToSet(s) \union {x}
<1>. DEFINE a == Append(s, x)
<1>1. /\ DOMAIN a = 1..Len(s) + 1 /\ DOMAIN s = 1..Len(s) /\ Len(s) \in Nat
      /\ a[Len(s) + 1] = x /\ \A k \in 1..Len(s) : a[k] = s[k] /\ k \in 1..Len(s) + 1
      /\ \A k \in 1..Len(s) + 1 : k \in 1..Len(s) \/ k = Len(s) + 1
      /\ Len(s) + 1 \in 1..Len(s) + 1
  OBVIOUS
<1>. HIDE DEF a
<1>. QED  BY <1>1 DEF ToSet, a

LEMMA FrontAndLast ==
    ASSUME NEW T, NEW s \in Seq(T), s # <<>>
    PROVE  ToSet(s) = ToSet(Front(s)) \union {Last(s)}
<1>1. /\ Len(s) \in Nat \ {0} /\ DOMAIN s = 1..Len(s)
  OBVIOUS
<1>. DEFINE f == Front(s)
<1>2. /\ Last(s) = s[Len(s)] /\ DOMAIN f = 1..Len(s) - 1
      /\ \A k \in 1..Len(s) - 1 : f[k] = s[k]
  BY <1>1 DEF Front, Last
<1>. HIDE DEF f
<1>3. \A n \in Nat \ {0} :
         /\ \A k \in 1..n - 1 : k \in 1..n
         /\ \A k \in 1..n : k \in 1..n - 1 \/ k = n
         /\ n \in 1..n
  OBVIOUS
<1>. QED  BY <1>1, <1>2, <1>3 DEF ToSet, f

LEMMA ItemsGetTitles ==
    ASSUME ObjectsTyped, VisitInv, TitlesInv, ItemsAreOnce, VisitItem
    PROVE  TitlesInv'
<1>1. Visiting(TRUE) /\ Given
  BY DEF VisitItem, ObjectsTyped
<1>2. /\ ctx' = ctx /\ stage = "visit" /\ stage' = "visit" /\ chosen' = chosen /\ hop' = hop
      /\ ToSet(todo) = {Current} \union ToSet(Tail(todo))
  BY <1>1, VisitingFacts
<1>3. /\ CallsOfItems /\ TitlesAreOwn /\ NamesAreRight
      /\ hop.item = None /\ DOMAIN sameAs \subseteq ToSet(pending)
      /\ pending \in Seq(DOMAIN sameAs) /\ DOMAIN sameAs \subseteq DOMAIN titles /\ DOMAIN titles \subseteq Items
  BY <1>2 DEF TitlesInv, ObjectsTyped, Loaded, TitlesTyped
<1>4. PICK x \in Places :
         /\ titles' = Put(titles, ItemAt(x), OwnTitle(x))
         /\ sameAs' = IF NamedAt(x) # None THEN Put(sameAs, ItemAt(x), NamedAt(x)) ELSE sameAs
         /\ pending' = IF NamedAt(x) # None /\ ItemAt(x) \notin DOMAIN sameAs
                       THEN Append(pending, ItemAt(x)) ELSE pending
  BY VisitItemWrites
<1>5. PICK i : i = ItemAt(x)
  OBVIOUS
<1>6. \A y \in Places : ItemAt(y) = i => y = x
  <2>1. ASSUME NEW y \in Places, ItemAt(y) = ItemAt(x)  PROVE y = x
    <3>1. y[1] = x[1] /\ y[2] = x[2]
      BY <1>1, <2>1, PlaceFacts DEF ItemsAreOnce, ItemAt
    <3>. QED  BY <1>1, <3>1, PlaceFacts
  <2>. QED  BY <1>5, <2>1
<1>7. /\ DOMAIN titles' = DOMAIN titles \union {i} /\ titles'[i] = OwnTitle(x)
      /\ \A j \in DOMAIN titles : j # i => titles'[j] = titles[j]
  BY <1>4, <1>5 DEF Put
<1>8. NamedAt(x) # None => NamesAreRight' /\ DOMAIN sameAs' \subseteq ToSet(pending')
  <2>. HAVE NamedAt(x) # None
  <2>1. /\ DOMAIN sameAs' = DOMAIN sameAs \union {i} /\ sameAs'[i] = NamedAt(x)
        /\ \A j \in DOMAIN sameAs : j # i => sameAs'[j] = sameAs[j]
    BY <1>4, <1>5 DEF Put
  <2>2. NamesAreRight'
    <3>1. ASSUME NEW y \in Places, ItemAt(y) \in DOMAIN titles'
          PROVE  /\ ItemAt(y) \in DOMAIN sameAs' <=> NamedAt(y) # None
                 /\ ItemAt(y) \in DOMAIN sameAs' => sameAs'[ItemAt(y)] = NamedAt(y)
      <4>1. CASE ItemAt(y) = i
        BY <1>6, <2>1, <4>1
      <4>2. CASE ItemAt(y) # i
        BY <1>3, <1>7, <2>1, <3>1, <4>2 DEF NamesAreRight
      <4>. QED  BY <4>1, <4>2
    <3>. QED  BY <1>2, <3>1, SamePlaces DEF NamesAreRight
  <2>3. DOMAIN sameAs' \subseteq ToSet(pending')
    <3>1. CASE i \in DOMAIN sameAs
      BY <1>3, <1>4, <1>5, <2>1, <3>1
    <3>2. CASE i \notin DOMAIN sameAs
      <4>1. pending' = Append(pending, i)
        BY <1>4, <1>5, <3>2
      <4>2. pending \in Seq(Items) /\ i \in Items
        BY <1>1, <1>3, <1>5, PlaceFacts, SeqGrows
      <4>3. ToSet(Append(pending, i)) = ToSet(pending) \union {i}
        BY <4>2, ToSetAppend
      <4>. QED  BY <1>3, <2>1, <4>1, <4>3
    <3>. QED  BY <3>1, <3>2
  <2>. QED  BY <2>2, <2>3
<1>9. NamedAt(x) = None => NamesAreRight' /\ DOMAIN sameAs' \subseteq ToSet(pending')
  <2>. HAVE NamedAt(x) = None
  <2>1. sameAs' = sameAs /\ pending' = pending
    BY <1>4
  <2>2. i \notin DOMAIN sameAs
    BY <1>3, <1>5 DEF NamesAreRight
  <2>3. NamesAreRight'
    <3>1. ASSUME NEW y \in Places, ItemAt(y) \in DOMAIN titles'
          PROVE  /\ ItemAt(y) \in DOMAIN sameAs <=> NamedAt(y) # None
                 /\ ItemAt(y) \in DOMAIN sameAs => sameAs[ItemAt(y)] = NamedAt(y)
      <4>1. CASE ItemAt(y) = i
        BY <1>6, <2>2, <4>1
      <4>2. CASE ItemAt(y) # i
        BY <1>3, <1>7, <3>1, <4>2 DEF NamesAreRight
      <4>. QED  BY <4>1, <4>2
    <3>. QED  BY <1>2, <2>1, <3>1, SamePlaces DEF NamesAreRight
  <2>. QED  BY <1>3, <2>1, <2>3
<1>10. TitlesAreOwn'
  <2>1. ASSUME NEW y \in Places, ItemAt(y) \in DOMAIN titles'
        PROVE  titles'[ItemAt(y)] = OwnTitle(y)
    BY <1>3, <1>6, <1>7, <2>1 DEF TitlesAreOwn
  <2>. QED  BY <1>2, <2>1, SamePlaces, SameTitles DEF TitlesAreOwn
<1>11. CallsOfItems'
  <2>1. ToSet(todo') = VisitsOf(ToSet(Children(Current.entity)), Current.path) \union ToSet(Tail(todo))
    BY VisitItemCalls
  <2>2. \A f \in VisitsOf(ToSet(Children(Current.entity)), Current.path) : f.item = None
    BY DEF VisitsOf, Visit
  <2>3. ASSUME NEW f \in ToSet(todo'), f.item # None
        PROVE  \E y \in Places : f.item = ItemAt(y) /\ f.path = Append(y[1], f.item) /\ f.n = y[2]
    BY <1>2, <1>3, <2>1, <2>2, <2>3 DEF CallsOfItems
  <2>. QED  BY <1>2, <2>3, SamePlaces DEF CallsOfItems
<1>. QED  BY <1>2, <1>3, <1>8, <1>9, <1>10, <1>11 DEF TitlesInv

(* Other calls add no title: what an item is called with is its place. *)
LEMMA QuestionsKeepTitles ==
    ASSUME ObjectsTyped, VisitInv, TitlesInv, Visiting(FALSE), UNCHANGED <<titles, sameAs, pending>>,
           NEW new, ToSet(todo') = new \union ToSet(Tail(todo)),
           \A f \in new : f.item # None =>
               \E x \in Places : f.item = ItemAt(x) /\ f.path = Append(x[1], f.item) /\ f.n = x[2]
    PROVE  TitlesInv'
<1>1. /\ ctx' = ctx /\ stage = "visit" /\ stage' = "visit" /\ chosen' = chosen /\ hop' = hop
      /\ ToSet(todo) = {Current} \union ToSet(Tail(todo))
  BY VisitingFacts
<1>2. /\ CallsOfItems /\ TitlesAreOwn /\ NamesAreRight
      /\ hop.item = None /\ DOMAIN sameAs \subseteq ToSet(pending)
  BY <1>1 DEF TitlesInv
<1>3. CallsOfItems'
  <2>1. \A f \in ToSet(todo') : f.item # None =>
            \E x \in Places : f.item = ItemAt(x) /\ f.path = Append(x[1], f.item) /\ f.n = x[2]
    BY <1>1, <1>2 DEF CallsOfItems
  <2>. QED  BY <1>1, <2>1, SamePlaces DEF CallsOfItems
<1>4. TitlesAreOwn' /\ NamesAreRight'
  BY <1>1, <1>2, SamePlaces, SameTitles DEF TitlesAreOwn, NamesAreRight
<1>. QED  BY <1>1, <1>2, <1>3, <1>4 DEF TitlesInv

LEMMA ListsHavePlaces ==
    ASSUME ObjectsTyped, VisitInv, Visiting(FALSE), TypeOf(Current.entity) = "ListQuestion",
           NEW f \in ItemCalls(Current.entity, Current.path, ItemsAt(Current.path))
    PROVE  \E x \in Places : f.item = ItemAt(x) /\ f.path = Append(x[1], f.item) /\ f.n = x[2]
<1>. DEFINE p == Current.path
<1>1. PICK k \in DOMAIN ItemsAt(p) : f = VisitOfItem(Current.entity, p, ItemsAt(p), k)
  BY DEF ItemCalls
<1>2. Current \in ToSet(todo) /\ Current.item = None /\ Current \in VisitCall /\ stage = "visit" /\ Given
  BY VisitingFacts DEF ObjectsTyped
<1>3. LiveCall(Current)
  BY <1>2 DEF VisitInv, LiveCalls
<1>4. p # <<>> /\ Live(p) /\ Last(p) = Current.entity /\ Current.entity \in DOMAIN Entity /\ p \in Seq(STRING)
  BY <1>2, <1>3 DEF LiveCall, VisitCall
<1>. HIDE DEF p
<1>5. HasReply(p, "ItemListReply") /\ ItemsAt(p) = ReplyAt(p).value
  BY <1>1 DEF ItemsAt
<1>6. p \in LiveLists
  BY <1>4, <1>5 DEF LiveLists, IsA, HasReply
<1>7. k \in Nat
  BY <1>1, <1>5, <1>2, <1>4, ItemsAreTyped
<1>8. <<p, k>> \in Places
  BY <1>1, <1>5, <1>6, <1>7 DEF Places
<1>9. f.item = ItemAt(<<p, k>>) /\ f.path = Append(p, f.item) /\ f.n = k
  BY <1>1, <1>5 DEF VisitOfItem, ItemAt
<1>10. f.path = Append(<<p, k>>[1], f.item) /\ f.n = <<p, k>>[2]
  BY <1>9
<1>. QED  BY <1>8, <1>9, <1>10

LEMMA QuestionsAreNoItems == ASSUME NEW S, NEW path PROVE \A f \in VisitCalls(S, path) : f.item = None
BY DEF VisitCalls, VisitsOf, Visit

LEMMA QuestionsGoOn ==
    ASSUME ObjectsTyped, VisitInv, TitlesInv,
           VisitListQuestion \/ VisitOptionsQuestion \/ VisitOtherQuestion
    PROVE  TitlesInv'
<1>1. CASE VisitListQuestion
  <2>1. Visiting(FALSE) /\ UNCHANGED <<titles, sameAs, pending>> /\ TypeOf(Current.entity) = "ListQuestion"
    BY <1>1 DEF VisitListQuestion
  <2>. DEFINE new == ItemCalls(Current.entity, Current.path, ItemsAt(Current.path))
  <2>2. ToSet(todo') = new \union ToSet(Tail(todo))
    BY <1>1, ListCalls
  <2>3. \A f \in new : \E x \in Places : f.item = ItemAt(x) /\ f.path = Append(x[1], f.item) /\ f.n = x[2]
    BY <2>1, ListsHavePlaces
  <2>. HIDE DEF new
  <2>. QED  BY <2>1, <2>2, <2>3, QuestionsKeepTitles
<1>2. CASE VisitOptionsQuestion
  <2>1. Visiting(FALSE) /\ UNCHANGED <<titles, sameAs, pending>>
    BY <1>2 DEF VisitOptionsQuestion
  <2>. DEFINE new == VisitCalls(ToSet(Followed(Current.path)), Current.path)
  <2>2. ToSet(todo') = new \union ToSet(Tail(todo))
    BY <1>2, OptionsCalls
  <2>3. \A f \in new : f.item = None
    BY QuestionsAreNoItems
  <2>. HIDE DEF new
  <2>. QED  BY <2>1, <2>2, <2>3, QuestionsKeepTitles
<1>3. CASE VisitOtherQuestion
  <2>1. Visiting(FALSE) /\ UNCHANGED <<titles, sameAs, pending>> /\ todo' = Tail(todo)
    BY <1>3 DEF VisitOtherQuestion
  <2>. DEFINE new == {}
  <2>2. ToSet(todo') = new \union ToSet(Tail(todo)) /\ \A f \in new : FALSE
    BY <2>1
  <2>. HIDE DEF new
  <2>. QED  BY <2>1, <2>2, QuestionsKeepTitles
<1>. QED  BY <1>1, <1>2, <1>3

(* No title is there when the visit begins. *)
LEMMA TitlesBegin == ASSUME ObjectsTyped, TitlesInv, StartVisit PROVE TitlesInv'
<1>1. /\ stage = "project" /\ stage' = "visit" /\ Loaded
      /\ UNCHANGED <<titles, sameAs, pending, hop>>
  BY DEF StartVisit, titleVars, Loaded
<1>2. titles = <<>> /\ sameAs = <<>> /\ pending = <<>> /\ hop.item = None
  BY <1>1 DEF TitlesInv, ObjectsTyped, TitlesTyped
<1>3. DOMAIN titles' = {} /\ DOMAIN sameAs' = {} /\ hop'.item = None
  BY <1>1, <1>2
<1>4. \A f \in ToSet(todo') : f.item = None
  <2>1. \A f \in VisitCalls(ToSet(Chapters), <<>>) : f.item = None
    BY QuestionsAreNoItems
  <2>. QED  BY <2>1, StartVisitCalls
<1>5. CallsOfItems'
  BY <1>4 DEF CallsOfItems
<1>6. TitlesAreOwn' /\ NamesAreRight'
  BY <1>3 DEF TitlesAreOwn, NamesAreRight
<1>. QED  BY <1>1, <1>3, <1>5, <1>6 DEF TitlesInv

LEMMA SameChains ==
    ASSUME sameAs' = sameAs
    PROVE  \A item : ChainEnd(item)' = ChainEnd(item) /\ Cyclic(item)' = Cyclic(item)
BY DEF ChainEnd, Cyclic

(* When the visit is over, every item that names another one waits. *)
LEMMA TitlesWait == ASSUME ObjectsTyped, TitlesInv, StartTitles PROVE TitlesInv'
<1>1. /\ stage = "visit" /\ stage' = "titles" /\ ctx' = ctx
      /\ UNCHANGED <<titles, sameAs, pending, hop, chosen>>
  BY DEF StartTitles, titleVars, replyVars
<1>2. TitlesAreOwn /\ NamesAreRight /\ hop.item = None /\ DOMAIN sameAs \subseteq ToSet(pending)
  BY <1>1 DEF TitlesInv
<1>3. NamesAreRight'
  BY <1>1, <1>2, SamePlaces DEF NamesAreRight
<1>4. TitlesAreRight'
  <2>1. \A x \in Places : ItemAt(x) \in DOMAIN titles =>
            /\ titles[ItemAt(x)] = OwnTitle(x)
            /\ ItemAt(x) \in DOMAIN sameAs => ItemAt(x) \in ToSet(pending)
    BY <1>2 DEF TitlesAreOwn
  <2>2. \A x \in Places' : ItemAt(x)' \in DOMAIN titles' =>
            /\ titles'[ItemAt(x)'] = OwnTitle(x)'
            /\ ItemAt(x)' \in DOMAIN sameAs' => ItemAt(x)' \in ToSet(pending')
    BY <1>1, <2>1, SamePlaces, SameTitles
  <2>. QED  BY <2>2 DEF TitlesAreRight, TitleIsRight, Waits
<1>5. HopMet'
  BY <1>1, <1>2 DEF HopMet
<1>. QED  BY <1>1, <1>3, <1>4, <1>5 DEF TitlesInv

(* A step that changes no title and lets the same items wait. *)
LEMMA TitlesStay ==
    ASSUME ctx' = ctx, chosen' = chosen, titles' = titles, sameAs' = sameAs,
           \A item : item # None /\ Waits(item) => Waits(item)', Given, TitlesAreRight
    PROVE  TitlesAreRight'
<1>1. /\ Places' = Places
      /\ \A x : ItemAt(x)' = ItemAt(x) /\ OwnTitle(x)' = OwnTitle(x)
      /\ \A item : ChainEnd(item)' = ChainEnd(item) /\ (Cyclic(item)' <=> Cyclic(item))
  BY SamePlaces, SameTitles, SameChains
<1>2. \A x \in Places : TitleIsRight(x) => TitleIsRight(x)'
  <2>. TAKE x \in Places
  <2>1. PICK i : i = ItemAt(x) /\ i # None
    BY PlaceFacts
  <2>2. TitleIsRight(x) <=>
          /\ i \notin DOMAIN sameAs => titles[i] = OwnTitle(x)
          /\ i \in DOMAIN sameAs /\ ~Cyclic(i) =>
              \/ Waits(i) /\ titles[i] = OwnTitle(x)
              \/ ChainEnd(i) \in DOMAIN titles /\ titles[i] = titles[ChainEnd(i)]
              \/ ChainEnd(i) \notin DOMAIN titles /\ titles[i] = OwnTitle(x)
    BY <2>1 DEF TitleIsRight
  <2>3. TitleIsRight(x)' <=>
          /\ i \notin DOMAIN sameAs => titles[i] = OwnTitle(x)
          /\ i \in DOMAIN sameAs /\ ~Cyclic(i) =>
              \/ Waits(i)' /\ titles[i] = OwnTitle(x)
              \/ ChainEnd(i) \in DOMAIN titles /\ titles[i] = titles[ChainEnd(i)]
              \/ ChainEnd(i) \notin DOMAIN titles /\ titles[i] = OwnTitle(x)
    BY <1>1, <2>1 DEF TitleIsRight
  <2>. QED  BY <2>1, <2>2, <2>3
<1>. QED  BY <1>1, <1>2 DEF TitlesAreRight

LEMMA ItemsArePopped == ASSUME ObjectsTyped, TitlesInv, PopItem PROVE TitlesInv'
<1>1. /\ stage = "titles" /\ stage' = "titles" /\ ctx' = ctx /\ hop.item = None /\ pending # <<>>
      /\ UNCHANGED <<titles, sameAs, chosen>>
      /\ hop' = [item |-> Last(pending), at |-> Last(pending), met |-> {Last(pending)}]
      /\ pending' = Front(pending) /\ Loaded
  BY DEF PopItem, replyVars, Loaded
<1>2. NamesAreRight /\ TitlesAreRight /\ pending \in Seq(DOMAIN sameAs)
  BY <1>1 DEF TitlesInv, ObjectsTyped, TitlesTyped
<1>3. ToSet(pending) = ToSet(pending') \union {hop'.item}
  BY <1>1, <1>2, FrontAndLast
<1>4. \A item : item # None /\ Waits(item) => Waits(item)'
  BY <1>1, <1>3 DEF Waits
<1>5. TitlesAreRight'
  BY <1>1, <1>2, <1>4, TitlesStay DEF ObjectsTyped
<1>6. NamesAreRight'
  BY <1>1, <1>2, SamePlaces DEF NamesAreRight
<1>7. HopMet'
  BY <1>1 DEF HopMet
<1>. QED  BY <1>1, <1>5, <1>6, <1>7 DEF TitlesInv

LEMMA ChainsAreFollowed == ASSUME ObjectsTyped, TitlesInv, FollowSameAs PROVE TitlesInv'
<1>1. /\ stage = "titles" /\ stage' = "titles" /\ ctx' = ctx /\ hop.item # None
      /\ hop.at \in DOMAIN sameAs
      /\ UNCHANGED <<titles, sameAs, pending, chosen>>
  BY DEF FollowSameAs, ChainGoesOn, replyVars
<1>2. NamesAreRight /\ TitlesAreRight /\ HopMet /\ Given
  BY <1>1 DEF TitlesInv, ObjectsTyped
<1>3. /\ DOMAIN hop' = {"item", "at", "met"} /\ hop'.item = hop.item /\ hop'.at = sameAs[hop.at]
      /\ hop'.met = hop.met \union {sameAs[hop.at]}
  <2>1. hop' = [hop EXCEPT !.at = sameAs[hop.at], !.met = hop.met \union {sameAs[hop.at]}]
    BY DEF FollowSameAs
  <2>2. DOMAIN hop = {"item", "at", "met"}
    BY <1>1, <1>2 DEF HopMet
  <2>. QED  BY <2>1, <2>2
<1>4. TitlesAreRight'
  <2>1. \A item : Waits(item) => Waits(item)'
    BY <1>1, <1>3 DEF Waits
  <2>. QED  BY <1>1, <1>2, <2>1, TitlesStay
<1>5. NamesAreRight'
  BY <1>1, <1>2, SamePlaces DEF NamesAreRight
<1>6. HopMet'
  <2>1. /\ hop.item \in hop.met /\ hop.at \in hop.met
        /\ \A y \in hop.met : y = hop.at \/ (y \in DOMAIN sameAs /\ sameAs[y] \in hop.met)
    BY <1>1, <1>2 DEF HopMet
  <2>2. \A y \in hop'.met : y = hop'.at \/ (y \in DOMAIN sameAs /\ sameAs[y] \in hop'.met)
    BY <1>1, <1>3, <2>1
  <2>. QED  BY <1>1, <1>3, <2>1, <2>2 DEF HopMet
<1>. QED  BY <1>1, <1>4, <1>5, <1>6 DEF TitlesInv

(* The item whose chain has been followed gets the title of its end, and   *)
(* the ends of other chains keep theirs.                                   *)
LEMMA TitlesAreCopied == ASSUME ObjectsTyped, TitlesInv, CopyTitle PROVE TitlesInv'
<1>1. /\ stage = "titles" /\ stage' = "titles" /\ ctx' = ctx /\ hop.item # None /\ ~ChainGoesOn
      /\ hop' = Nowhere
      /\ UNCHANGED <<sameAs, pending, chosen>> /\ Loaded
  BY DEF CopyTitle, replyVars, Loaded
<1>2. /\ NamesAreRight /\ TitlesAreRight /\ HopMet /\ Given
      /\ hop.item \in DOMAIN sameAs /\ DOMAIN sameAs \subseteq DOMAIN titles
  BY <1>1 DEF TitlesInv, ObjectsTyped, TitlesTyped
<1>3. hop'.item = None
  BY <1>1 DEF Nowhere
<1>4. PICK h, a : h = hop.item /\ a = hop.at
  OBVIOUS
<1>5. ~Cyclic(h) => a = ChainEnd(h)
  <2>. HAVE ~Cyclic(h)
  <2>. DEFINE met == hop.met
  <2>1. h \in met /\ a \in met /\ \A y \in met : y = a \/ (y \in DOMAIN sameAs /\ sameAs[y] \in met)
    BY <1>1, <1>2, <1>4 DEF HopMet
  <2>2. NextOf(a) \in met
    BY <1>1, <1>4, <2>1 DEF ChainGoesOn, NextOf
  <2>. HIDE DEF met
  <2>. QED  BY <2>1, <2>2, ChainIsFollowed
<1>6. /\ DOMAIN titles' = DOMAIN titles
      /\ \A i \in DOMAIN titles : i # h => titles'[i] = titles[i]
      /\ titles'[h] = IF a \in DOMAIN titles THEN titles[a] ELSE titles[h]
  <2>1. titles' = IF a \in DOMAIN titles THEN Put(titles, h, titles[a]) ELSE titles
    BY <1>4 DEF CopyTitle
  <2>2. h \in DOMAIN titles
    BY <1>2, <1>4
  <2>3. CASE a \in DOMAIN titles
    <3>1. titles' = [x \in DOMAIN titles |-> IF x = h THEN titles[a] ELSE titles[x]]
      BY <2>1, <2>2, <2>3 DEF Put
    <3>. QED  BY <2>2, <2>3, <3>1
  <2>4. CASE a \notin DOMAIN titles
    BY <2>1, <2>4
  <2>. QED  BY <2>3, <2>4
<1>7. ASSUME NEW x \in Places, ItemAt(x) \in DOMAIN titles  PROVE TitleIsRight(x)'
  <2>1. PICK i : i = ItemAt(x) /\ i # None /\ i \in DOMAIN titles
    BY <1>2, <1>7, PlaceFacts
  <2>2. /\ i \notin DOMAIN sameAs => titles[i] = OwnTitle(x)
        /\ i \in DOMAIN sameAs /\ ~Cyclic(i) =>
              \/ (i \in ToSet(pending) \/ i = h) /\ titles[i] = OwnTitle(x)
              \/ ChainEnd(i) \in DOMAIN titles /\ titles[i] = titles[ChainEnd(i)]
              \/ ChainEnd(i) \notin DOMAIN titles /\ titles[i] = OwnTitle(x)
    BY <1>2, <1>4, <1>7, <2>1 DEF TitlesAreRight, TitleIsRight, Waits
  <2>3. h \in DOMAIN sameAs /\ (~Cyclic(i) => ChainEnd(i) # h)
    BY <1>2, <1>4 DEF Cyclic
  <2>4. /\ i \notin DOMAIN sameAs => titles'[i] = OwnTitle(x)
        /\ i \in DOMAIN sameAs /\ ~Cyclic(i) =>
              \/ i \in ToSet(pending) /\ titles'[i] = OwnTitle(x)
              \/ ChainEnd(i) \in DOMAIN titles /\ titles'[i] = titles'[ChainEnd(i)]
              \/ ChainEnd(i) \notin DOMAIN titles /\ titles'[i] = OwnTitle(x)
    <3>1. CASE i # h
      BY <1>6, <2>1, <2>2, <2>3, <3>1
    <3>2. CASE i = h
      BY <1>5, <1>6, <2>1, <2>2, <2>3, <3>2
    <3>. QED  BY <3>1, <3>2
  <2>5. /\ ItemAt(x)' = i /\ OwnTitle(x)' = OwnTitle(x)
        /\ ChainEnd(i)' = ChainEnd(i) /\ (Cyclic(i)' <=> Cyclic(i))
    BY <1>1, <2>1, SamePlaces, SameTitles, SameChains
  <2>6. TitleIsRight(x)' <=>
          /\ i \notin DOMAIN sameAs => titles'[i] = OwnTitle(x)
          /\ i \in DOMAIN sameAs /\ ~Cyclic(i) =>
              \/ Waits(i)' /\ titles'[i] = OwnTitle(x)
              \/ ChainEnd(i) \in DOMAIN titles /\ titles'[i] = titles'[ChainEnd(i)]
              \/ ChainEnd(i) \notin DOMAIN titles /\ titles'[i] = OwnTitle(x)
    BY <1>1, <1>6, <2>5 DEF TitleIsRight
  <2>7. i \in ToSet(pending) => Waits(i)'
    BY <1>1 DEF Waits
  <2>. QED  BY <2>4, <2>6, <2>7
<1>8. TitlesAreRight'
  BY <1>1, <1>6, <1>7, SamePlaces DEF TitlesAreRight
<1>9. NamesAreRight'
  BY <1>1, <1>2, <1>6, SamePlaces DEF NamesAreRight
<1>10. HopMet'
  BY <1>3 DEF HopMet
<1>. QED  BY <1>1, <1>8, <1>9, <1>10 DEF TitlesInv

LEMMA TitlesAreShown == ASSUME ObjectsTyped, TitlesInv, ShowTitles PROVE TitlesInv'
<1>1. /\ stage = "titles" /\ stage' = "built" /\ ctx' = ctx /\ hop.item = None /\ pending = <<>>
      /\ UNCHANGED <<titles, sameAs, pending, hop, chosen>>
  BY DEF ShowTitles, replyVars
<1>2. NamesAreRight /\ TitlesAreRight /\ HopMet /\ Given
  BY <1>1 DEF TitlesInv, ObjectsTyped
<1>3. TitlesAreRight'
  BY <1>1, <1>2, TitlesStay DEF Waits
<1>4. NamesAreRight'
  BY <1>1, <1>2, SamePlaces DEF NamesAreRight
<1>5. HopMet'
  BY <1>1 DEF HopMet
<1>6. ShownIsRight'
  <2>1. \A p : Named(ReplyAt(p))' = Named(ReplyAt(p))
    BY <1>1, SameLive DEF Named
  <2>2. ASSUME NEW p \in DOMAIN shown', Named(ReplyAt(p)) \in DOMAIN titles
        PROVE  shown'[p] = titles[Named(ReplyAt(p))]
    BY <2>2 DEF ShowTitles
  <2>. QED  BY <1>1, <2>1, <2>2 DEF ShownIsRight
<1>. QED  BY <1>1, <1>3, <1>4, <1>5, <1>6 DEF TitlesInv

LEMMA TitlesStep ==
    ASSUME ObjectsTyped, VisitInv, TitlesInv, ItemsAreOnce, [Next]_vars
    PROVE  TitlesInv'
<1>0. ctx' = ctx
  BY ContextStays
<1>1. CASE Load
  <2>1. stage' \in {"loaded", "invalid"} /\ sameAs' = <<>> /\ pending' = <<>> /\ hop'.item = None
    BY <1>1 DEF Load, Nowhere
  <2>. QED  BY <2>1 DEF TitlesInv
<1>2. CASE ResolveModel \/ ResolveEntity \/ ResolveQuestion \/ ResolveFileQuestion
           \/ ResolveReport \/ ResolveReply
  <2>1. /\ stage \in {"loaded", "model", "project"} /\ stage' \in {"model", "project"}
        /\ UNCHANGED <<sameAs, pending, hop>>
    BY <1>2 DEF ResolveModel, ResolveEntity, ResolveQuestion, ResolveFileQuestion, Enter,
       ResolveReport, ResolveReply, titleVars
  <2>. QED  BY <2>1 DEF TitlesInv
<1>3. CASE ExtractionNext \/ ForgetObjects
  <2>1. stage' \in {"new", "extract", "extracted"}
    BY <1>3 DEF ExtractionNext, StartExtraction, ExtractChapter, ExtractReply, ExtractChoices, ExtractAnswer,
       ExtractItems, Extracting, FinishExtraction, ForgetObjects
  <2>. QED  BY <2>1 DEF TitlesInv
<1>4. CASE UNCHANGED objectVars
  <2>1. UNCHANGED <<stage, todo, chosen, titles, sameAs, pending, hop, shown>>
    BY <1>4 DEF objectVars, contextVars, replyVars, titleVars
  <2>2. CallsOfItems => CallsOfItems'
    BY <1>0, <2>1, SamePlaces DEF CallsOfItems
  <2>3. (TitlesAreOwn => TitlesAreOwn') /\ (NamesAreRight => NamesAreRight')
    BY <1>0, <2>1, SamePlaces, SameTitles DEF TitlesAreOwn, NamesAreRight
  <2>4. TitlesAreRight => TitlesAreRight'
    BY <1>0, <2>1, TitlesStay DEF Waits, ObjectsTyped
  <2>5. HopMet => HopMet'
    BY <2>1 DEF HopMet
  <2>6. ShownIsRight => ShownIsRight'
    BY <1>0, <2>1, SameLive DEF ShownIsRight, Named
  <2>. QED  BY <2>1, <2>2, <2>3, <2>4, <2>5, <2>6 DEF TitlesInv
<1>. QED
  BY <1>1, <1>2, <1>3, <1>4, TitlesBegin, QuestionsGoOn, ItemsGetTitles, TitlesWait, ItemsArePopped,
     ChainsAreFollowed, TitlesAreCopied, TitlesAreShown, ObjectSteps DEF ObjectStep, ContextNext

LEMMA TitlesInit == ASSUME BuildInit PROVE TitlesInv
BY DEF BuildInit, ContextInit, TitlesInv

(* What an item names has the title of the end of the chain too. *)
LEMMA TitlesAreEqual == ASSUME ObjectsTyped, VisitInv, TitlesInv PROVE TitlesAgree
<1>. SUFFICES ASSUME stage = "built", NEW p \in LiveLists, NEW k \in DOMAIN ReplyAt(p).value,
                     ~Cyclic(ReplyAt(p).value[k])
     PROVE  LET item  == ReplyAt(p).value[k]
                first == FirstReply(p, item)
            IN  \/ /\ Names(first) # None
                   /\ ChainEnd(item) \in DOMAIN titles
                   /\ titles[item] = titles[Names(first)]
                   /\ first \in DOMAIN shown => shown[first] = titles[item]
                \/ /\ Names(first) # None => ChainEnd(item) \notin DOMAIN titles
                   /\ titles[item] =
                         IF first \in Paths /\ HasDirectTitle(ReplyAt(first))
                         THEN DirectTitle(first) ELSE Numbered(k)
  BY DEF TitlesAgree
<1>1. /\ NamesAreRight /\ TitlesAreRight /\ ShownIsRight /\ Given
      /\ pending = <<>> /\ hop.item = None /\ DOMAIN titles = LiveItems
      /\ DOMAIN sameAs \subseteq DOMAIN titles
  BY DEF TitlesInv, ObjectsTyped, VisitInv, Loaded, TitlesTyped
<1>. DEFINE x == <<p, k>>
            item == ReplyAt(p).value[k]
            first == FirstReply(p, item)
            y == Names(first)
<1>2. k \in Nat
  BY <1>1, ReplyFacts DEF LiveLists
<1>3. x \in Places /\ ItemAt(x) = item /\ FirstAt(x) = first /\ NamedAt(x) = y
  BY <1>2 DEF Places, ItemAt, FirstAt, NamedAt
<1>4. OwnTitle(x) = IF first \in Paths /\ HasDirectTitle(ReplyAt(first)) THEN DirectTitle(first) ELSE Numbered(k)
  BY <1>3 DEF OwnTitle
<1>5. ~Cyclic(item)
  OBVIOUS
<1>6. \A z \in Places :
         /\ ItemAt(z) \in DOMAIN titles
         /\ (ItemAt(z) \in DOMAIN sameAs <=> NamedAt(z) # None)
         /\ ItemAt(z) \in DOMAIN sameAs => sameAs[ItemAt(z)] = NamedAt(z)
         /\ ItemAt(z) \notin DOMAIN sameAs => titles[ItemAt(z)] = OwnTitle(z)
         /\ ItemAt(z) \in DOMAIN sameAs /\ ~Cyclic(ItemAt(z)) =>
              IF ChainEnd(ItemAt(z)) \in DOMAIN titles
              THEN titles[ItemAt(z)] = titles[ChainEnd(ItemAt(z))]
              ELSE titles[ItemAt(z)] = OwnTitle(z)
  <2>. TAKE z \in Places
  <2>1. PICK i : i = ItemAt(z)
    OBVIOUS
  <2>2. i # None /\ i \in DOMAIN titles
    BY <1>1, <2>1, PlaceFacts
  <2>3. ~Waits(i)
    BY <1>1, <2>2 DEF Waits, ToSet
  <2>4. TitleIsRight(z) /\ (i \in DOMAIN sameAs <=> NamedAt(z) # None)
        /\ (i \in DOMAIN sameAs => sameAs[i] = NamedAt(z))
    BY <1>1, <2>1, <2>2 DEF TitlesAreRight, NamesAreRight
  <2>. QED  BY <2>1, <2>2, <2>3, <2>4 DEF TitleIsRight
<1>10. /\ item \in DOMAIN titles
       /\ (item \in DOMAIN sameAs <=> y # None)
       /\ item \in DOMAIN sameAs => sameAs[item] = y
       /\ item \notin DOMAIN sameAs => titles[item] = OwnTitle(x)
       /\ item \in DOMAIN sameAs /\ ~Cyclic(item) =>
            IF ChainEnd(item) \in DOMAIN titles
            THEN titles[item] = titles[ChainEnd(item)]
            ELSE titles[item] = OwnTitle(x)
  <2>. HIDE DEF item, y, x
  <2>. QED  BY <1>3, <1>6
<1>. HIDE DEF item, first, x
<1>7. CASE item \notin DOMAIN sameAs
  <2>1. y = None /\ titles[item] = OwnTitle(x)
    BY <1>7, <1>10
  <2>. QED  BY <1>4, <2>1 DEF item, first
<1>8. CASE item \in DOMAIN sameAs /\ ChainEnd(item) \notin DOMAIN titles
  <2>1. titles[item] = OwnTitle(x)
    BY <1>5, <1>8, <1>10
  <2>. QED  BY <1>4, <1>8, <2>1 DEF item, first
<1>9. CASE item \in DOMAIN sameAs /\ ChainEnd(item) \in DOMAIN titles
  <2>1. y # None /\ NextOf(item) = y /\ titles[item] = titles[ChainEnd(item)]
    BY <1>5, <1>9, <1>10 DEF NextOf
  <2>2. ChainEnd(y) = ChainEnd(item)
    BY <1>5, <2>1, ChainIsShared
  <2>3. y \in DOMAIN titles /\ titles[y] = titles[ChainEnd(item)]
    <3>. PICK n : n = y
      OBVIOUS
    <3>1. CASE n \in DOMAIN sameAs
      <4>1. n \in LiveItems
        BY <1>1, <3>1
      <4>2. PICK z \in Places : ItemAt(z) = n
        BY <1>1, <4>1, LiveItemsHavePlaces
      <4>3. ~Cyclic(n)
        BY <1>5, <2>2 DEF Cyclic
      <4>. QED  BY <1>6, <1>9, <2>2, <3>1, <4>2, <4>3
    <3>2. CASE n \notin DOMAIN sameAs
      <4>1. \A z \in {n} : NextOf(z) \in {n}
        BY <3>2 DEF NextOf
      <4>2. ChainEnd(n) = n
        BY <4>1, ChainStaysIn
      <4>. QED  BY <1>9, <2>2, <4>2
    <3>. QED  BY <3>1, <3>2
  <2>4. first \in DOMAIN shown => shown[first] = titles[item]
    <3>1. y = Named(ReplyAt(first))
      BY <2>1 DEF Names
    <3>. QED  BY <1>1, <2>1, <2>3, <3>1 DEF ShownIsRight
  <2>. QED  BY <1>9, <2>1, <2>3, <2>4 DEF item, first
<1>. QED  BY <1>7, <1>8, <1>9

(* Items that name one another have one title, that of the item at the end *)
(* of the chain, if every item is an element of one list (the server gives *)
(* each item a uuid of its own).                                           *)
THEOREM TitlesCorrect == Spec => [](ItemsAreOnce => TitlesAgree)
<1>. DEFINE IInv == ObjectsTyped /\ ModelInv /\ VisitInv /\ (ItemsAreOnce => TitlesInv)
<1>1. BuildInit => IInv
  BY ObjectsInit, ModelInit, VisitInit, TitlesInit
<1>2. IInv /\ [Next]_vars => IInv'
  <2>. SUFFICES ASSUME IInv, [Next]_vars PROVE IInv'
    OBVIOUS
  <2>1. ObjectsTyped' /\ ModelInv' /\ VisitInv'
    BY ObjectsTypedStep, ModelStep, VisitStep
  <2>2. ItemsAreOnce' => ItemsAreOnce
    BY ContextStays, SamePlaces
  <2>3. ItemsAreOnce' => TitlesInv'
    BY <2>2, TitlesStep
  <2>. QED  BY <2>1, <2>3
<1>3. IInv => (ItemsAreOnce => TitlesAgree)
  BY TitlesAreEqual
<1>. QED  BY <1>1, <1>2, <1>3, PTL DEF Spec

-----------------------------------------------------------------------------
(* The replies that are extracted                                          *)
(*                                                                         *)
(* The inductive invariant: the extractor is only on paths that lead from  *)
(* a chapter to what it looks at, and knows the object they belong to;     *)
(* what it has written is the worth of a reply that belongs there; and of  *)
(* every reply to be extracted, a call that is still to be made is on the  *)
(* path to it, or its value is in its place. In a tree no other question   *)
(* of one object can take that place.                                      *)

(* In what the model leads to, everything is listed once: the knowledge    *)
(* model is a tree; and a reply answers a question by one of its answers.  *)
ListedOnce == \A d, e \in InModel : ToSet(Children(d)) \intersect ToSet(Children(e)) # {} => d = e
AnswersAreListed ==
    \A p \in Paths : \A a \in InModel :
        HasReply(p, "AnswerReply") /\ IsA(Last(p), {"OptionsQuestion"})
            /\ ReplyAt(p).value = <<a>> /\ IsA(a, {"Answer"})
        => a \in ToSet(Children(Last(p)))
IsTree == ListedOnce /\ AnswersAreListed

Passable(path) == \A n \in 2..Len(path) : path[n] \in Items => KeyOf(path[n - 1]) # None

(* An extraction is on a live path, in the object that the path belongs to. *)
RightCall(f) ==
    /\ f.path # <<>> /\ Last(f.path) = f.entity
    /\ Live(f.path) /\ Passable(f.path)
    /\ f.at = HomeOf(f.path)
    /\ TypeOf(f.entity) \in QuestionTypes \/ (TypeOf(f.entity) = "Chapter" /\ f.path = <<f.entity>>)

Recorded(p) ==
    /\ HomeOf(p) \in DOMAIN extracted
    /\ IsOnlyOne(Last(p)) =>
          /\ KeyOf(Last(p)) \in DOMAIN extracted[HomeOf(p)]
          /\ extracted[HomeOf(p)][KeyOf(Last(p))] = Worth(p)

Rightful(o, name, value) ==
    \/ value = <<>>
    \/ o = Root /\ value \in {<<<<c>>>> : c \in Of({"Chapter"})}
    \/ \E p \in Extractable : HomeOf(p) = o /\ KeyOf(Last(p)) = name /\ Worth(p) = value

ValuesAreRight ==
    \A o \in DOMAIN extracted : \A name \in DOMAIN extracted[o] : Rightful(o, name, extracted[o][name])
CallsAreRight == \A f \in ToSet(todo) : RightCall(f) /\ f.at \in DOMAIN extracted
RepliesComing == \A p \in Extractable : Coming(p) \/ Recorded(p)

ExtractInv ==
    /\ stage = "extract" => CallsAreRight /\ RepliesComing
    /\ stage \in {"extract", "extracted"} => ValuesAreRight
    /\ stage = "extracted" => \A p \in Extractable : Recorded(p)

LEMMA GreatestNumber ==
    ASSUME NEW m \in Nat, NEW T, T \subseteq 1..m, T # {}
    PROVE  Max(T) \in T
<1>. DEFINE Bounds == {n \in Nat : \A k \in T : k <= n}
<1>1. m \in Bounds /\ Bounds \subseteq Nat
  OBVIOUS
<1>2. PICK n \in Bounds : \A k \in Bounds : n <= k
  BY <1>1, LeastNumber
<1>3. n \in T
  <2>. SUFFICES ASSUME n \notin T  PROVE FALSE
    OBVIOUS
  <2>1. PICK k \in T : TRUE
    OBVIOUS
  <2>2. n \in Nat /\ k \in 1..m /\ k <= n
    BY <1>2, <2>1
  <2>3. n - 1 \in Nat
    BY <2>2
  <2>4. \A i \in T : i <= n - 1
    <3>. TAKE i \in T
    <3>1. i \in 1..m /\ i <= n /\ i # n
      BY <1>2
    <3>. QED  BY <2>2, <3>1
  <2>5. n - 1 \in Bounds
    BY <2>3, <2>4
  <2>. QED  BY <1>2, <2>2, <2>5
<1>4. \A k \in T : n >= k
  BY <1>2
<1>. QED  BY <1>3, <1>4 DEF Max

LEMMA GreatestIs ==
    ASSUME NEW T, T \subseteq Nat, NEW m \in T, \A k \in T : m >= k
    PROVE  Max(T) = m
<1>1. \E x \in T : \A k \in T : x >= k
  OBVIOUS
<1>2. Max(T) \in T /\ \A k \in T : Max(T) >= k
  BY <1>1, Zenon DEF Max
<1>3. Max(T) >= m /\ m >= Max(T) /\ Max(T) \in Nat /\ m \in Nat
  BY <1>2
<1>. QED  BY <1>3

LEMMA SameBeginning ==
    ASSUME NEW s \in Seq(STRING), NEW t \in Seq(STRING), Begins(s, t), NEW n \in 0..Len(s)
    PROVE  SubSeq(t, 1, n) = SubSeq(s, 1, n)
<1>. DEFINE u == SubSeq(s, 1, n)
<1>1. u \in Seq(STRING) /\ Len(u) = n /\ \A i \in 1..n : u[i] = s[i]
  OBVIOUS
<1>. HIDE DEF u
<1>2. Begins(u, t)
  BY <1>1 DEF Begins
<1>3. SubSeq(t, 1, n) = u
  BY <1>1, <1>2, BeginningOf
<1>. QED  BY <1>3 DEF u

HomesOn(s) == {n \in 1..Len(s) - 1 : MakesObject(SubSeq(s, 1, n))}

LEMMA HomeIsLast ==
    ASSUME NEW s \in Seq(STRING), s # <<>>
    PROVE  /\ HomesOn(s) \subseteq 1..Len(s) - 1
           /\ \A n \in 1..Len(s) - 1 : n \in HomesOn(s) <=> MakesObject(SubSeq(s, 1, n))
           /\ HomesOn(s) = {} => HomeOf(s) = Root
           /\ HomesOn(s) # {} => /\ HomeOf(s) = SubSeq(s, 1, Max(HomesOn(s)))
                                 /\ Max(HomesOn(s)) \in HomesOn(s)
<1>1. Len(s) - 1 \in Nat
  OBVIOUS
<1>2. HomesOn(s) \subseteq 1..Len(s) - 1
  BY DEF HomesOn
<1>3. HomesOn(s) # {} => Max(HomesOn(s)) \in HomesOn(s)
  BY <1>1, <1>2, GreatestNumber
<1>4. HomeOf(s) = IF HomesOn(s) = {} THEN Root ELSE SubSeq(s, 1, Max(HomesOn(s)))
  BY DEF HomeOf, HomesOn
<1>. QED  BY <1>2, <1>3, <1>4 DEF HomesOn

(* The object that a longer path belongs to is that of the path, unless    *)
(* the path makes an object itself.                                        *)
LEMMA HomeGrows ==
    ASSUME NEW s \in Seq(STRING), s # <<>>, NEW x \in STRING
    PROVE  HomeOf(Append(s, x)) = IF MakesObject(s) THEN s ELSE HomeOf(s)
<1>. DEFINE a == Append(s, x)
<1>1. a \in Seq(STRING) /\ Begins(s, a) /\ Len(a) = Len(s) + 1 /\ a # <<>>
  BY AppendFacts
<1>. HIDE DEF a
<1>2. Len(s) \in Nat \ {0} /\ SubSeq(s, 1, Len(s)) = s
  OBVIOUS
<1>3. \A n \in 1..Len(s) : SubSeq(a, 1, n) = SubSeq(s, 1, n)
  BY <1>1, SameBeginning
<1>4. /\ HomesOn(a) \subseteq 1..Len(s)
      /\ \A n \in 1..Len(s) : n \in HomesOn(a) <=> MakesObject(SubSeq(s, 1, n))
  <2>1. Len(a) - 1 = Len(s)
    BY <1>1, <1>2
  <2>. QED  BY <1>1, <1>3, <2>1, HomeIsLast
<1>5. CASE MakesObject(s)
  <2>1. Len(s) \in HomesOn(a)
    <3>1. MakesObject(SubSeq(s, 1, Len(s)))
      BY <1>2, <1>5
    <3>2. Len(s) \in 1..Len(s)
      BY <1>2
    <3>. QED  BY <1>4, <3>1, <3>2, Zenon
  <2>2. Max(HomesOn(a)) = Len(s)
    <3>1. \A k \in HomesOn(a) : Len(s) >= k
      BY <1>2, <1>4
    <3>2. HomesOn(a) \subseteq Nat
      BY <1>2, <1>4
    <3>. QED  BY <2>1, <3>1, <3>2, GreatestIs, Zenon
  <2>3. HomeOf(a) = SubSeq(a, 1, Len(s))
    BY <1>1, <2>1, <2>2, HomeIsLast
  <2>4. SubSeq(a, 1, Len(s)) = s
    BY <1>2, <1>3
  <2>. QED  BY <1>5, <2>3, <2>4 DEF a
<1>6. CASE ~MakesObject(s)
  <2>1. HomesOn(a) = HomesOn(s)
    <3>1. Len(s) \notin HomesOn(a)
      BY <1>2, <1>4, <1>6
    <3>2. \A n : n \in 1..Len(s) /\ n # Len(s) <=> n \in 1..Len(s) - 1
      BY <1>2
    <3>. QED  BY <1>4, <3>1, <3>2, HomeIsLast
  <2>2. HomesOn(s) # {} => Max(HomesOn(s)) \in 1..Len(s)
    BY <1>4, <2>1, HomeIsLast
  <2>3. HomeOf(a) = HomeOf(s)
    BY <1>1, <1>3, <2>1, <2>2, HomeIsLast
  <2>. QED  BY <1>6, <2>3 DEF a
<1>. QED  BY <1>5, <1>6

(* A path begins with the object that it belongs to.                       *)
LEMMA HomeBegins ==
    ASSUME NEW s \in Seq(STRING), s # <<>>
    PROVE  /\ HomeOf(s) \in Seq(STRING) /\ Begins(HomeOf(s), s) /\ Len(HomeOf(s)) < Len(s)
           /\ HomeOf(s) # Root => MakesObject(HomeOf(s))
<1>1. Len(s) \in Nat \ {0}
  OBVIOUS
<1>2. CASE HomesOn(s) = {}
  <2>1. HomeOf(s) = <<>> /\ Len(<<>>) = 0 /\ <<>> \in Seq(STRING)
    BY <1>2, HomeIsLast DEF Root
  <2>. QED  BY <1>1, <2>1 DEF Begins, Root
<1>3. CASE HomesOn(s) # {}
  <2>1. PICK n \in 1..Len(s) - 1 : HomeOf(s) = SubSeq(s, 1, n) /\ MakesObject(SubSeq(s, 1, n))
    BY <1>3, HomeIsLast
  <2>. DEFINE u == SubSeq(s, 1, n)
  <2>2. u \in Seq(STRING) /\ Len(u) = n /\ \A i \in 1..n : u[i] = s[i]
    BY <1>1
  <2>. HIDE DEF u
  <2>3. HomeOf(s) = u /\ MakesObject(u)
    BY <2>1 DEF u
  <2>. QED  BY <1>1, <2>2, <2>3 DEF Begins
<1>. QED  BY <1>2, <1>3

(* The home of a chapter is the root.                                      *)
LEMMA HomeOfFirst == ASSUME NEW c PROVE HomeOf(<<c>>) = Root
<1>1. Len(<<c>>) - 1 = 0
  OBVIOUS
<1>2. {n \in 1..Len(<<c>>) - 1 : MakesObject(SubSeq(<<c>>, 1, n))} = {}
  BY <1>1
<1>. QED  BY <1>2 DEF HomeOf

(* A live path is on an item of a list, or on what the model leads to.     *)
OnItem(s) ==
    /\ Last(s) \in Items /\ Len(s) > 1
    /\ s[Len(s) - 1] \in InModel /\ TypeOf(s[Len(s) - 1]) = "ListQuestion"
OnEntity(s) == Last(s) \in InModel /\ (TypeOf(Last(s)) = "Chapter" => Len(s) = 1)

LEMMA BelowFacts ==
    ASSUME Given, NEW e \in InModel, NEW x \in Below(e)
    PROVE  /\ e \in DOMAIN Entity /\ x \in InModel /\ x \in DOMAIN Entity /\ x \in STRING
           /\ TypeOf(x) \in ChildTypes(TypeOf(e))
<1>1. e \in DOMAIN Entity /\ x \in InModel
  BY InModelIsClosed DEF ClosedSet
<1>2. x \in Of(ChildTypes(TypeOf(e)))
  BY <1>1, ChildrenFacts DEF Below
<1>. QED  BY <1>1, <1>2, OfIsTyped DEF Of

LEMMA InModelIsTyped ==
    ASSUME Given, NEW e \in InModel
    PROVE  e \in DOMAIN Entity /\ e \in STRING /\ e \notin Items /\ e # None
BY InModelIsClosed, ItemsAreNoEntities, OfIsTyped

(* The four ways on, with what they lead to.                               *)
ByChapterOrAnswer(s, x) ==
    /\ Last(s) \in InModel /\ TypeOf(Last(s)) \in {"Chapter", "Answer"}
    /\ x \in Below(Last(s)) /\ x \in InModel /\ TypeOf(x) \in QuestionTypes
ByItem(s, x) ==
    /\ OnItem(s)
    /\ x \in Below(s[Len(s) - 1]) /\ x \in InModel /\ TypeOf(x) \in QuestionTypes
ByOptions(s, x) ==
    /\ Last(s) \in InModel /\ TypeOf(Last(s)) = "OptionsQuestion"
    /\ HasReply(s, "AnswerReply") /\ ReplyAt(s).value = <<x>>
    /\ x \in InModel /\ TypeOf(x) = "Answer"
ByList(s, x) ==
    /\ Last(s) \in InModel /\ TypeOf(Last(s)) = "ListQuestion"
    /\ HasReply(s, "ItemListReply") /\ x \in ToSet(ReplyAt(s).value) /\ x \in Items

LEMMA WaysOn ==
    ASSUME Given, NEW s \in Seq(STRING), OnEntity(s) \/ OnItem(s), NEW x, LeadsOn(s, x)
    PROVE  ByChapterOrAnswer(s, x) \/ ByItem(s, x) \/ ByOptions(s, x) \/ ByList(s, x)
<1>1. CASE IsA(Last(s), {"Chapter", "Answer"}) /\ x \in ToSet(Children(Last(s)))
  <2>1. Last(s) \in DOMAIN Entity /\ TypeOf(Last(s)) \in {"Chapter", "Answer"}
    BY <1>1 DEF IsA
  <2>2. Last(s) \in InModel
    BY <2>1, ItemsAreNoEntities DEF OnEntity, OnItem
  <2>3. x \in Below(Last(s)) /\ x \in InModel /\ TypeOf(x) \in ChildTypes(TypeOf(Last(s)))
    BY <1>1, <2>2, BelowFacts DEF Below
  <2>4. TypeOf(x) \in QuestionTypes
    BY <2>1, <2>3 DEF ChildTypes
  <2>. QED  BY <2>1, <2>2, <2>3, <2>4 DEF ByChapterOrAnswer
<1>2. CASE Last(s) \in Items /\ x \in ToSet(Children(s[Len(s) - 1]))
  <2>1. OnItem(s)
    BY <1>2, InModelIsTyped DEF OnEntity
  <2>2. x \in Below(s[Len(s) - 1]) /\ x \in InModel /\ TypeOf(x) \in ChildTypes("ListQuestion")
    BY <1>2, <2>1, BelowFacts DEF Below, OnItem
  <2>. QED  BY <2>1, <2>2 DEF ByItem, ChildTypes
<1>3. CASE /\ IsA(Last(s), {"OptionsQuestion"}) /\ HasReply(s, "AnswerReply")
           /\ ReplyAt(s).value = <<x>> /\ IsA(x, {"Answer"}) /\ x \in InModel
  BY <1>3, ItemsAreNoEntities DEF IsA, OnEntity, OnItem, ByOptions
<1>4. CASE /\ IsA(Last(s), {"ListQuestion"}) /\ HasReply(s, "ItemListReply")
           /\ x \in ToSet(ReplyAt(s).value)
  <2>1. Last(s) \in InModel /\ TypeOf(Last(s)) = "ListQuestion"
    BY <1>4, ItemsAreNoEntities DEF IsA, OnEntity, OnItem
  <2>2. ReplyAt(s).value \in Seq(Items)
    BY <1>4, ReplyFacts DEF HasReply
  <2>3. x \in Items
    BY <1>4, <2>2 DEF ToSet
  <2>. QED  BY <1>4, <2>1, <2>3 DEF ByList
<1>. QED  BY <1>1, <1>2, <1>3, <1>4 DEF LeadsOn

(* A live path without its end is live, and leads on to it.                *)
LEMMA LiveFront ==
    ASSUME NEW s \in Seq(STRING), Len(s) > 1, Live(s)
    PROVE  \E u \in Seq(STRING), x \in STRING :
              /\ u # <<>> /\ s = Append(u, x) /\ Last(s) = x
              /\ Len(s) = Len(u) + 1 /\ Len(u) \in Nat \ {0} /\ Last(u) = s[Len(s) - 1]
              /\ Live(u) /\ LeadsOn(u, x)
              /\ Passable(s) => Passable(u)
              /\ HomeOf(s) = IF MakesObject(u) THEN u ELSE HomeOf(u)
<1>. DEFINE u == SubSeq(s, 1, Len(s) - 1)
            x == s[Len(s)]
<1>1. /\ u \in Seq(STRING) /\ Len(u) = Len(s) - 1 /\ Len(s) \in Nat /\ x \in STRING
      /\ \A i \in 1..Len(s) - 1 : u[i] = s[i]
  OBVIOUS
<1>. HIDE DEF u
<1>2. u # <<>> /\ Len(u) \in Nat \ {0} /\ Len(s) = Len(u) + 1
  <2>1. Len(<<>>) = 0
    OBVIOUS
  <2>. QED  BY <1>1, <2>1
<1>3. Begins(u, s) /\ Len(u) < Len(s)
  BY <1>1, <1>2 DEF Begins
<1>4. s[Len(u) + 1] = x /\ Last(s) = x /\ Last(u) = s[Len(s) - 1]
  BY <1>1, <1>2 DEF Last
<1>. HIDE DEF x
<1>5. LeadsOn(u, x)
  BY <1>1, <1>2, <1>3, <1>4, LiveLeadsOn
<1>6. s = Append(u, x)
  <2>. DEFINE a == Append(u, x)
  <2>1. Begins(a, s)
    BY <1>1, <1>3, <1>4, BeginsOneMore
  <2>2. a \in Seq(STRING) /\ Len(a) = Len(u) + 1
    BY <1>1, AppendFacts
  <2>. HIDE DEF a
  <2>3. a = s
    BY <1>2, <2>1, <2>2, BeginsAll
  <2>. QED  BY <2>3 DEF a
<1>7. Live(u)
  <2>1. u[1] = s[1]
    BY <1>1, <1>2
  <2>2. ASSUME NEW k \in 2..Len(u)  PROVE LeadsOn(SubSeq(u, 1, k - 1), u[k])
    <3>1. k \in 2..Len(s) /\ k - 1 \in 0..Len(u) /\ u[k] = s[k]
      BY <1>1, <1>2
    <3>2. SubSeq(s, 1, k - 1) = SubSeq(u, 1, k - 1)
      BY <1>1, <1>3, <3>1, SameBeginning
    <3>3. LeadsOn(SubSeq(s, 1, k - 1), s[k])
      BY <3>1 DEF Live
    <3>. QED  BY <3>1, <3>2, <3>3
  <2>. QED  BY <2>1, <2>2 DEF Live
<1>8. Passable(s) => Passable(u)
  BY <1>1, <1>2 DEF Passable
<1>9. HomeOf(s) = IF MakesObject(u) THEN u ELSE HomeOf(u)
  BY <1>1, <1>2, <1>6, HomeGrows
<1>. QED  BY <1>1, <1>2, <1>4, <1>5, <1>6, <1>7, <1>8, <1>9

LEMMA LiveEnds ==
    ASSUME Given, NEW s \in Seq(STRING), s # <<>>, Live(s)
    PROVE  OnEntity(s) \/ OnItem(s)
<1>. DEFINE Wrong(t) == t # <<>> /\ Live(t) /\ ~OnEntity(t) /\ ~OnItem(t)
            Bad == {n \in Nat : \E t \in Seq(STRING) : Len(t) = n /\ Wrong(t)}
<1>. SUFFICES ASSUME Wrong(s) PROVE FALSE
  OBVIOUS
<1>1. Len(s) \in Bad /\ Bad \subseteq Nat
  OBVIOUS
<1>2. PICK n \in Bad : \A k \in Bad : n <= k
  BY <1>1, LeastNumber
<1>3. PICK t \in Seq(STRING) : Len(t) = n /\ Wrong(t)
  BY <1>2
<1>4. Len(t) = 1 \/ Len(t) > 1
  BY <1>3
<1>5. CASE Len(t) = 1
  <2>1. Last(t) = t[1] /\ t[1] \in ToSet(Chapters)
    BY <1>3, <1>5 DEF Last, Live, Chapters
  <2>2. t[1] \in InModel
    BY <2>1, InModelIsClosed
  <2>. QED  BY <1>3, <1>5, <2>1, <2>2 DEF OnEntity
<1>6. CASE Len(t) > 1
  <2>1. PICK u \in Seq(STRING), x \in STRING :
           /\ u # <<>> /\ Last(t) = x /\ Len(t) = Len(u) + 1 /\ Len(u) \in Nat
           /\ Last(u) = t[Len(t) - 1] /\ Live(u) /\ LeadsOn(u, x)
    BY <1>3, <1>6, LiveFront
  <2>2. OnEntity(u) \/ OnItem(u)
    <3>1. Len(u) \notin Bad
      BY <1>2, <1>3, <2>1
    <3>. QED  BY <2>1, <3>1
  <2>3. ByChapterOrAnswer(u, x) \/ ByItem(u, x) \/ ByOptions(u, x) => OnEntity(t)
    BY <2>1 DEF ByChapterOrAnswer, ByItem, ByOptions, OnEntity, QuestionTypes
  <2>4. ByList(u, x) => OnItem(t)
    BY <1>6, <2>1 DEF ByList, OnItem
  <2>. QED  BY <1>3, <2>1, <2>2, <2>3, <2>4, WaysOn
<1>. QED  BY <1>4, <1>5, <1>6

LEMMA OwnerOfQuestion ==
    ASSUME Given, NEW u \in Seq(STRING), u # <<>>, Live(u), NEW x \in DOMAIN Entity, LeadsOn(u, x),
           TypeOf(x) \in QuestionTypes
    PROVE  ByChapterOrAnswer(u, x) \/ ByItem(u, x)
<1>1. ByChapterOrAnswer(u, x) \/ ByItem(u, x) \/ ByOptions(u, x) \/ ByList(u, x)
  BY LiveEnds, WaysOn
<1>2. ~ByOptions(u, x)
  BY DEF ByOptions, QuestionTypes
<1>3. ~ByList(u, x)
  BY ItemsAreNoEntities DEF ByList
<1>. QED  BY <1>1, <1>2, <1>3

LEMMA OwnerOfAnswer ==
    ASSUME Given, NEW u \in Seq(STRING), u # <<>>, Live(u), NEW x \in DOMAIN Entity, LeadsOn(u, x),
           TypeOf(x) = "Answer"
    PROVE  ByOptions(u, x)
<1>1. ByChapterOrAnswer(u, x) \/ ByItem(u, x) \/ ByOptions(u, x) \/ ByList(u, x)
  BY LiveEnds, WaysOn
<1>2. ~ByChapterOrAnswer(u, x) /\ ~ByItem(u, x)
  BY DEF ByChapterOrAnswer, ByItem, QuestionTypes
<1>3. ~ByList(u, x)
  BY ItemsAreNoEntities DEF ByList
<1>. QED  BY <1>1, <1>2, <1>3

(* What makes an object: every item, and what a question with a key has.   *)
LEMMA ItemsMakeObjects ==
    ASSUME NEW u, OnItem(u)
    PROVE  MakesObject(u)
BY DEF OnItem, MakesObject

LEMMA QuestionsMakeNone ==
    ASSUME Given, NEW u, Last(u) \in InModel, TypeOf(Last(u)) \in QuestionTypes
    PROVE  ~MakesObject(u)
<1>1. Last(u) \notin Items
  BY InModelIsTyped
<1>. QED  BY <1>1 DEF MakesObject, IsA, QuestionTypes

LEMMA AnswersMakeObjects ==
    ASSUME Given, NEW u, Last(u) \in InModel, TypeOf(Last(u)) = "Answer"
    PROVE  MakesObject(u) <=> KeyOf(u[Len(u) - 1]) # None
<1>1. Last(u) \notin Items /\ Last(u) \in DOMAIN Entity
  BY InModelIsTyped
<1>. QED  BY <1>1 DEF MakesObject, IsA

LEMMA ChaptersMakeObjects ==
    ASSUME Given, NEW u, Last(u) \in InModel, TypeOf(Last(u)) = "Chapter"
    PROVE  MakesObject(u) <=> KeyOf(Last(u)) # None
<1>1. Last(u) \notin Items /\ Last(u) \in DOMAIN Entity
  BY InModelIsTyped
<1>. QED  BY <1>1 DEF MakesObject, IsA

(* In a tree, a question comes once in an object: two live paths that      *)
(* belong to one object and end with one question are one path. Of two     *)
(* that are not, cut off at the object or at the question above, there are *)
(* shorter ones.                                                           *)
Asks(s) == s # <<>> /\ Live(s) /\ IsA(Last(s), QuestionTypes)
Twins(s, t) == Asks(s) /\ Asks(t) /\ Last(s) = Last(t) /\ HomeOf(s) = HomeOf(t) /\ s # t

LEMMA AskedBelow ==
    ASSUME Given, NEW s \in Seq(STRING), Asks(s)
    PROVE  \E u \in Seq(STRING), x \in STRING :
              /\ u # <<>> /\ s = Append(u, x) /\ Last(s) = x /\ Len(s) = Len(u) + 1 /\ Len(u) \in Nat
              /\ Live(u) /\ HomeOf(s) = IF MakesObject(u) THEN u ELSE HomeOf(u)
              /\ ByChapterOrAnswer(u, x) \/ ByItem(u, x)
<1>1. Len(s) > 1
  <2>1. Len(s) # 0
    BY DEF Asks
  <2>2. CASE Len(s) = 1
    <3>1. Last(s) = s[1] /\ s[1] \in ToSet(Chapters)
      BY <2>2 DEF Last, Live, Chapters, Asks
    <3>2. TypeOf(s[1]) = "Chapter"
      BY <3>1, ChaptersFacts DEF Of
    <3>. QED  BY <3>1, <3>2 DEF Asks, IsA, QuestionTypes
  <2>. QED  BY <2>1, <2>2
<1>2. PICK u \in Seq(STRING), x \in STRING :
         /\ u # <<>> /\ s = Append(u, x) /\ Last(s) = x /\ Len(s) = Len(u) + 1 /\ Len(u) \in Nat
         /\ Live(u) /\ LeadsOn(u, x) /\ HomeOf(s) = IF MakesObject(u) THEN u ELSE HomeOf(u)
  BY <1>1, LiveFront DEF Asks
<1>3. ByChapterOrAnswer(u, x) \/ ByItem(u, x)
  BY <1>2, OwnerOfQuestion DEF Asks, IsA
<1>. QED  BY <1>2, <1>3

LEMMA AnsweredBelow ==
    ASSUME Given, AnswersAreListed, NEW u \in Seq(STRING), u # <<>>, Live(u),
           Last(u) \in InModel, TypeOf(Last(u)) = "Answer"
    PROVE  \E v \in Seq(STRING) :
              /\ Asks(v) /\ u = Append(v, Last(u)) /\ Len(u) = Len(v) + 1 /\ Len(v) \in Nat
              /\ Last(v) \in InModel /\ Last(u) \in ToSet(Children(Last(v)))
              /\ Last(v) = u[Len(u) - 1]
              /\ HomeOf(u) = HomeOf(v)
<1>1. Last(u) \in DOMAIN Entity
  BY InModelIsTyped
<1>2. Len(u) > 1
  <2>1. Len(u) \in Nat \ {0}
    OBVIOUS
  <2>2. ASSUME Len(u) = 1  PROVE FALSE
    <3>1. Last(u) = u[1] /\ u[1] \in ToSet(Chapters)
      BY <2>2 DEF Last, Live, Chapters
    <3>2. TypeOf(u[1]) = "Chapter"
      BY <3>1, ChaptersFacts DEF Of
    <3>. QED  BY <3>1, <3>2
  <2>3. \A n \in Nat \ {0} : n # 1 => n > 1
    OBVIOUS
  <2>. QED  BY <2>1, <2>2, <2>3, Zenon
<1>3. PICK v \in Seq(STRING), x \in STRING :
         /\ v # <<>> /\ u = Append(v, x) /\ Last(u) = x /\ Len(u) = Len(v) + 1 /\ Len(v) \in Nat
         /\ Last(v) = u[Len(u) - 1] /\ Live(v) /\ LeadsOn(v, x)
         /\ HomeOf(u) = IF MakesObject(v) THEN v ELSE HomeOf(v)
  BY <1>2, LiveFront
<1>4. ByOptions(v, x)
  BY <1>1, <1>3, OwnerOfAnswer
<1>5. Last(v) \in DOMAIN Entity /\ Last(v) \in InModel /\ TypeOf(Last(v)) = "OptionsQuestion"
  BY <1>4, InModelIsTyped DEF ByOptions
<1>6. Asks(v) /\ ~MakesObject(v)
  BY <1>3, <1>5, QuestionsMakeNone DEF Asks, IsA, QuestionTypes
<1>7. x \in ToSet(Children(Last(v)))
  BY <1>1, <1>3, <1>4, <1>5 DEF AnswersAreListed, ByOptions, IsA, HasReply
<1>. QED  BY <1>3, <1>5, <1>6, <1>7

LEMMA TwinsAreShort ==
    ASSUME Given, IsTree, NEW s \in Seq(STRING), NEW t \in Seq(STRING), Twins(s, t)
    PROVE  \E v, w \in Seq(STRING) : Twins(v, w) /\ Len(v) < Len(s)
<1>1. PICK u \in Seq(STRING), x \in STRING :
         /\ u # <<>> /\ s = Append(u, x) /\ Last(s) = x /\ Len(s) = Len(u) + 1 /\ Len(u) \in Nat
         /\ Live(u) /\ HomeOf(s) = IF MakesObject(u) THEN u ELSE HomeOf(u)
         /\ ByChapterOrAnswer(u, x) \/ ByItem(u, x)
  BY AskedBelow DEF Twins
<1>2. PICK z \in Seq(STRING), y \in STRING :
         /\ z # <<>> /\ t = Append(z, y) /\ Last(t) = y /\ Len(t) = Len(z) + 1 /\ Len(z) \in Nat
         /\ Live(z) /\ HomeOf(t) = IF MakesObject(z) THEN z ELSE HomeOf(z)
         /\ ByChapterOrAnswer(z, y) \/ ByItem(z, y)
  BY AskedBelow DEF Twins
<1>3. x = y /\ HomeOf(s) = HomeOf(t) /\ u # z
  BY <1>1, <1>2 DEF Twins
<1>4. ~(MakesObject(u) /\ MakesObject(z))
  BY <1>1, <1>2, <1>3
<1>. DEFINE EndOf(c) == IF OnItem(c) THEN c[Len(c) - 1] ELSE Last(c)
<1>5. \A c : ByChapterOrAnswer(c, x) => ~OnItem(c)
  BY InModelIsTyped DEF ByChapterOrAnswer, OnItem
<1>6. PICK d \in InModel : d = EndOf(u) /\ x \in ToSet(Children(d))
  BY <1>1, <1>5 DEF ByChapterOrAnswer, ByItem, OnItem, Below
<1>7. EndOf(z) \in InModel /\ x \in ToSet(Children(EndOf(z)))
  BY <1>2, <1>3, <1>5 DEF ByChapterOrAnswer, ByItem, OnItem, Below
<1>8. EndOf(z) = d
  BY <1>6, <1>7 DEF IsTree, ListedOnce
<1>9. (OnItem(u) <=> TypeOf(d) = "ListQuestion") /\ (OnItem(z) <=> TypeOf(d) = "ListQuestion")
  <2>1. ASSUME NEW c, ByChapterOrAnswer(c, x) \/ ByItem(c, x), EndOf(c) = d
        PROVE  OnItem(c) <=> TypeOf(d) = "ListQuestion"
    BY <1>5, <2>1 DEF ByChapterOrAnswer, ByItem, OnItem
  <2>. QED  BY <1>1, <1>2, <1>3, <1>6, <1>8, <2>1
<1>10. ~OnItem(u) /\ ~OnItem(z)
  BY <1>4, <1>9, ItemsMakeObjects
<1>11. Last(u) = d /\ Last(z) = d /\ TypeOf(d) \in {"Chapter", "Answer"}
  BY <1>1, <1>2, <1>3, <1>6, <1>8, <1>10 DEF ByChapterOrAnswer, ByItem
<1>. HIDE DEF EndOf
<1>12. CASE TypeOf(d) = "Chapter"
  <2>1. \A c \in Seq(STRING) : c # <<>> /\ Live(c) /\ Last(c) = d => c = <<d>>
    <3>. SUFFICES ASSUME NEW c \in Seq(STRING), c # <<>>, Live(c), Last(c) = d  PROVE c = <<d>>
      OBVIOUS
    <3>1. OnEntity(c)
      BY <1>6, LiveEnds, InModelIsTyped DEF OnItem
    <3>2. Len(c) = 1
      BY <1>12, <3>1 DEF OnEntity
    <3>3. c = <<c[1]>> /\ Last(c) = c[1]
      BY <3>2 DEF Last
    <3>. QED  BY <3>3
  <2>. QED  BY <1>1, <1>2, <1>3, <1>11, <2>1
<1>13. CASE TypeOf(d) = "Answer"
  <2>1. PICK v \in Seq(STRING) :
           /\ Asks(v) /\ u = Append(v, d) /\ Len(u) = Len(v) + 1 /\ Len(v) \in Nat
           /\ Last(v) \in InModel /\ d \in ToSet(Children(Last(v)))
           /\ Last(v) = u[Len(u) - 1] /\ HomeOf(u) = HomeOf(v)
    BY <1>1, <1>6, <1>11, <1>13, AnsweredBelow DEF IsTree
  <2>2. PICK w \in Seq(STRING) :
           /\ Asks(w) /\ z = Append(w, d)
           /\ Last(w) \in InModel /\ d \in ToSet(Children(Last(w)))
           /\ Last(w) = z[Len(z) - 1] /\ HomeOf(z) = HomeOf(w)
    BY <1>2, <1>6, <1>11, <1>13, AnsweredBelow DEF IsTree
  <2>3. Last(v) = Last(w)
    BY <2>1, <2>2 DEF IsTree, ListedOnce
  <2>4. MakesObject(u) <=> MakesObject(z)
    BY <1>6, <1>11, <1>13, <2>1, <2>2, <2>3, AnswersMakeObjects
  <2>5. HomeOf(v) = HomeOf(w)
    BY <1>1, <1>2, <1>3, <1>4, <2>1, <2>2, <2>4
  <2>6. v # w
    BY <1>3, <2>1, <2>2
  <2>7. Len(v) < Len(s)
    BY <1>1, <2>1
  <2>. QED  BY <2>1, <2>2, <2>3, <2>5, <2>6, <2>7 DEF Twins
<1>. QED  BY <1>11, <1>12, <1>13

LEMMA NoTwins ==
    ASSUME Given, IsTree, NEW s \in Seq(STRING), NEW t \in Seq(STRING)
    PROVE  ~Twins(s, t)
<1>. DEFINE Bad == {n \in Nat : \E v, w \in Seq(STRING) : Twins(v, w) /\ Len(v) = n}
<1>. SUFFICES ASSUME Twins(s, t) PROVE FALSE
  OBVIOUS
<1>1. Len(s) \in Bad /\ Bad \subseteq Nat
  OBVIOUS
<1>2. PICK n \in Bad : \A k \in Bad : n <= k
  BY <1>1, LeastNumber
<1>3. PICK v \in Seq(STRING), w \in Seq(STRING) : Twins(v, w) /\ Len(v) = n
  BY <1>2
<1>4. PICK c, d \in Seq(STRING) : Twins(c, d) /\ Len(c) < n
  BY <1>3, TwinsAreShort
<1>5. Len(c) \in Bad /\ Len(c) < n /\ Len(c) \in Nat /\ n \in Nat
  BY <1>2, <1>4
<1>. QED  BY <1>2, <1>5

-----------------------------------------------------------------------------
(* A call of the extractor is replaced by the calls it makes               *)

Written(f, value, places) ==
    extracted' =
        IF KeyOf(f.entity) = None THEN extracted
        ELSE [o \in DOMAIN extracted \union places |->
                IF o \in places THEN <<>>
                ELSE IF o = f.at THEN Put(extracted[o], KeyOf(f.entity), value)
                ELSE extracted[o]]

LEMMA SameExtraction ==
    ASSUME ctx' = ctx
    PROVE  /\ Extractable' = Extractable /\ Of({"Chapter"})' = Of({"Chapter"})
           /\ \A p : HomeOf(p)' = HomeOf(p) /\ Worth(p)' = Worth(p)
           /\ \A e : KeyOf(e)' = KeyOf(e) /\ IsOnlyOne(e)' = IsOnlyOne(e)
           /\ \A f : RightCall(f)' = RightCall(f)
           /\ IsTree' = IsTree
<1>1. /\ \A e : TypeOf(e)' = TypeOf(e) /\ Children(e)' = Children(e) /\ KeyOf(e)' = KeyOf(e)
      /\ \A e, types : IsA(e, types)' = IsA(e, types)
      /\ Of({"Chapter"})' = Of({"Chapter"})
  BY DEF Children, Existing, Of, Entity, TypeOf, KeyOf, IsA
<1>2. /\ Paths' = Paths /\ InModel' = InModel
      /\ \A p : ReplyAt(p)' = ReplyAt(p) /\ Live(p)' = Live(p)
      /\ \A p, type : HasReply(p, type)' = HasReply(p, type)
  BY SameLive, SameModel DEF HasReply
<1>3. \A p : MakesObject(p)' = MakesObject(p)
  BY <1>1 DEF MakesObject
<1>4. \A p : HomeOf(p)' = HomeOf(p)
  BY <1>3 DEF HomeOf
<1>5. \A p : Passable(p)' = Passable(p)
  BY <1>1 DEF Passable
<1>6. \A p : Reachable(p)' = Reachable(p)
  BY <1>1, <1>2 DEF Reachable
<1>7. \A p : Worth(p)' = Worth(p)
  BY <1>2 DEF Worth, Existing, Of, Entity, TypeOf
<1>8. \A p : Answers(p)' = Answers(p)
  BY <1>1, <1>2 DEF Answers
<1>9. Extractable' = Extractable
  BY <1>1, <1>2, <1>6, <1>8 DEF Extractable
<1>10. \A f : RightCall(f)' = RightCall(f)
  BY <1>1, <1>2, <1>4, <1>5 DEF RightCall
<1>11. \A e : IsOnlyOne(e)' = IsOnlyOne(e)
  BY <1>1 DEF IsOnlyOne, Entity
<1>12. IsTree' = IsTree
  BY <1>1, <1>2 DEF IsTree, ListedOnce, AnswersAreListed
<1>. QED  BY <1>1, <1>4, <1>7, <1>9, <1>10, <1>11, <1>12

LEMMA ExtractableFacts ==
    ASSUME Given, NEW p \in Extractable
    PROVE  /\ p \in Paths /\ p \in Seq(STRING) /\ p # <<>> /\ Live(p) /\ Passable(p) /\ Asks(p)
           /\ IsA(Last(p), QuestionTypes) /\ KeyOf(Last(p)) # None /\ Answers(p)
           /\ HomeOf(p) \in Seq(STRING) /\ Begins(HomeOf(p), p) /\ Len(HomeOf(p)) < Len(p)
<1>1. /\ p \in Paths /\ Reachable(p) /\ IsA(Last(p), QuestionTypes) /\ KeyOf(Last(p)) # None /\ Answers(p)
  BY DEF Extractable
<1>2. p \in Seq(STRING) /\ p # <<>>
  BY <1>1, ReplyFacts
<1>3. Live(p) /\ Passable(p)
  BY <1>1 DEF Reachable, Passable
<1>4. HomeOf(p) \in Seq(STRING) /\ Begins(HomeOf(p), p) /\ Len(HomeOf(p)) < Len(p)
  BY <1>2, HomeBegins
<1>. QED  BY <1>1, <1>2, <1>3, <1>4 DEF Asks

LEMMA BeginsFurther ==
    ASSUME NEW s \in Seq(STRING), NEW t \in Seq(STRING), NEW u \in Seq(STRING), Begins(s, t), Begins(t, u)
    PROVE  Begins(s, u)
BY DEF Begins

LEMMA ExtractionGoesOn ==
    ASSUME Given, IsTree, ctx' = ctx, stage' = "extract", CallsAreRight, RepliesComing, ValuesAreRight,
           NEW f \in ExtractCall, NEW new, NEW rest, Replaced(f, new, rest),
           NEW value, NEW places, Written(f, value, places),
           \A c \in new : RightCall(c) /\ c.at \in DOMAIN extracted',
           KeyOf(f.entity) # None => Rightful(f.at, KeyOf(f.entity), value),
           \A p \in Extractable : Begins(f.path, p) =>
               \/ p = f.path /\ value = Worth(p)
               \/ \E c \in new : Begins(c.path, p),
           \A o \in places : o \in Seq(STRING) /\ Begins(f.path, o)
    PROVE  ExtractInv'
<1>1. /\ f.path \in Seq(STRING) /\ RightCall(f) /\ f.at \in DOMAIN extracted /\ f.entity \in DOMAIN Entity
  BY DEF ExtractCall, CallsAreRight, Replaced
<1>2. /\ f.path # <<>> /\ Last(f.path) = f.entity /\ Live(f.path) /\ f.at = HomeOf(f.path)
      /\ TypeOf(f.entity) \in QuestionTypes \/ TypeOf(f.entity) = "Chapter"
  BY <1>1 DEF RightCall
<1>3. DOMAIN extracted \subseteq DOMAIN extracted'
  BY DEF Written
<1>4. CallsAreRight'
  <2>1. \A c \in ToSet(todo') : RightCall(c) /\ c.at \in DOMAIN extracted'
    BY <1>3 DEF CallsAreRight, Replaced
  <2>. QED  BY <2>1, SameExtraction DEF CallsAreRight
<1>5. ValuesAreRight'
  <2>1. ASSUME NEW o \in DOMAIN extracted', NEW name \in DOMAIN extracted'[o]
        PROVE  Rightful(o, name, extracted'[o][name])
    <3>1. CASE KeyOf(f.entity) = None
      BY <2>1, <3>1 DEF Written, ValuesAreRight
    <3>2. CASE KeyOf(f.entity) # None
      <4>1. o \notin places
        <5>. SUFFICES ASSUME o \in places  PROVE FALSE
          OBVIOUS
        <5>1. extracted'[o] = <<>>
          BY <3>2 DEF Written
        <5>. QED  BY <2>1, <5>1
      <4>2. o \in DOMAIN extracted
        BY <2>1, <3>2, <4>1 DEF Written
      <4>3. CASE o = f.at
        <5>1. extracted'[o] = Put(extracted[o], KeyOf(f.entity), value)
          BY <3>2, <4>1, <4>2, <4>3 DEF Written
        <5>2. CASE name = KeyOf(f.entity)
          BY <2>1, <3>2, <4>3, <5>1, <5>2 DEF Put
        <5>3. CASE name # KeyOf(f.entity)
          <6>1. name \in DOMAIN extracted[o] /\ extracted'[o][name] = extracted[o][name]
            BY <2>1, <5>1, <5>3 DEF Put
          <6>. QED  BY <4>2, <6>1 DEF ValuesAreRight
        <5>. QED  BY <5>2, <5>3
      <4>4. CASE o # f.at
        <5>1. extracted'[o] = extracted[o]
          BY <3>2, <4>1, <4>2, <4>4 DEF Written
        <5>. QED  BY <2>1, <4>2, <5>1 DEF ValuesAreRight
      <4>. QED  BY <4>3, <4>4
    <3>. QED  BY <3>1, <3>2
  <2>. QED  BY <2>1, SameExtraction DEF ValuesAreRight, Rightful
<1>6. RepliesComing'
  <2>1. ASSUME NEW p \in Extractable
        PROVE  \/ \E c \in ToSet(todo') : Begins(c.path, p)
               \/ /\ HomeOf(p) \in DOMAIN extracted'
                  /\ IsOnlyOne(Last(p)) =>
                        /\ KeyOf(Last(p)) \in DOMAIN extracted'[HomeOf(p)]
                        /\ extracted'[HomeOf(p)][KeyOf(Last(p))] = Worth(p)
    <3>. PICK h : h = HomeOf(p)
      OBVIOUS
    <3>0. /\ p \in Seq(STRING) /\ Asks(p) /\ KeyOf(Last(p)) # None /\ IsA(Last(p), QuestionTypes)
          /\ h \in Seq(STRING) /\ Begins(h, p) /\ Len(h) < Len(p)
      BY ExtractableFacts
    <3>1. CASE \E c \in new : Begins(c.path, p)
      BY <3>1 DEF Replaced
    <3>2. CASE p = f.path /\ value = Worth(p)
      <4>1. h = f.at /\ Last(p) = f.entity
        BY <1>2, <3>2
      <4>2. h \notin places
        <5>. SUFFICES ASSUME Begins(p, h)  PROVE FALSE
          BY <3>2
        <5>1. Len(p) <= Len(h) /\ Len(p) \in Nat /\ Len(h) \in Nat
          BY <3>0 DEF Begins
        <5>. QED  BY <3>0, <5>1
      <4>3. h \in DOMAIN extracted' /\ extracted'[h] = Put(extracted[h], KeyOf(f.entity), value)
        BY <1>1, <3>0, <4>1, <4>2 DEF Written
      <4>4. KeyOf(Last(p)) \in DOMAIN extracted'[h] /\ extracted'[h][KeyOf(Last(p))] = value
        BY <4>1, <4>3 DEF Put
      <4>. QED  BY <3>2, <4>3, <4>4
    <3>3. CASE ~Begins(f.path, p) /\ Coming(p)
      BY <3>3 DEF Coming, Replaced
    <3>4. CASE ~Begins(f.path, p) /\ Recorded(p)
      <4>1. h \in DOMAIN extracted
        BY <3>4 DEF Recorded
      <4>2. h \notin places
        <5>. SUFFICES ASSUME h \in places  PROVE FALSE
          OBVIOUS
        <5>1. Begins(f.path, h)
          OBVIOUS
        <5>. QED  BY <1>1, <3>0, <3>4, <5>1, BeginsFurther
      <4>3. h \in DOMAIN extracted'
        BY <1>3, <4>1
      <4>4. ASSUME IsOnlyOne(Last(p))
            PROVE  KeyOf(Last(p)) \in DOMAIN extracted'[h] /\ extracted'[h][KeyOf(Last(p))] = Worth(p)
        <5>1. KeyOf(Last(p)) \in DOMAIN extracted[h] /\ extracted[h][KeyOf(Last(p))] = Worth(p)
          BY <3>4, <4>4 DEF Recorded
        <5>2. CASE KeyOf(f.entity) = None
          BY <5>1, <5>2 DEF Written
        <5>3. CASE KeyOf(f.entity) # None /\ h # f.at
          <6>1. extracted'[h] = extracted[h]
            BY <4>1, <4>2, <5>3 DEF Written
          <6>. QED  BY <5>1, <6>1
        <5>4. CASE KeyOf(f.entity) # None /\ h = f.at
          <6>1. extracted'[h] = Put(extracted[h], KeyOf(f.entity), value)
            BY <4>1, <4>2, <5>4 DEF Written
          <6>2. KeyOf(Last(p)) # KeyOf(f.entity)
            <7>. SUFFICES ASSUME KeyOf(Last(p)) = KeyOf(f.entity)  PROVE FALSE
              OBVIOUS
            <7>1. f.entity = Last(p)
              BY <1>1, <4>4 DEF IsOnlyOne
            <7>2. TypeOf(f.entity) \in QuestionTypes
              BY <3>0, <7>1 DEF IsA
            <7>3. Asks(f.path)
              BY <1>1, <1>2, <7>2 DEF Asks, IsA
            <7>4. f.path # p
              BY <3>0, <3>4 DEF Begins
            <7>5. Twins(f.path, p)
              BY <1>2, <3>0, <5>4, <7>1, <7>3, <7>4 DEF Twins
            <7>. QED  BY <1>1, <3>0, <7>5, NoTwins
          <6>. QED  BY <5>1, <6>1, <6>2 DEF Put
        <5>. QED  BY <5>2, <5>3, <5>4
      <4>. QED  BY <4>3, <4>4
    <3>. QED  BY <3>1, <3>2, <3>3, <3>4 DEF RepliesComing
  <2>. QED  BY <2>1, SameExtraction DEF RepliesComing, Coming, Recorded
<1>. QED  BY <1>4, <1>5, <1>6 DEF ExtractInv

(* What a right call is about, and where it may lead.                      *)
LEMMA CalledFacts ==
    ASSUME ObjectsTyped, VisitInv, ExtractInv, NEW types, Extracting(types), NEW f, f = Current
    PROVE  /\ ctx' = ctx /\ stage' = "extract" /\ Given /\ Loaded /\ AfterModel
           /\ CallsAreRight /\ RepliesComing /\ ValuesAreRight /\ \A x \in Paths : ChosenIs(x)
           /\ f \in ExtractCall /\ f.path \in Seq(STRING) /\ f.path # <<>> /\ Begins(f.path, f.path)
           /\ f.entity \in DOMAIN Entity /\ f.entity \in InModel /\ TypeOf(f.entity) \in types
           /\ Last(f.path) = f.entity /\ OnEntity(f.path)
           /\ RightCall(f) /\ Live(f.path) /\ Passable(f.path)
           /\ f.at = HomeOf(f.path) /\ f.at \in DOMAIN extracted
           /\ ToSet(todo) = {f} \union ToSet(Tail(todo)) /\ Tail(todo) \in Seq(ExtractCall)
           /\ KeyOf(f.entity) # None <=> IsKeyed
<1>1. /\ ctx' = ctx /\ stage = "extract" /\ stage' = "extract" /\ Given /\ Loaded
      /\ todo \in Seq(ExtractCall) /\ todo # <<>> /\ TypeOf(f.entity) \in types
  BY ExtractingFacts DEF Extracting, ObjectsTyped, CallsTyped
<1>2. f \in ExtractCall /\ ToSet(todo) = {f} \union ToSet(Tail(todo)) /\ Tail(todo) \in Seq(ExtractCall)
  BY <1>1, HeadAndTail DEF Current
<1>3. CallsAreRight /\ RepliesComing /\ ValuesAreRight /\ AfterModel /\ \A x \in Paths : ChosenIs(x)
  BY <1>1 DEF ExtractInv, VisitInv, AfterProject, AfterModel
<1>4. RightCall(f) /\ f.at \in DOMAIN extracted
  BY <1>2, <1>3 DEF CallsAreRight
<1>5. /\ f.path \in Seq(STRING) /\ f.path # <<>> /\ f.entity \in DOMAIN Entity
      /\ Last(f.path) = f.entity /\ Live(f.path) /\ Passable(f.path) /\ f.at = HomeOf(f.path)
  BY <1>2, <1>4 DEF ExtractCall, RightCall
<1>6. OnEntity(f.path) /\ f.entity \in InModel
  <2>1. ~OnItem(f.path)
    BY <1>1, <1>5, ItemsAreNoEntities DEF OnItem
  <2>. QED  BY <1>1, <1>5, <2>1, LiveEnds DEF OnEntity
<1>7. Begins(f.path, f.path)
  BY <1>5 DEF Begins
<1>8. KeyOf(f.entity) # None <=> IsKeyed
  BY DEF IsKeyed
<1>. QED  BY <1>1, <1>2, <1>3, <1>4, <1>5, <1>6, <1>7, <1>8

LEMMA GoesOn ==
    ASSUME NEW p \in Seq(STRING), Live(p), NEW s \in Seq(STRING), s # <<>>, Begins(s, p), s # p
    PROVE  \E x \in STRING : /\ LeadsOn(s, x) /\ Begins(Append(s, x), p)
                             /\ Passable(p) /\ x \in Items => KeyOf(Last(s)) # None
<1>1. Len(s) < Len(p)
  BY BeginsAll
<1>2. Len(s) \in Nat \ {0} /\ Len(s) + 1 \in 2..Len(p) /\ (Len(s) + 1) - 1 = Len(s)
  BY <1>1
<1>3. p[Len(s)] = Last(s)
  BY <1>2 DEF Begins, Last
<1>4. LeadsOn(s, p[Len(s) + 1])
  BY <1>1, LiveLeadsOn
<1>5. p[Len(s) + 1] \in STRING /\ Begins(Append(s, p[Len(s) + 1]), p)
  BY <1>1, BeginsOneMore
<1>6. Passable(p) /\ p[Len(s) + 1] \in Items => KeyOf(Last(s)) # None
  <2>1. Passable(p) /\ p[Len(s) + 1] \in Items => KeyOf(p[(Len(s) + 1) - 1]) # None
    BY <1>2, Zenon DEF Passable
  <2>. QED  BY <1>2, <1>3, <2>1
<1>. QED  BY <1>4, <1>5, <1>6, Zenon

LEMMA PassableGrows ==
    ASSUME NEW s \in Seq(STRING), s # <<>>, Passable(s), NEW x \in STRING,
           x \in Items => KeyOf(Last(s)) # None
    PROVE  Passable(Append(s, x))
<1>. DEFINE a == Append(s, x)
<1>1. Len(a) = Len(s) + 1 /\ Len(s) \in Nat \ {0} /\ a[Len(s) + 1] = x /\ \A k \in 1..Len(s) : a[k] = s[k]
  <2>1. Len(s) \in Nat \ {0}
    OBVIOUS
  <2>. QED  BY <2>1, AppendFacts
<1>. HIDE DEF a
<1>2. ASSUME NEW n \in 2..Len(a), a[n] \in Items  PROVE KeyOf(a[n - 1]) # None
  <2>1. n - 1 \in 1..Len(s) /\ n \in Nat /\ (n = Len(s) + 1 => n - 1 = Len(s))
    BY <1>1
  <2>2. a[n - 1] = s[n - 1]
    BY <1>1, <2>1
  <2>3. CASE n = Len(s) + 1
    BY <1>1, <1>2, <2>1, <2>2, <2>3 DEF Last
  <2>4. CASE n # Len(s) + 1
    <3>1. n \in 2..Len(s)
      BY <1>1, <2>1, <2>4
    <3>2. a[n] = s[n]
      BY <1>1, <3>1
    <3>. QED  BY <1>2, <2>2, <3>1, <3>2 DEF Passable
  <2>. QED  BY <2>3, <2>4
<1>3. Passable(a)
  BY <1>2 DEF Passable
<1>. QED  BY <1>3 DEF a

CallOn(q, path, place) == [entity |-> q, path |-> Append(path, q), at |-> place]

(* What the extractor calls below a path, for the object that it makes or  *)
(* is in, is right.                                                        *)
LEMMA CallOnIsRight ==
    ASSUME Given, NEW s \in Seq(STRING), s # <<>>, Live(s), Passable(s),
           NEW q \in DOMAIN Entity, TypeOf(q) \in QuestionTypes, LeadsOn(s, q)
    PROVE  RightCall(CallOn(q, s, IF MakesObject(s) THEN s ELSE HomeOf(s)))
<1>1. q \in STRING /\ q \notin Items
  BY OfIsTyped, ItemsAreNoEntities
<1>2. Append(s, q) # <<>> /\ Last(Append(s, q)) = q
  BY <1>1, AppendFacts
<1>3. Live(Append(s, q)) /\ Passable(Append(s, q))
  BY <1>1, LiveGrows, PassableGrows
<1>4. HomeOf(Append(s, q)) = IF MakesObject(s) THEN s ELSE HomeOf(s)
  BY <1>1, HomeGrows
<1>. QED  BY <1>2, <1>3, <1>4 DEF RightCall, CallOn

LEMMA CalledIsExtractable ==
    ASSUME Given, NEW f \in ExtractCall, RightCall(f), TypeOf(f.entity) \in QuestionTypes,
           KeyOf(f.entity) # None, f.path \in Paths, Answers(f.path)
    PROVE  f.path \in Extractable
<1>1. f.entity \in DOMAIN Entity
  BY DEF ExtractCall
<1>. QED  BY <1>1 DEF Extractable, RightCall, Reachable, Passable, IsA

LEMMA OneIsAll ==
    ASSUME NEW v \in Seq(STRING), Len(v) = 1
    PROVE  v = <<v[1]>> /\ v[1] \in STRING /\ ToSet(v) = {v[1]}
<1>1. DOMAIN v = {1} /\ v[1] \in STRING
  OBVIOUS
<1>2. v = [k \in 1..Len(v) |-> v[k]] /\ Len(v) = 1
  OBVIOUS
<1>3. v = <<v[1]>>
  BY <1>1, <1>2
<1>. QED  BY <1>1, <1>3 DEF ToSet

(* The calls for one place after the other.                                *)
LEMMA CallsAfter ==
    ASSUME NEW n \in Nat, NEW ss, ss = [k \in 1..n |-> ss[k]],
           \A k \in 1..n : ss[k] \in Seq(ExtractCall), NEW old \in Seq(ExtractCall)
    PROVE  ToSet(FlattenSeq(ss) \o old) = AllOf(ss, 1..n) \union ToSet(old)
<1>1. ss \in Seq(Seq(ExtractCall)) /\ DOMAIN ss = 1..n
  OBVIOUS
<1>. DEFINE new == FlattenSeq(ss)
<1>2. new \in Seq(ExtractCall) /\ ToSet(new) = AllOf(ss, 1..n)
  BY <1>1, FlattenFacts
<1>. HIDE DEF new
<1>3. \A c \in Seq(ExtractCall) : ToSet(c \o old) = ToSet(c) \union ToSet(old)
  BY ToSetConcat
<1>. QED  BY <1>2, <1>3 DEF new

LEMMA CallsBelowFacts ==
    ASSUME Given, NEW e \in DOMAIN Entity, NEW path \in Seq(STRING), NEW place \in Seq(STRING)
    PROVE  /\ Extract(Children(e), path, place) \in Seq(ExtractCall)
           /\ ToSet(Extract(Children(e), path, place)) = ExtractsOf(Below(e), path, place)
<1>. PICK S : S = DOMAIN Entity
  OBVIOUS
<1>1. PICK es \in Seq(S) : S = DOMAIN Entity /\ es = Children(e)
  BY ChildrenFacts
<1>2. S \subseteq STRING
  BY <1>1, OfIsTyped
<1>3. Extract(es, path, place) \in Seq(ExtractCall)
  BY <1>1, ExtractTyped
<1>4. ToSet(Extract(es, path, place)) = ExtractsOf(ToSet(es), path, place)
  BY <1>2, ExtractFacts
<1>. QED  BY <1>1, <1>3, <1>4 DEF Below

LEMMA ChapterIsExtracted ==
    ASSUME ObjectsTyped, ModelInv, VisitInv, ExtractInv, IsTree, ExtractChapter
    PROVE  ExtractInv'
<1>. PICK f : f = Current
  OBVIOUS
<1>1. /\ ctx' = ctx /\ stage' = "extract" /\ Given
      /\ CallsAreRight /\ RepliesComing /\ ValuesAreRight
      /\ f \in ExtractCall /\ f.path \in Seq(STRING) /\ f.path # <<>> /\ Begins(f.path, f.path)
      /\ f.entity \in DOMAIN Entity /\ f.entity \in InModel /\ TypeOf(f.entity) \in {"Chapter"}
      /\ Last(f.path) = f.entity /\ OnEntity(f.path)
      /\ RightCall(f) /\ Live(f.path) /\ Passable(f.path)
      /\ f.at = HomeOf(f.path) /\ f.at \in DOMAIN extracted
      /\ ToSet(todo) = {f} \union ToSet(Tail(todo)) /\ Tail(todo) \in Seq(ExtractCall)
      /\ (KeyOf(f.entity) # None <=> IsKeyed)
  <2>1. Extracting({"Chapter"})
    BY DEF ExtractChapter
  <2>. QED  BY <2>1, CalledFacts
<1>2. f.path = <<f.entity>> /\ IsA(f.entity, {"Chapter", "Answer"}) /\ f.entity \in Of({"Chapter"})
  BY <1>1 DEF RightCall, QuestionTypes, IsA, Of
<1>. DEFINE place == IF MakesObject(f.path) THEN f.path ELSE HomeOf(f.path)
            new == ExtractsOf(Below(f.entity), f.path, place)
            value == <<f.path>>
            places == {f.path}
<1>3. MakesObject(f.path) <=> KeyOf(f.entity) # None
  BY <1>1, ChaptersMakeObjects
<1>4. place = ObjectOf(f.path)
  BY <1>1, <1>3 DEF ObjectOf
<1>5. Replaced(f, new, ToSet(Tail(todo)))
  <2>. DEFINE calls == Extract(Children(f.entity), f.path, place)
  <2>1. todo' = calls \o Tail(todo)
    BY <1>4 DEF ExtractChapter
  <2>2. place \in Seq(STRING)
    BY <1>1, HomeBegins
  <2>. HIDE DEF place
  <2>3. calls \in Seq(ExtractCall) /\ ToSet(calls) = new
    BY <1>1, <2>2, CallsBelowFacts
  <2>. HIDE DEF calls, new
  <2>4. ToSet(calls \o Tail(todo)) = ToSet(calls) \union ToSet(Tail(todo))
    BY <1>1, <2>3, ToSetConcat
  <2>. QED  BY <1>1, <2>1, <2>3, <2>4 DEF Replaced
<1>6. Written(f, value, places)
  BY DEF ExtractChapter, Record, IsKeyed, Written
<1>7. f.at \in DOMAIN extracted' /\ place \in DOMAIN extracted'
  <2>1. CASE KeyOf(f.entity) = None
    BY <1>1, <1>3, <1>6, <2>1 DEF Written
  <2>2. CASE KeyOf(f.entity) # None
    BY <1>1, <1>3, <1>6, <2>2 DEF Written
  <2>. QED  BY <2>1, <2>2
<1>8. \A q \in Below(f.entity) : LeadsOn(f.path, q)
  BY <1>1, <1>2 DEF LeadsOn, Below
<1>9. \A c \in new : RightCall(c) /\ c.at \in DOMAIN extracted'
  <2>1. ASSUME NEW q \in Below(f.entity)
        PROVE  RightCall([entity |-> q, path |-> Append(f.path, q), at |-> place])
    <3>1. q \in DOMAIN Entity /\ TypeOf(q) \in QuestionTypes
      BY <1>1, BelowFacts DEF ChildTypes
    <3>. QED  BY <1>1, <1>8, <3>1, CallOnIsRight DEF CallOn
  <2>. HIDE DEF place
  <2>. QED  BY <1>7, <2>1 DEF ExtractsOf
<1>10. Rightful(f.at, KeyOf(f.entity), value)
  <2>1. f.at = Root
    BY <1>1, <1>2, HomeOfFirst
  <2>2. value = <<<<f.entity>>>>
    BY <1>2
  <2>. QED  BY <1>2, <2>1, <2>2 DEF Rightful
<1>11. ASSUME NEW p \in Extractable, Begins(f.path, p)
       PROVE  \E c \in new : Begins(c.path, p)
  <2>1. p \in Seq(STRING) /\ Live(p) /\ f.path # p
    BY <1>1, ExtractableFacts DEF IsA, QuestionTypes
  <2>2. PICK x \in STRING : LeadsOn(f.path, x) /\ Begins(Append(f.path, x), p)
    BY <1>1, <1>11, <2>1, GoesOn
  <2>3. ByChapterOrAnswer(f.path, x) \/ ByItem(f.path, x) \/ ByOptions(f.path, x) \/ ByList(f.path, x)
    BY <1>1, <2>2, WaysOn
  <2>4. x \in Below(f.entity)
    BY <1>1, <2>3, ItemsAreNoEntities DEF ByChapterOrAnswer, ByItem, ByOptions, ByList, OnItem
  <2>5. [entity |-> x, path |-> Append(f.path, x), at |-> place] \in new
    BY <2>4, Zenon DEF ExtractsOf
  <2>6. [entity |-> x, path |-> Append(f.path, x), at |-> place].path = Append(f.path, x)
    OBVIOUS
  <2>. HIDE DEF new, place
  <2>. QED  BY <2>2, <2>5, <2>6
<1>. HIDE DEF new, value
<1>. QED  BY <1>1, <1>5, <1>6, <1>9, <1>10, <1>11, ExtractionGoesOn

(* A question without follow-ups: no path goes on.                         *)
LEMMA LeafIsExtracted ==
    ASSUME ObjectsTyped, ModelInv, VisitInv, ExtractInv, IsTree, NEW types, Extracting(types),
           types \subseteq QuestionTypes \ {"OptionsQuestion", "ListQuestion"},
           todo' = Tail(todo), NEW f, f = Current, NEW value, Record(value, {}),
           value # <<>> => f.path \in Paths /\ Answers(f.path) /\ value = Worth(f.path),
           f.path \in Paths /\ Answers(f.path) => value = Worth(f.path)
    PROVE  ExtractInv'
<1>1. /\ ctx' = ctx /\ stage' = "extract" /\ Given
      /\ CallsAreRight /\ RepliesComing /\ ValuesAreRight
      /\ f \in ExtractCall /\ f.path \in Seq(STRING) /\ f.path # <<>>
      /\ f.entity \in DOMAIN Entity /\ f.entity \in InModel /\ TypeOf(f.entity) \in types
      /\ Last(f.path) = f.entity /\ OnEntity(f.path)
      /\ RightCall(f) /\ f.at = HomeOf(f.path)
      /\ ToSet(todo) = {f} \union ToSet(Tail(todo))
  BY CalledFacts
<1>2. TypeOf(f.entity) \in QuestionTypes \ {"OptionsQuestion", "ListQuestion"}
  BY <1>1
<1>. DEFINE new == {}
            places == {}
<1>3. Replaced(f, new, ToSet(Tail(todo)))
  BY <1>1 DEF Replaced
<1>4. Written(f, value, places)
  BY DEF Record, IsKeyed, Written
<1>5. KeyOf(f.entity) # None => Rightful(f.at, KeyOf(f.entity), value)
  <2>. SUFFICES ASSUME KeyOf(f.entity) # None, value # <<>>
                PROVE  Rightful(f.at, KeyOf(f.entity), value)
    BY DEF Rightful
  <2>1. f.path \in Extractable /\ value = Worth(f.path)
    BY <1>1, <1>2, CalledIsExtractable
  <2>. QED  BY <1>1, <2>1 DEF Rightful
<1>6. ASSUME NEW p \in Extractable, Begins(f.path, p)
      PROVE  p = f.path /\ value = Worth(p)
  <2>1. p \in Seq(STRING) /\ Live(p) /\ p \in Paths /\ Answers(p)
    BY <1>1, ExtractableFacts
  <2>2. p = f.path
    <3>. SUFFICES ASSUME f.path # p  PROVE FALSE
      OBVIOUS
    <3>1. PICK x \in STRING : LeadsOn(f.path, x)
      BY <1>1, <1>6, <2>1, GoesOn
    <3>2. ByChapterOrAnswer(f.path, x) \/ ByItem(f.path, x) \/ ByOptions(f.path, x) \/ ByList(f.path, x)
      BY <1>1, <3>1, WaysOn
    <3>. QED
      BY <1>1, <1>2, <3>2, ItemsAreNoEntities
      DEF ByChapterOrAnswer, ByItem, ByOptions, ByList, OnItem, QuestionTypes
  <2>. QED  BY <2>1, <2>2
<1>7. \A c \in new : RightCall(c) /\ c.at \in DOMAIN extracted'
  OBVIOUS
<1>8. \A o \in places : o \in Seq(STRING) /\ Begins(f.path, o)
  OBVIOUS
<1>. HIDE DEF new, places
<1>. QED  BY <1>1, <1>3, <1>4, <1>5, <1>6, <1>7, <1>8, ExtractionGoesOn

LEMMA FileIsChosen ==
    ASSUME Given, NEW p \in Paths, ChosenIs(p), ReplyAt(p).type = "FileReply"
    PROVE  chosen[p] = <<>> <=> ReplyAt(p).value[1] \notin ctx.files
<1>. DEFINE v == ReplyAt(p).value
<1>1. v \in Seq(STRING) /\ Len(v) = 1
  BY ReplyFacts DEF SingleTypes
<1>2. chosen[p] = Kept(v, ctx.files)
  BY DEF ChosenIs, Linked
<1>. HIDE DEF v
<1>. PICK S : S = ctx.files
  OBVIOUS
<1>. PICK T : T = STRING \intersect S
  OBVIOUS
<1>3. Kept(v, S) \in Seq(T) /\ ToSet(Kept(v, S)) = ToSet(v) \intersect S
  BY <1>1, KeptFacts
<1>4. ToSet(v) = {v[1]}
  BY <1>1, OneIsAll
<1>5. PICK c \in Seq(T) : c = chosen[p] /\ ToSet(c) = {v[1]} \intersect S
  BY <1>2, <1>3, <1>4
<1>6. c = <<>> <=> ToSet(c) = {}
  <2>1. c = <<>> <=> DOMAIN c = {}
    <3>1. c # <<>> => 1 \in DOMAIN c
      OBVIOUS
    <3>. QED  BY <3>1
  <2>. QED  BY <2>1 DEF ToSet
<1>. QED  BY <1>5, <1>6 DEF v

LEMMA ReplyIsExtracted ==
    ASSUME ObjectsTyped, ModelInv, VisitInv, ExtractInv, IsTree, ExtractReply
    PROVE  ExtractInv'
<1>. DEFINE types == {"ValueQuestion", "IntegrationQuestion", "ItemSelectQuestion", "FileQuestion"}
<1>. PICK f : f = Current
  OBVIOUS
<1>. DEFINE path == f.path
            reply == HasReply(path, ReplyTypeOf(f.entity))
            gone == HasReply(path, "FileReply") /\ chosen[path] = <<>>
            value == IF reply /\ ~gone THEN <<path>> ELSE <<>>
<1>1. /\ Extracting(types) /\ types \subseteq QuestionTypes \ {"OptionsQuestion", "ListQuestion"}
      /\ todo' = Tail(todo) /\ Record(value, {})
  BY DEF ExtractReply, QuestionTypes
<1>2. /\ Given /\ TypeOf(f.entity) \in types /\ Last(path) = f.entity
      /\ \A x \in Paths : ChosenIs(x)
  BY <1>1, CalledFacts
<1>3. path \in Paths /\ Answers(path) <=> reply
  BY <1>2 DEF HasReply, Answers, ReplyTypeOf
<1>4. reply => value = Worth(path)
  <2>. SUFFICES ASSUME reply  PROVE value = Worth(path)
    OBVIOUS
  <2>1. path \in Paths /\ ReplyAt(path).type = ReplyTypeOf(f.entity)
    BY DEF HasReply
  <2>2. ReplyTypeOf(f.entity) \in {"StringReply", "IntegrationReply", "ItemSelectReply", "FileReply"}
    BY <1>2 DEF ReplyTypeOf
  <2>3. CASE ReplyAt(path).type = "FileReply"
    <3>1. Worth(path) = IF ReplyAt(path).value[1] \in ctx.files THEN <<path>> ELSE <<>>
      BY <2>3 DEF Worth
    <3>2. gone <=> ReplyAt(path).value[1] \notin ctx.files
      BY <1>2, <2>1, <2>3, FileIsChosen DEF HasReply
    <3>. HIDE DEF path, gone, reply
    <3>. QED  BY <3>1, <3>2
  <2>4. CASE ReplyAt(path).type # "FileReply"
    <3>1. Worth(path) = <<path>>
      BY <2>1, <2>2, <2>4 DEF Worth
    <3>2. ~gone
      BY <2>4 DEF HasReply
    <3>. HIDE DEF path, gone, reply
    <3>. QED  BY <3>1, <3>2
  <2>. QED  BY <2>3, <2>4
<1>5. value # <<>> => reply
  OBVIOUS
<1>. HIDE DEF value, reply, types
<1>. QED  BY <1>1, <1>3, <1>4, <1>5, LeafIsExtracted

LEMMA ChoicesAreExtracted ==
    ASSUME ObjectsTyped, ModelInv, VisitInv, ExtractInv, IsTree, ExtractChoices
    PROVE  ExtractInv'
<1>. DEFINE types == {"MultiChoiceQuestion"}
<1>. PICK f : f = Current
  OBVIOUS
<1>. DEFINE path == f.path
            reply == HasReply(path, "MultiChoiceReply")
            value == IF reply THEN chosen[path] ELSE <<>>
<1>1. /\ Extracting(types) /\ types \subseteq QuestionTypes \ {"OptionsQuestion", "ListQuestion"}
      /\ todo' = Tail(todo) /\ Record(value, {})
  BY DEF ExtractChoices, QuestionTypes
<1>2. /\ Given /\ TypeOf(f.entity) \in types /\ Last(path) = f.entity
      /\ \A x \in Paths : ChosenIs(x)
  BY <1>1, CalledFacts
<1>3. path \in Paths /\ Answers(path) <=> reply
  BY <1>2 DEF HasReply, Answers
<1>4. reply => value = Worth(path)
  BY <1>2 DEF HasReply, ChosenIs, Linked, Worth
<1>5. value # <<>> => reply
  OBVIOUS
<1>. HIDE DEF value, reply, types
<1>. QED  BY <1>1, <1>3, <1>4, <1>5, LeafIsExtracted

(* The questions below the chosen answer, if it is followed.               *)
AnswerCalls(path) ==
    UNION {ExtractsOf(Below(a), Append(path, a), ObjectOf(Append(path, a))) : a \in ToSet(Followed(path))}

LEMMA AnswerCallsFacts ==
    ASSUME ObjectsTyped, ExtractAnswer, NEW path, path = Current.path
    PROVE  ToSet(todo') = AnswerCalls(path) \union ToSet(Tail(todo))
<1>1. Extracting({"OptionsQuestion"}) /\ Given
  BY DEF ExtractAnswer, ObjectsTyped
<1>2. path \in Seq(STRING) /\ Current.at \in Seq(STRING) /\ Loaded
  BY <1>1, ExtractingFacts
<1>. DEFINE fs == Followed(path)
            longer(a) == Append(path, a)
            calls(a) == Extract(Children(a), longer(a), ObjectOf(longer(a)))
            old == Tail(todo)
<1>3. todo' = FlattenSeq([k \in DOMAIN fs |-> calls(fs[k])]) \o old
  BY DEF ExtractAnswer
<1>4. fs \in Seq(DOMAIN Entity) /\ old \in Seq(ExtractCall)
  BY <1>1, <1>2, ExtractingFacts, FollowedIsTyped
<1>. HIDE DEF fs, old
<1>5. ASSUME NEW a \in DOMAIN Entity
      PROVE  /\ calls(a) \in Seq(ExtractCall)
             /\ ToSet(calls(a)) = ExtractsOf(Below(a), longer(a), ObjectOf(longer(a)))
  <2>1. longer(a) \in Seq(STRING)
    BY <1>1, <1>2, OfIsTyped
  <2>. HIDE DEF longer
  <2>2. ObjectOf(longer(a)) \in Seq(STRING)
    BY <1>2, <2>1 DEF ObjectOf
  <2>. QED  BY <1>1, <2>1, <2>2, CallsBelowFacts
<1>. HIDE DEF calls
<1>6. DOMAIN fs = 1..Len(fs) /\ Len(fs) \in Nat /\ \A k \in 1..Len(fs) : fs[k] \in DOMAIN Entity
  BY <1>4
<1>. DEFINE ss == [k \in 1..Len(fs) |-> calls(fs[k])]
<1>7. ss = [k \in 1..Len(fs) |-> ss[k]] /\ \A k \in 1..Len(fs) : ss[k] \in Seq(ExtractCall)
  BY <1>5, <1>6
<1>8. todo' = FlattenSeq(ss) \o old
  BY <1>3, <1>6
<1>9. \A k \in 1..Len(fs) : ToSet(ss[k]) = ToSet(calls(fs[k]))
  OBVIOUS
<1>. HIDE DEF ss
<1>10. ToSet(todo') = AllOf(ss, 1..Len(fs)) \union ToSet(old)
  BY <1>4, <1>6, <1>7, <1>8, CallsAfter
<1>11. AllOf(ss, 1..Len(fs)) = AnswerCalls(path)
  <2>1. ToSet(fs) = {fs[k] : k \in 1..Len(fs)}
    BY <1>6 DEF ToSet
  <2>2. \A k \in 1..Len(fs) : ToSet(ss[k]) = ExtractsOf(Below(fs[k]), longer(fs[k]), ObjectOf(longer(fs[k])))
    BY <1>5, <1>6, <1>9
  <2>3. AnswerCalls(path) = UNION {ExtractsOf(Below(a), longer(a), ObjectOf(longer(a))) : a \in ToSet(fs)}
    BY DEF AnswerCalls, fs
  <2>. HIDE DEF longer
  <2>. QED  BY <2>1, <2>2, <2>3 DEF AllOf
<1>. QED  BY <1>10, <1>11 DEF old

(* The answer that is followed is on a right path, and its questions too.  *)
LEMMA FollowedIsRight ==
    ASSUME Given, NEW s \in Seq(STRING), s # <<>>, Live(s), Passable(s), Last(s) \in InModel,
           TypeOf(Last(s)) = "OptionsQuestion", HasReply(s, "AnswerReply"),
           NEW a \in InModel, TypeOf(a) = "Answer", ReplyAt(s).value = <<a>>
    PROVE  /\ Append(s, a) \in Seq(STRING) /\ Append(s, a) # <<>> /\ Last(Append(s, a)) = a
           /\ Live(Append(s, a)) /\ OnEntity(Append(s, a))
           /\ \A q \in Below(a) :
                 RightCall(CallOn(q, Append(s, a), IF KeyOf(Last(s)) = None THEN HomeOf(s) ELSE Append(s, a)))
<1>1. a \in DOMAIN Entity /\ a \in STRING /\ a \notin Items /\ Last(s) \in DOMAIN Entity
  BY InModelIsTyped
<1>2. LeadsOn(s, a)
  BY <1>1 DEF LeadsOn, IsA
<1>3. Live(Append(s, a)) /\ Passable(Append(s, a))
  BY <1>1, <1>2, LiveGrows, PassableGrows
<1>4. HomeOf(Append(s, a)) = HomeOf(s)
  BY <1>1, HomeGrows, QuestionsMakeNone DEF QuestionTypes
<1>. DEFINE u == Append(s, a)
<1>5. /\ u \in Seq(STRING) /\ u # <<>> /\ Last(u) = a /\ Len(u) = Len(s) + 1 /\ Len(s) \in Nat \ {0}
      /\ \A k \in 1..Len(s) : u[k] = s[k]
  <2>1. Len(s) \in Nat \ {0}
    OBVIOUS
  <2>. QED  BY <1>1, <2>1, AppendFacts
<1>6. Live(u) /\ Passable(u) /\ HomeOf(u) = HomeOf(s)
  BY <1>3, <1>4
<1>. HIDE DEF u
<1>7. u[Len(u) - 1] = Last(s)
  <2>1. Len(u) - 1 = Len(s) /\ Len(s) \in 1..Len(s)
    BY <1>5
  <2>. QED  BY <1>5, <2>1 DEF Last
<1>8. MakesObject(u) <=> KeyOf(Last(s)) # None
  BY <1>5, <1>7, AnswersMakeObjects
<1>9. \A q \in Below(a) : RightCall(CallOn(q, u, IF KeyOf(Last(s)) = None THEN HomeOf(s) ELSE u))
  <2>. TAKE q \in Below(a)
  <2>1. q \in DOMAIN Entity /\ TypeOf(q) \in QuestionTypes
    BY BelowFacts DEF ChildTypes
  <2>2. LeadsOn(u, q)
    BY <1>1, <1>5 DEF LeadsOn, IsA, Below
  <2>3. RightCall(CallOn(q, u, IF MakesObject(u) THEN u ELSE HomeOf(u)))
    BY <1>5, <1>6, <2>1, <2>2, CallOnIsRight
  <2>. QED  BY <1>6, <1>8, <2>3
<1>10. OnEntity(u)
  BY <1>5 DEF OnEntity
<1>. QED  BY <1>5, <1>6, <1>9, <1>10 DEF u

(* What an options question is worth: the path of its chosen answer.       *)
LEMMA AnswerIsWorth ==
    ASSUME Given, NEW p \in Paths, ChosenIs(p), ReplyAt(p).type = "AnswerReply"
    PROVE  [k \in DOMAIN chosen[p] |-> Append(p, chosen[p][k])] = Worth(p)
<1>. DEFINE v == ReplyAt(p).value
<1>1. v \in Seq(STRING) /\ Len(v) = 1 /\ p \in Seq(STRING)
  BY ReplyFacts DEF SingleTypes
<1>. PICK c : c = chosen[p]
  OBVIOUS
<1>2. Worth(p) = [k \in DOMAIN c |-> p \o v] /\ c = Existing(v, {"Answer"})
  BY DEF Worth, ChosenIs, Linked
<1>. HIDE DEF v
<1>3. v = <<v[1]>> /\ v[1] \in STRING /\ ToSet(v) = {v[1]}
  BY <1>1, OneIsAll
<1>4. ToSet(c) \subseteq {v[1]}
  BY <1>1, <1>2, <1>3, ExistingFacts
<1>5. \A k \in DOMAIN c : c[k] = v[1]
  BY <1>4 DEF ToSet
<1>6. Append(p, v[1]) = p \o v
  <2>. PICK x \in STRING : x = v[1]
    BY <1>3
  <2>1. Append(p, x) = p \o <<x>>
    BY <1>1
  <2>. QED  BY <1>3, <2>1
<1>. QED  BY <1>2, <1>5, <1>6

LEMMA AnswerIsExtracted ==
    ASSUME ObjectsTyped, ModelInv, VisitInv, ExtractInv, IsTree, ExtractAnswer
    PROVE  ExtractInv'
<1>. PICK f : f = Current
  OBVIOUS
<1>. PICK path : path = f.path
  OBVIOUS
<1>1. /\ ctx' = ctx /\ stage' = "extract" /\ Given /\ Loaded /\ AfterModel
      /\ CallsAreRight /\ RepliesComing /\ ValuesAreRight /\ \A x \in Paths : ChosenIs(x)
  BY CalledFacts DEF ExtractAnswer
<1>2. /\ f \in ExtractCall /\ path \in Seq(STRING) /\ path # <<>>
      /\ f.entity \in DOMAIN Entity /\ f.entity \in InModel /\ TypeOf(f.entity) = "OptionsQuestion"
      /\ Last(path) = f.entity /\ OnEntity(path)
      /\ RightCall(f) /\ Live(path) /\ Passable(path)
      /\ f.at = HomeOf(path) /\ f.at \in DOMAIN extracted
      /\ ToSet(todo) = {f} \union ToSet(Tail(todo))
  <2>1. Extracting({"OptionsQuestion"})
    BY DEF ExtractAnswer
  <2>. QED  BY <2>1, CalledFacts
<1>. DEFINE answered == HasReply(path, "AnswerReply")
            answers == IF answered THEN chosen[path] ELSE <<>>
            value == [k \in DOMAIN answers |-> Append(path, answers[k])]
            places == {Append(path, a) : a \in ToSet(answers)}
            new == AnswerCalls(path)
<1>3. Replaced(f, new, ToSet(Tail(todo)))
  BY <1>2, AnswerCallsFacts DEF Replaced
<1>4. Written(f, value, places)
  <2>1. Record(value, places)
    BY DEF ExtractAnswer
  <2>. QED  BY <2>1 DEF Record, IsKeyed, Written
<1>5. \A c \in new : \E a \in ToSet(Followed(path)) : \E q \in Below(a) :
         c = CallOn(q, Append(path, a), IF KeyOf(f.entity) = None THEN f.at ELSE Append(path, a))
  BY DEF AnswerCalls, ExtractsOf, CallOn, ObjectOf, IsKeyed
<1>6. \A a \in ToSet(Followed(path)) : \A q \in Below(a) :
         \E c \in new : c.path = Append(Append(path, a), q)
  <2>. TAKE a \in ToSet(Followed(path))
  <2>. TAKE q \in Below(a)
  <2>. DEFINE c == [entity |-> q, path |-> Append(Append(path, a), q), at |-> ObjectOf(Append(path, a))]
  <2>1. c \in ExtractsOf(Below(a), Append(path, a), ObjectOf(Append(path, a)))
    BY Zenon DEF ExtractsOf
  <2>2. c.path = Append(Append(path, a), q)
    OBVIOUS
  <2>. HIDE DEF c
  <2>3. c \in new
    BY <2>1, Zenon DEF AnswerCalls
  <2>. QED  BY <2>2, <2>3
<1>. HIDE DEF new
<1>7. answered => path \in Paths /\ ReplyAt(path).type = "AnswerReply" /\ ChosenIs(path)
  BY <1>1 DEF HasReply
<1>8. \A a \in ToSet(Followed(path)) : answered /\ a \in ToSet(answers)
  BY <1>1, FollowedIsTyped
<1>9. answered => \A a : a \in ToSet(Followed(path)) <=>
                            ReplyAt(path).value = <<a>> /\ IsA(a, {"Answer"}) /\ a \in InModel
  BY <1>1, <1>7, FollowedLeadsOn
<1>10. ASSUME NEW c \in new  PROVE RightCall(c) /\ c.at \in DOMAIN extracted'
  <2>0. PICK a \in ToSet(Followed(path)) : \E q \in Below(a) :
           c = CallOn(q, Append(path, a), IF KeyOf(f.entity) = None THEN f.at ELSE Append(path, a))
    BY <1>5
  <2>1. PICK q \in Below(a) :
           c = CallOn(q, Append(path, a), IF KeyOf(f.entity) = None THEN f.at ELSE Append(path, a))
    BY <2>0
  <2>2. /\ answered /\ a \in ToSet(answers) /\ ReplyAt(path).value = <<a>>
        /\ a \in InModel /\ TypeOf(a) = "Answer"
    BY <1>8, <1>9 DEF IsA
  <2>. HIDE DEF answers, value
  <2>3. RightCall(c)
    BY <1>1, <1>2, <2>1, <2>2, FollowedIsRight
  <2>4. CASE KeyOf(f.entity) = None
    <3>1. c.at = f.at /\ extracted' = extracted
      BY <1>4, <2>1, <2>4 DEF CallOn, Written
    <3>. QED  BY <1>2, <2>3, <3>1
  <2>5. CASE KeyOf(f.entity) # None
    <3>1. c.at = Append(path, a) /\ Append(path, a) \in places
      BY <2>1, <2>2, <2>5 DEF CallOn
    <3>2. places \subseteq DOMAIN extracted'
      BY <1>4, <2>5 DEF Written
    <3>. QED  BY <2>3, <3>1, <3>2
  <2>. QED  BY <2>4, <2>5
<1>11. path \in Paths /\ Answers(path) <=> answered
  BY <1>2 DEF Answers, HasReply
<1>12. answered => value = Worth(path)
  BY <1>1, <1>7, AnswerIsWorth
<1>13. ~answered => value = <<>>
  OBVIOUS
<1>14. KeyOf(f.entity) # None => Rightful(f.at, KeyOf(f.entity), value)
  <2>. HIDE DEF value, answered
  <2>. SUFFICES ASSUME KeyOf(f.entity) # None, answered
                PROVE  Rightful(f.at, KeyOf(f.entity), value)
    BY <1>13 DEF Rightful
  <2>1. path \in Extractable
    BY <1>1, <1>2, <1>11, CalledIsExtractable DEF QuestionTypes
  <2>. QED  BY <1>2, <1>12, <2>1 DEF Rightful
<1>15. ASSUME NEW p \in Extractable, Begins(path, p)
       PROVE  (p = path /\ value = Worth(p)) \/ \E c \in new : Begins(c.path, p)
  <2>. HIDE DEF value, answered
  <2>1. p \in Seq(STRING) /\ Live(p) /\ p \in Paths /\ Answers(p) /\ IsA(Last(p), QuestionTypes)
    BY <1>1, ExtractableFacts
  <2>2. CASE p = path
    BY <1>11, <1>12, <2>1, <2>2
  <2>3. CASE p # path
    <3>1. PICK a \in STRING : LeadsOn(path, a) /\ Begins(Append(path, a), p)
      BY <1>2, <1>15, <2>1, <2>3, GoesOn
    <3>2. ByChapterOrAnswer(path, a) \/ ByItem(path, a) \/ ByOptions(path, a) \/ ByList(path, a)
      BY <1>1, <1>2, <3>1, WaysOn
    <3>3. ByOptions(path, a)
      BY <1>1, <1>2, <3>2, ItemsAreNoEntities DEF ByChapterOrAnswer, ByItem, ByList, OnItem
    <3>4. /\ HasReply(path, "AnswerReply") /\ ReplyAt(path).value = <<a>>
          /\ a \in InModel /\ TypeOf(a) = "Answer" /\ a \in DOMAIN Entity
      BY <1>1, <3>3, InModelIsTyped DEF ByOptions
    <3>5. a \in ToSet(Followed(path))
      BY <1>9, <3>4 DEF IsA, answered
    <3>6. PICK u : u = Append(path, a)
      OBVIOUS
    <3>7. u \in Seq(STRING) /\ u # <<>> /\ Last(u) = a /\ OnEntity(u) /\ Begins(u, p)
      BY <1>1, <1>2, <3>1, <3>4, <3>6, FollowedIsRight
    <3>8. u # p
      BY <2>1, <3>4, <3>7 DEF IsA, QuestionTypes
    <3>9. PICK q \in STRING : LeadsOn(u, q) /\ Begins(Append(u, q), p)
      BY <2>1, <3>7, <3>8, GoesOn
    <3>10. ByChapterOrAnswer(u, q) \/ ByItem(u, q) \/ ByOptions(u, q) \/ ByList(u, q)
      BY <1>1, <3>7, <3>9, WaysOn
    <3>11. q \in Below(a)
      BY <1>1, <3>4, <3>7, <3>10, ItemsAreNoEntities DEF ByChapterOrAnswer, ByItem, ByOptions, ByList, OnItem
    <3>12. \E c \in new : c.path = Append(u, q)
      BY <1>6, <3>5, <3>6, <3>11
    <3>. QED  BY <3>9, <3>12
  <2>. QED  BY <2>2, <2>3
<1>16. \A o \in places : o \in Seq(STRING) /\ Begins(path, o)
  <2>1. answered => chosen[path] \in Seq(STRING)
    BY <1>1, <1>7 DEF ObjectsTyped, RepliesTyped
  <2>. HIDE DEF answered
  <2>2. answers = chosen[path] \/ answers = <<>>
    OBVIOUS
  <2>3. answered \/ answers = <<>>
    OBVIOUS
  <2>4. <<>> \in Seq(STRING)
    OBVIOUS
  <2>. HIDE DEF answers
  <2>5. answers \in Seq(STRING)
    BY <2>1, <2>2, <2>3, <2>4, Zenon
  <2>6. ASSUME NEW a \in ToSet(answers)
        PROVE  Append(path, a) \in Seq(STRING) /\ Begins(path, Append(path, a))
    <3>1. a \in STRING
      BY <2>5 DEF ToSet
    <3>. QED  BY <1>2, <3>1, AppendFacts
  <2>. QED  BY <2>6
<1>. HIDE DEF value, places
<1>. QED  BY <1>1, <1>2, <1>3, <1>4, <1>10, <1>14, <1>15, <1>16, ExtractionGoesOn

(* The questions of every item of a list.                                  *)
ItemsFollowed(path) == IF HasReply(path, "ItemListReply") /\ IsKeyed THEN ReplyAt(path).value ELSE <<>>
ItemCallsBelow(path) ==
    UNION {ExtractsOf(Below(Current.entity), Append(path, i), Append(path, i)) : i \in ToSet(ItemsFollowed(path))}

LEMMA ItemCallsFacts ==
    ASSUME ObjectsTyped, ExtractItems, NEW path, path = Current.path
    PROVE  /\ ToSet(todo') = ItemCallsBelow(path) \union ToSet(Tail(todo))
           /\ ItemsFollowed(path) \in Seq(Items)
           /\ Record([k \in DOMAIN ItemsFollowed(path) |-> Append(path, ItemsFollowed(path)[k])],
                     {Append(path, i) : i \in ToSet(ItemsFollowed(path))})
<1>1. Extracting({"ListQuestion"}) /\ Given
  BY DEF ExtractItems, ObjectsTyped
<1>2. path \in Seq(STRING) /\ Current.entity \in DOMAIN Entity /\ Tail(todo) \in Seq(ExtractCall)
  BY <1>1, ExtractingFacts
<1>3. ItemsFollowed(path) \in Seq(Items)
  <2>1. ItemsFollowed(path) = ItemsAt(path) \/ ItemsFollowed(path) = <<>>
    BY DEF ItemsFollowed, ItemsAt
  <2>2. ItemsAt(path) \in Seq(Items) /\ <<>> \in Seq(Items)
    BY <1>1, ItemsAreTyped
  <2>. QED  BY <2>1, <2>2
<1>. DEFINE items == ItemsFollowed(path)
            place(i) == Append(path, i)
            places == [k \in DOMAIN items |-> place(items[k])]
            calls(i) == Extract(Children(Current.entity), place(i), place(i))
            old == Tail(todo)
<1>4. /\ todo' = FlattenSeq([k \in DOMAIN items |->
                    Extract(Children(Current.entity), places[k], places[k])]) \o old
      /\ Record(places, ToSet(places))
  BY DEF ExtractItems, ItemsFollowed
<1>5. \A k \in DOMAIN items : places[k] = place(items[k])
  OBVIOUS
<1>6. todo' = FlattenSeq([k \in DOMAIN items |-> calls(items[k])]) \o old
  <2>1. \A k \in DOMAIN items : Extract(Children(Current.entity), places[k], places[k]) = calls(items[k])
    BY <1>5
  <2>. HIDE DEF calls, places, items, old
  <2>2. [k \in DOMAIN items |-> Extract(Children(Current.entity), places[k], places[k])]
        = [k \in DOMAIN items |-> calls(items[k])]
    BY <2>1
  <2>. QED  BY <1>4, <2>2, Zenon
<1>7. ToSet(places) = {place(i) : i \in ToSet(items)}
  <2>1. DOMAIN places = DOMAIN items
    OBVIOUS
  <2>. HIDE DEF places, items, place
  <2>. QED  BY <1>5, <2>1 DEF ToSet
<1>8. items \in Seq(Items) /\ old \in Seq(ExtractCall)
  BY <1>2, <1>3
<1>. HIDE DEF items, old, places
<1>9. ASSUME NEW i \in Items
      PROVE  /\ calls(i) \in Seq(ExtractCall)
             /\ ToSet(calls(i)) = ExtractsOf(Below(Current.entity), place(i), place(i))
  <2>1. place(i) \in Seq(STRING)
    BY <1>2, ContextAssumption
  <2>. HIDE DEF place
  <2>. QED  BY <1>1, <1>2, <2>1, CallsBelowFacts
<1>. HIDE DEF calls
<1>10. DOMAIN items = 1..Len(items) /\ Len(items) \in Nat /\ \A k \in 1..Len(items) : items[k] \in Items
  BY <1>8
<1>. DEFINE ss == [k \in 1..Len(items) |-> calls(items[k])]
<1>11. ss = [k \in 1..Len(items) |-> ss[k]] /\ \A k \in 1..Len(items) : ss[k] \in Seq(ExtractCall)
  BY <1>9, <1>10
<1>12. todo' = FlattenSeq(ss) \o old
  BY <1>6, <1>10
<1>13. \A k \in 1..Len(items) : ToSet(ss[k]) = ToSet(calls(items[k]))
  OBVIOUS
<1>. HIDE DEF ss
<1>14. ToSet(todo') = AllOf(ss, 1..Len(items)) \union ToSet(old)
  BY <1>8, <1>10, <1>11, <1>12, CallsAfter
<1>15. AllOf(ss, 1..Len(items)) = ItemCallsBelow(path)
  <2>1. ToSet(items) = {items[k] : k \in 1..Len(items)}
    BY <1>10 DEF ToSet
  <2>2. \A k \in 1..Len(items) :
           ToSet(ss[k]) = ExtractsOf(Below(Current.entity), place(items[k]), place(items[k]))
    BY <1>9, <1>10, <1>13
  <2>3. ItemCallsBelow(path) = UNION {ExtractsOf(Below(Current.entity), place(i), place(i)) : i \in ToSet(items)}
    BY DEF ItemCallsBelow, items
  <2>. HIDE DEF place
  <2>. QED  BY <2>1, <2>2, <2>3 DEF AllOf
<1>. QED  BY <1>3, <1>4, <1>7, <1>14, <1>15 DEF old, items, places

(* An item of an annotated list is on a right path, and its questions too. *)
LEMMA ItemIsRight ==
    ASSUME Given, NEW s \in Seq(STRING), s # <<>>, Live(s), Passable(s), Last(s) \in InModel,
           TypeOf(Last(s)) = "ListQuestion", HasReply(s, "ItemListReply"), KeyOf(Last(s)) # None,
           NEW i \in Items, i \in ToSet(ReplyAt(s).value)
    PROVE  /\ Append(s, i) \in Seq(STRING) /\ Append(s, i) # <<>> /\ Last(Append(s, i)) = i
           /\ Live(Append(s, i)) /\ OnItem(Append(s, i))
           /\ Append(s, i)[Len(Append(s, i)) - 1] = Last(s)
           /\ \A q \in Below(Last(s)) : RightCall(CallOn(q, Append(s, i), Append(s, i)))
<1>1. Last(s) \in DOMAIN Entity /\ i \in STRING
  BY InModelIsTyped, ContextAssumption
<1>2. LeadsOn(s, i)
  BY <1>1 DEF LeadsOn, IsA
<1>3. Live(Append(s, i)) /\ Passable(Append(s, i))
  BY <1>1, <1>2, LiveGrows, PassableGrows
<1>. DEFINE u == Append(s, i)
<1>4. /\ u \in Seq(STRING) /\ u # <<>> /\ Last(u) = i /\ Len(u) = Len(s) + 1 /\ Len(s) \in Nat \ {0}
      /\ \A k \in 1..Len(s) : u[k] = s[k]
  <2>1. Len(s) \in Nat \ {0}
    OBVIOUS
  <2>. QED  BY <1>1, <2>1, AppendFacts
<1>5. Live(u) /\ Passable(u)
  BY <1>3
<1>. HIDE DEF u
<1>6. u[Len(u) - 1] = Last(s) /\ Len(u) > 1
  <2>1. Len(u) - 1 = Len(s) /\ Len(s) \in 1..Len(s) /\ Len(u) > 1
    BY <1>4
  <2>. QED  BY <1>4, <2>1 DEF Last
<1>7. OnItem(u) /\ MakesObject(u)
  BY <1>4, <1>6 DEF OnItem, MakesObject
<1>8. \A q \in Below(Last(s)) : RightCall(CallOn(q, u, u))
  <2>. TAKE q \in Below(Last(s))
  <2>1. q \in DOMAIN Entity /\ TypeOf(q) \in QuestionTypes
    BY BelowFacts DEF ChildTypes
  <2>2. LeadsOn(u, q)
    BY <1>4, <1>6 DEF LeadsOn, Below
  <2>3. RightCall(CallOn(q, u, IF MakesObject(u) THEN u ELSE HomeOf(u)))
    BY <1>4, <1>5, <2>1, <2>2, CallOnIsRight
  <2>. QED  BY <1>7, <2>3
<1>. QED  BY <1>4, <1>5, <1>6, <1>7, <1>8 DEF u

LEMMA ItemsAreExtracted ==
    ASSUME ObjectsTyped, ModelInv, VisitInv, ExtractInv, IsTree, ExtractItems
    PROVE  ExtractInv'
<1>. PICK f : f = Current
  OBVIOUS
<1>. PICK path : path = f.path
  OBVIOUS
<1>1. ctx' = ctx /\ stage' = "extract" /\ Given /\ CallsAreRight /\ RepliesComing /\ ValuesAreRight
  BY CalledFacts DEF ExtractItems
<1>2. /\ f \in ExtractCall /\ path \in Seq(STRING) /\ path # <<>>
      /\ f.entity \in DOMAIN Entity /\ f.entity \in InModel /\ TypeOf(f.entity) = "ListQuestion"
      /\ Last(path) = f.entity /\ OnEntity(path)
      /\ RightCall(f) /\ Live(path) /\ Passable(path)
      /\ f.at = HomeOf(path) /\ f.at \in DOMAIN extracted
      /\ ToSet(todo) = {f} \union ToSet(Tail(todo))
      /\ (KeyOf(f.entity) # None <=> IsKeyed)
  <2>1. Extracting({"ListQuestion"})
    BY DEF ExtractItems
  <2>. QED  BY <2>1, CalledFacts
<1>. DEFINE items == ItemsFollowed(path)
            value == [k \in DOMAIN items |-> Append(path, items[k])]
            places == {Append(path, i) : i \in ToSet(items)}
            new == ItemCallsBelow(path)
            listed == HasReply(path, "ItemListReply")
<1>3. Replaced(f, new, ToSet(Tail(todo))) /\ items \in Seq(Items)
  BY <1>2, ItemCallsFacts DEF Replaced
<1>4. Written(f, value, places)
  <2>1. Record(value, places)
    BY ItemCallsFacts
  <2>. QED  BY <2>1 DEF Record, IsKeyed, Written
<1>5. /\ listed /\ KeyOf(f.entity) # None => items = ReplyAt(path).value
      /\ ~(listed /\ KeyOf(f.entity) # None) => items = <<>>
  BY <1>2 DEF ItemsFollowed
<1>6. \A i \in ToSet(items) :
         /\ i \in Items /\ i \in STRING /\ listed /\ KeyOf(f.entity) # None
         /\ i \in ToSet(ReplyAt(path).value)
  <2>. HIDE DEF items, listed
  <2>1. ToSet(items) \subseteq Items
    BY <1>3 DEF ToSet
  <2>2. ToSet(<<>>) = {}
    BY DEF ToSet
  <2>. QED  BY <1>5, <2>1, <2>2, ContextAssumption
<1>7. \A c \in new : \E i \in ToSet(items) : \E q \in Below(f.entity) :
         c = CallOn(q, Append(path, i), Append(path, i))
  BY DEF ItemCallsBelow, ExtractsOf, CallOn
<1>8. \A i \in ToSet(items) : \A q \in Below(f.entity) :
         \E c \in new : c.path = Append(Append(path, i), q)
  <2>. TAKE i \in ToSet(items)
  <2>. TAKE q \in Below(f.entity)
  <2>. DEFINE c == [entity |-> q, path |-> Append(Append(path, i), q), at |-> Append(path, i)]
  <2>1. c \in ExtractsOf(Below(Current.entity), Append(path, i), Append(path, i))
    BY Zenon DEF ExtractsOf
  <2>2. c.path = Append(Append(path, i), q)
    OBVIOUS
  <2>. HIDE DEF c
  <2>3. c \in new
    BY <2>1, Zenon DEF ItemCallsBelow
  <2>. QED  BY <2>2, <2>3
<1>. HIDE DEF new, items
<1>9. ASSUME NEW c \in new  PROVE RightCall(c) /\ c.at \in DOMAIN extracted'
  <2>1. PICK i \in ToSet(items) : \E q \in Below(f.entity) : c = CallOn(q, Append(path, i), Append(path, i))
    BY <1>7
  <2>2. PICK q \in Below(f.entity) : c = CallOn(q, Append(path, i), Append(path, i))
    BY <2>1
  <2>3. i \in Items /\ listed /\ KeyOf(f.entity) # None /\ i \in ToSet(ReplyAt(path).value)
    BY <1>6
  <2>. HIDE DEF value
  <2>4. RightCall(c)
    BY <1>1, <1>2, <2>2, <2>3, ItemIsRight
  <2>5. c.at = Append(path, i) /\ Append(path, i) \in places
    BY <2>2 DEF CallOn
  <2>6. places \subseteq DOMAIN extracted'
    BY <1>4, <2>3 DEF Written
  <2>. QED  BY <2>4, <2>5, <2>6
<1>10. path \in Paths /\ Answers(path) <=> listed
  BY <1>2 DEF Answers, HasReply
<1>11. listed /\ KeyOf(f.entity) # None => value = Worth(path)
  BY <1>5 DEF HasReply, Worth
<1>12. ~listed => value = <<>>
  BY <1>5
<1>13. KeyOf(f.entity) # None => Rightful(f.at, KeyOf(f.entity), value)
  <2>. HIDE DEF value, listed
  <2>. SUFFICES ASSUME KeyOf(f.entity) # None, listed
                PROVE  Rightful(f.at, KeyOf(f.entity), value)
    BY <1>12 DEF Rightful
  <2>1. path \in Extractable
    BY <1>1, <1>2, <1>10, CalledIsExtractable DEF QuestionTypes
  <2>. QED  BY <1>2, <1>11, <2>1 DEF Rightful
<1>14. ASSUME NEW p \in Extractable, Begins(path, p)
       PROVE  (p = path /\ value = Worth(p)) \/ \E c \in new : Begins(c.path, p)
  <2>. HIDE DEF value
  <2>1. /\ p \in Seq(STRING) /\ Live(p) /\ Passable(p) /\ p \in Paths /\ Answers(p)
        /\ IsA(Last(p), QuestionTypes) /\ KeyOf(Last(p)) # None
    BY <1>1, ExtractableFacts
  <2>2. CASE p = path
    BY <1>2, <1>10, <1>11, <2>1, <2>2
  <2>3. CASE p # path
    <3>1. PICK i \in STRING : /\ LeadsOn(path, i) /\ Begins(Append(path, i), p)
                              /\ i \in Items => KeyOf(f.entity) # None
      BY <1>2, <1>14, <2>1, <2>3, GoesOn
    <3>2. ByChapterOrAnswer(path, i) \/ ByItem(path, i) \/ ByOptions(path, i) \/ ByList(path, i)
      BY <1>1, <1>2, <3>1, WaysOn
    <3>3. ByList(path, i)
      BY <1>1, <1>2, <3>2, ItemsAreNoEntities DEF ByChapterOrAnswer, ByItem, ByOptions, OnItem
    <3>4. listed /\ i \in ToSet(ReplyAt(path).value) /\ i \in Items /\ KeyOf(f.entity) # None
      BY <3>1, <3>3 DEF ByList
    <3>5. i \in ToSet(items)
      BY <1>5, <3>4
    <3>6. PICK u : u = Append(path, i)
      OBVIOUS
    <3>7. u \in Seq(STRING) /\ u # <<>> /\ Last(u) = i /\ OnItem(u) /\ Begins(u, p) /\ u[Len(u) - 1] = f.entity
      BY <1>1, <1>2, <3>1, <3>4, <3>6, ItemIsRight
    <3>8. u # p
      BY <1>1, <2>1, <3>4, <3>7, ItemsAreNoEntities DEF IsA
    <3>9. PICK q \in STRING : LeadsOn(u, q) /\ Begins(Append(u, q), p)
      BY <2>1, <3>7, <3>8, GoesOn
    <3>10. ByChapterOrAnswer(u, q) \/ ByItem(u, q) \/ ByOptions(u, q) \/ ByList(u, q)
      BY <1>1, <3>7, <3>9, WaysOn
    <3>11. q \in Below(f.entity)
      BY <1>1, <3>4, <3>7, <3>10, InModelIsTyped DEF ByChapterOrAnswer, ByItem, ByOptions, ByList
    <3>12. \E c \in new : c.path = Append(u, q)
      BY <1>8, <3>5, <3>6, <3>11
    <3>. QED  BY <3>9, <3>12
  <2>. QED  BY <2>2, <2>3
<1>15. \A o \in places : o \in Seq(STRING) /\ Begins(path, o)
  <2>1. ASSUME NEW i \in ToSet(items)
        PROVE  Append(path, i) \in Seq(STRING) /\ Begins(path, Append(path, i))
    BY <1>2, <1>6, AppendFacts
  <2>. QED  BY <2>1
<1>. HIDE DEF value, places
<1>. QED  BY <1>1, <1>2, <1>3, <1>4, <1>9, <1>13, <1>14, <1>15, ExtractionGoesOn

LEMMA ExtractionStarts ==
    ASSUME ObjectsTyped, StartExtraction
    PROVE  ExtractInv'
<1>1. /\ ctx' = ctx /\ stage' = "extract" /\ Given
      /\ extracted' = [root \in {Root} |-> <<>>] /\ todo' = Extract(Chapters, <<>>, Root)
  BY DEF StartExtraction, ObjectsTyped, Chapters
<1>2. ToSet(todo') = ExtractsOf(ToSet(Chapters), <<>>, Root)
  <2>1. PICK S : S = DOMAIN Entity
    OBVIOUS
  <2>2. S \subseteq STRING /\ Chapters \in Seq(S) /\ <<>> \in Seq(STRING)
    BY <1>1, <2>1, OfIsTyped, ChaptersFacts
  <2>. PICK s : s = <<>>
    OBVIOUS
  <2>3. ToSet(Extract(Chapters, s, Root)) = ExtractsOf(ToSet(Chapters), s, Root)
    BY <2>2, ExtractFacts
  <2>. QED  BY <1>1, <2>3
<1>3. ASSUME NEW c \in ToSet(Chapters)
      PROVE  /\ <<c>> \in Seq(STRING) /\ Append(<<>>, c) = <<c>> /\ Len(<<c>>) = 1 /\ <<c>>[1] = c
             /\ TypeOf(c) = "Chapter"
  BY <1>1, ChaptersFacts, OfIsTyped DEF Of
<1>4. \A f \in ToSet(todo') : RightCall(f) /\ f.at \in DOMAIN extracted'
  <2>1. ASSUME NEW c \in ToSet(Chapters)
        PROVE  RightCall([entity |-> c, path |-> Append(<<>>, c), at |-> Root])
    <3>1. PICK s \in Seq(STRING) : s = <<c>>
      BY <1>3
    <3>2. s # <<>> /\ Len(s) = 1 /\ s[1] = c /\ Last(s) = c /\ HomeOf(s) = Root
      BY <1>3, <3>1, HomeOfFirst DEF Last
    <3>3. Live(s) /\ Passable(s)
      BY <3>2 DEF Live, Passable, Chapters
    <3>. QED  BY <1>3, <3>1, <3>2, <3>3 DEF RightCall
  <2>. QED  BY <1>1, <1>2, <2>1 DEF ExtractsOf
<1>5. \A p \in Extractable : \E f \in ToSet(todo') : Begins(f.path, p)
  <2>. TAKE p \in Extractable
  <2>1. p \in Seq(STRING) /\ p # <<>> /\ Live(p)
    BY <1>1, ExtractableFacts
  <2>2. PICK c : c = p[1]
    OBVIOUS
  <2>3. c \in ToSet(Chapters)
    BY <2>1, <2>2 DEF Live, Chapters
  <2>4. Begins(<<c>>, p)
    <3>1. PICK s \in Seq(STRING) : s = <<c>> /\ Len(s) = 1 /\ s[1] = c
      BY <1>3, <2>3
    <3>2. Begins(s, p)
      BY <2>1, <2>2, <3>1 DEF Begins
    <3>. QED  BY <3>1, <3>2
  <2>. DEFINE f == [entity |-> c, path |-> Append(<<>>, c), at |-> Root]
  <2>5. f \in ToSet(todo')
    BY <1>2, <2>3, Zenon DEF ExtractsOf
  <2>6. f.path = <<c>>
    BY <1>3, <2>3
  <2>. HIDE DEF f
  <2>. QED  BY <2>4, <2>5, <2>6
<1>6. \A o \in DOMAIN extracted' : DOMAIN extracted'[o] = {}
  BY <1>1
<1>7. CallsAreRight' /\ RepliesComing' /\ ValuesAreRight'
  BY <1>1, <1>4, <1>5, <1>6, SameExtraction DEF CallsAreRight, RepliesComing, Coming, ValuesAreRight
<1>. QED  BY <1>1, <1>7 DEF ExtractInv

(* When no call is left, every reply has been extracted.                   *)
LEMMA ExtractionEnds ==
    ASSUME ExtractInv, FinishExtraction
    PROVE  ExtractInv'
<1>1. /\ ctx' = ctx /\ stage = "extract" /\ stage' = "extracted" /\ todo = <<>> /\ extracted' = extracted
      /\ RepliesComing /\ ValuesAreRight
  BY DEF FinishExtraction, ExtractInv
<1>2. \A p : ~Coming(p)
  BY <1>1 DEF Coming, ToSet
<1>3. \A p \in Extractable : Recorded(p)'
  BY <1>1, <1>2, SameExtraction DEF RepliesComing, Recorded
<1>4. ValuesAreRight'
  BY <1>1, SameExtraction DEF ValuesAreRight, Rightful
<1>. QED  BY <1>1, <1>3, <1>4, SameExtraction DEF ExtractInv

LEMMA ExtractStep ==
    ASSUME ObjectsTyped, ModelInv, VisitInv, ExtractInv, IsTree, [Next]_vars
    PROVE  ExtractInv'
<1>1. CASE ContextNext \/ ForgetObjects
  <2>1. stage' \notin {"extract", "extracted"}
    BY <1>1 DEF ContextNext, ForgetObjects, Load, ResolveModel, ResolveEntity, ResolveQuestion,
       ResolveFileQuestion, Enter, ResolveReport, ResolveReply, StartVisit, VisitListQuestion,
       VisitOptionsQuestion, VisitOtherQuestion, VisitItem, Visiting, StartTitles, PopItem, FollowSameAs,
       CopyTitle, ShowTitles
  <2>. QED  BY <2>1 DEF ExtractInv
<1>2. CASE UNCHANGED objectVars
  <2>1. UNCHANGED <<ctx, stage, todo, extracted>>
    BY <1>2 DEF objectVars, contextVars
  <2>2. (CallsAreRight => CallsAreRight') /\ (RepliesComing => RepliesComing')
    BY <2>1, SameExtraction DEF CallsAreRight, RepliesComing, Coming, Recorded
  <2>3. ValuesAreRight => ValuesAreRight'
    BY <2>1, SameExtraction DEF ValuesAreRight, Rightful
  <2>4. (\A p \in Extractable : Recorded(p)) => \A p \in Extractable' : Recorded(p)'
    BY <2>1, SameExtraction DEF Recorded
  <2>. QED  BY <2>1, <2>2, <2>3, <2>4 DEF ExtractInv
<1>. QED
  BY <1>1, <1>2, ObjectSteps, ExtractionStarts, ChapterIsExtracted, ReplyIsExtracted, ChoicesAreExtracted,
     AnswerIsExtracted, ItemsAreExtracted, ExtractionEnds DEF ObjectStep, ExtractionNext

LEMMA ExtractInit == ASSUME BuildInit PROVE ExtractInv
BY DEF BuildInit, ContextInit, ExtractInv

LEMMA AllAreExtracted == ASSUME ExtractInv PROVE RepliesAreExtracted
BY DEF ExtractInv, RepliesAreExtracted, Recorded, ValuesAreRight, Rightful

(* Every reply that can be reached is extracted into the object it belongs *)
(* to, and nothing else is, if the knowledge model is a tree and a reply   *)
(* answers a question by one of its own answers.                           *)
THEOREM ExtractionCorrect == Spec => [](IsTree => RepliesAreExtracted)
<1>. DEFINE IInv == ObjectsTyped /\ ModelInv /\ VisitInv /\ (IsTree => ExtractInv)
<1>1. BuildInit => IInv
  BY ObjectsInit, ModelInit, VisitInit, ExtractInit
<1>2. IInv /\ [Next]_vars => IInv'
  <2>. SUFFICES ASSUME IInv, [Next]_vars PROVE IInv'
    OBVIOUS
  <2>1. ObjectsTyped' /\ ModelInv' /\ VisitInv'
    BY ObjectsTypedStep, ModelStep, VisitStep
  <2>2. IsTree' => IsTree
    BY ContextStays, SameExtraction
  <2>3. IsTree' => ExtractInv'
    BY <2>2, ExtractStep
  <2>. QED  BY <2>1, <2>3
<1>3. IInv => (IsTree => RepliesAreExtracted)
  BY AllAreExtracted
<1>. QED  BY <1>1, <1>2, <1>3, PTL DEF Spec
=============================================================================
