----------------------------- MODULE FiniteSums -----------------------------
(***************************************************************************
Sums over functions with a finite domain: what a finite map's bytes come to
when an entry is added, changed or removed. The daemon's model counts device
memory that way (Total in Rampiped, a fold), so its bounds on memory rest on
these lemmas. The theorem modules state induction over finite sets for an
operator, which cannot be instantiated here; the lemmas take the smallest
counterexample instead.
 ***************************************************************************)
EXTENDS Integers, FiniteSets, Functions, FiniteSetTheorems, WellFoundedInduction, TLAPS

(* A set of naturals that is not empty has a least member. *)
LEMMA LeastOf ==
    ASSUME NEW T, T \subseteq Nat, T # {}
    PROVE  \E n \in T : \A m \in T : n <= m
<1> DEFINE R == OpToRel(<, Nat)
<1>1. IsWellFoundedOn(R, Nat)
  BY NatLessThanWellFounded
<1>2. \A x : x \in R <=> x \in Nat \X Nat /\ x[1] < x[2]
  BY DEF OpToRel
<1> HIDE DEF R
<1>3. PICK n \in T : \A m \in T : ~(<<m, n>> \in R)
  BY <1>1, WFMin
<1>4. \A m \in T : ~(m < n)
  BY <1>2, <1>3
<1> QED BY <1>4

(* A family of subsets of a finite set that is not empty has a member that
   contains no other. This is how the lemmas below do induction over finite
   sets: a smallest counterexample would have a smaller one. *)
LEMMA SmallestOf ==
    ASSUME NEW D, IsFiniteSet(D), NEW Bad, Bad \subseteq SUBSET D, Bad # {}
    PROVE  \E s \in Bad : \A t \in Bad : ~(t \subseteq s /\ t # s)
<1> DEFINE sizes == {Cardinality(s) : s \in Bad}
<1>1. \A s \in Bad : IsFiniteSet(s) /\ Cardinality(s) \in Nat
  BY FS_Subset, FS_CardinalityType
<1>2. PICK n \in sizes : \A m \in sizes : n <= m
  <2>1. sizes \subseteq Nat /\ sizes # {}
    BY <1>1
  <2> HIDE DEF sizes
  <2> QED BY <2>1, LeastOf
<1>3. PICK s \in Bad : n = Cardinality(s)
  BY <1>2
<1>4. ASSUME NEW t \in Bad, t \subseteq s, t # s PROVE FALSE
  <2>1. Cardinality(t) < Cardinality(s)
    BY <1>1, <1>4, FS_Subset
  <2>2. Cardinality(s) <= Cardinality(t)
    BY <1>2, <1>3
  <2> QED BY <1>1, <2>1, <2>2
<1> QED BY <1>4

(* The element a fold takes from a set next. *)
Pick(s) == CHOOSE x \in s : TRUE

(* The sum of f over s, when g has the sums over smaller sets: the step of the
   recursive function inside MapThenFoldSet. *)
Step(f, g, s) == IF s = {} THEN 0 ELSE f[Pick(s)] + g[s \ {Pick(s)}]

(* g has the sum of f for every set in S. *)
AreSums(g, f, S) == g = [s \in S |-> Step(f, g, s)]

(* The sums of f over the subsets of D, as MapThenFoldSet chooses them. *)
Sums(f, D) == CHOOSE g : AreSums(g, f, SUBSET D)

(* The subsets of D with at most n elements. *)
UpTo(D, n) == {t \in SUBSET D : Cardinality(t) <= n}

(* The element picked is one of the set's. *)
LEMMA PickIn == ASSUME NEW s, s # {} PROVE Pick(s) \in s
BY DEF Pick

(* There are sums of f over the subsets of D with up to n elements: the sums up
   to n - 1 and one step more. *)
LEMMA SumsUpTo ==
    ASSUME NEW f, NEW D, IsFiniteSet(D), NEW n \in Nat
    PROVE  \E g : AreSums(g, f, UpTo(D, n))
<1> DEFINE Sub(k) == {t \in SUBSET D : Cardinality(t) <= k}
           Defined(k) == \E g : g = [s \in Sub(k) |-> Step(f, g, s)]
           Bad == {k \in Nat : ~Defined(k)}
<1>0. \A t \in SUBSET D : IsFiniteSet(t) /\ Cardinality(t) \in Nat
  BY FS_Subset, FS_CardinalityType
<1>1. Bad = {}
  <2> SUFFICES ASSUME Bad # {} PROVE FALSE
    OBVIOUS
  <2>1. PICK k \in Bad : \A m \in Bad : k <= m
    <3> HIDE DEF Defined
    <3> QED BY LeastOf
  <2>2. CASE k = 0
    <3> DEFINE g == [s \in Sub(0) |-> 0]
    <3>1. \A s \in Sub(0) : s = {}
      BY <1>0, FS_EmptySet
    <3>2. g = [s \in Sub(0) |-> Step(f, g, s)]
      BY <3>1 DEF Step
    <3> QED BY <2>2, <3>2
  <2>3. CASE k > 0
    <3>1. k - 1 \in Nat /\ ~(k <= k - 1)
      BY <2>3
    <3>2. Defined(k - 1)
      <4> HIDE DEF Defined
      <4> QED BY <2>1, <3>1
    <3>3. PICK h : h = [s \in Sub(k - 1) |-> Step(f, h, s)]
      BY <3>2
    <3> DEFINE g == [s \in Sub(k) |-> Step(f, h, s)]
    <3>4. ASSUME NEW s \in Sub(k) PROVE Step(f, h, s) = Step(f, g, s)
      <4>1. CASE s = {}
        BY <4>1 DEF Step
      <4>2. CASE s # {}
        <5> DEFINE t == s \ {Pick(s)}
        <5>1. Pick(s) \in s
          BY <4>2, PickIn
        <5>2. t \in Sub(k - 1) /\ t \in Sub(k)
          <6>1. Cardinality(t) = Cardinality(s) - 1
            BY <1>0, <5>1, FS_RemoveElement
          <6> QED BY <1>0, <3>1, <6>1
        <5>3. h[t] = Step(f, h, t)
          BY <3>3, <5>2
        <5>4. g[t] = Step(f, h, t)
          BY <5>2
        <5> HIDE DEF g
        <5> QED BY <4>2, <5>3, <5>4 DEF Step
      <4> QED BY <4>1, <4>2
    <3>5. g = [s \in Sub(k) |-> Step(f, g, s)]
      BY <3>4
    <3>6. Defined(k)
      <4> HIDE DEF g
      <4> QED BY <3>5
    <3> QED BY <3>6
  <2> QED BY <2>2, <2>3
<1>2. Defined(n)
  <2> HIDE DEF Defined
  <2> QED BY <1>1
<1> QED BY <1>2 DEF AreSums, UpTo

(* The function chosen as the sums over the subsets of a finite set has them:
   there is one, so CHOOSE returns one. *)
LEMMA SumsAre ==
    ASSUME NEW f, NEW D, IsFiniteSet(D)
    PROVE  AreSums(Sums(f, D), f, SUBSET D)
<1>1. Cardinality(D) \in Nat
  BY FS_CardinalityType
<1>2. UpTo(D, Cardinality(D)) = SUBSET D
  BY FS_Subset DEF UpTo
<1>3. \E g : AreSums(g, f, SUBSET D)
  <2>1. \E g : AreSums(g, f, UpTo(D, Cardinality(D)))
    BY <1>1, SumsUpTo, Zenon
  <2> QED BY <1>2, <2>1
<1> QED BY <1>3 DEF Sums

(* The sum over no elements is 0, and any other is the element picked and the
   sum of the rest. *)
LEMMA SumsStep ==
    ASSUME NEW f, NEW D, IsFiniteSet(D), NEW s \in SUBSET D
    PROVE  /\ s = {} => Sums(f, D)[s] = 0
           /\ s # {} => /\ Pick(s) \in s
                        /\ Sums(f, D)[s] = f[Pick(s)] + Sums(f, D)[s \ {Pick(s)}]
<1>1. Sums(f, D)[s] = Step(f, Sums(f, D), s)
  <2> DEFINE g == Sums(f, D)
  <2>1. AreSums(g, f, SUBSET D)
    BY SumsAre
  <2> HIDE DEF g
  <2>2. g[s] = Step(f, g, s)
    BY <2>1 DEF AreSums
  <2> QED BY <2>2 DEF g
<1> QED BY <1>1, PickIn DEF Step

(* Sums of naturals are naturals. *)
LEMMA SumsAreNat ==
    ASSUME NEW f, NEW D, IsFiniteSet(D), \A x \in D : f[x] \in Nat
    PROVE  \A s \in SUBSET D : Sums(f, D)[s] \in Nat
<1> DEFINE g == Sums(f, D)  Bad == {s \in SUBSET D : g[s] \notin Nat}
<1>1. Bad = {}
  <2> SUFFICES ASSUME Bad # {} PROVE FALSE
    OBVIOUS
  <2> HIDE DEF g
  <2>1. PICK s \in Bad : \A t \in Bad : ~(t \subseteq s /\ t # s)
    <3>1. Bad \subseteq SUBSET D
      OBVIOUS
    <3> HIDE DEF Bad
    <3> QED BY <3>1, SmallestOf
  <2>2. s # {} /\ Pick(s) \in s /\ g[s] = f[Pick(s)] + g[s \ {Pick(s)}]
    <3>1. s \in SUBSET D /\ g[s] \notin Nat
      BY <2>1
    <3>2. /\ s = {} => g[s] = 0
          /\ s # {} => Pick(s) \in s /\ g[s] = f[Pick(s)] + g[s \ {Pick(s)}]
      BY <3>1, SumsStep DEF g
    <3> QED BY <3>1, <3>2
  <2>3. s \ {Pick(s)} \notin Bad /\ s \ {Pick(s)} \in SUBSET D
    BY <2>1, <2>2
  <2>4. g[s \ {Pick(s)}] \in Nat /\ f[Pick(s)] \in Nat
    BY <2>1, <2>2, <2>3
  <2> QED BY <2>1, <2>2, <2>4
<1> QED BY <1>1

(* Any element, and not only the one a fold picks, can be split off a sum: the
   order of adding makes no difference. *)
LEMMA SumsSplit ==
    ASSUME NEW f, NEW D, IsFiniteSet(D), \A x \in D : f[x] \in Nat
    PROVE  \A s \in SUBSET D : \A x \in s : Sums(f, D)[s] = f[x] + Sums(f, D)[s \ {x}]
<1> DEFINE g == Sums(f, D)
           Bad == {s \in SUBSET D : \E x \in s : g[s] # f[x] + g[s \ {x}]}
<1>0. \A s \in SUBSET D : g[s] \in Nat
  BY SumsAreNat
<1>1. Bad = {}
  <2> SUFFICES ASSUME Bad # {} PROVE FALSE
    OBVIOUS
  <2> HIDE DEF g
  <2>1. PICK s \in Bad : \A t \in Bad : ~(t \subseteq s /\ t # s)
    <3>1. Bad \subseteq SUBSET D
      OBVIOUS
    <3> HIDE DEF Bad
    <3> QED BY <3>1, SmallestOf
  <2>2. PICK x \in s : g[s] # f[x] + g[s \ {x}]
    BY <2>1
  <2> DEFINE c == Pick(s)
  <2>3. c \in s /\ g[s] = f[c] + g[s \ {c}]
    <3>1. s \in SUBSET D /\ s # {}
      BY <2>1, <2>2
    <3> QED BY <3>1, SumsStep DEF g
  <2> HIDE DEF c
  <2>4. c # x
    BY <2>2, <2>3
  <2>5. /\ s \ {c} \in SUBSET D /\ s \ {c} \notin Bad /\ x \in s \ {c}
        /\ s \ {x} \in SUBSET D /\ s \ {x} \notin Bad /\ c \in s \ {x}
    BY <2>1, <2>2, <2>3, <2>4
  <2>6. (s \ {c}) \ {x} = (s \ {x}) \ {c} /\ (s \ {c}) \ {x} \in SUBSET D
    BY <2>1
  <2>7. /\ g[s \ {c}] = f[x] + g[(s \ {c}) \ {x}]
        /\ g[s \ {x}] = f[c] + g[(s \ {c}) \ {x}]
    BY <2>5, <2>6
  <2>8. f[c] \in Nat /\ f[x] \in Nat /\ g[(s \ {c}) \ {x}] \in Nat
    BY <1>0, <2>1, <2>2, <2>3, <2>6
  <2> QED BY <2>2, <2>3, <2>7, <2>8
<1> QED BY <1>1

(* Functions that agree on a set have the same sums over its subsets, whatever
   else is in their domains. *)
LEMMA SumsAgree ==
    ASSUME NEW f, NEW h, NEW D, NEW E, IsFiniteSet(D), IsFiniteSet(E), E \subseteq D,
           \A x \in E : f[x] = h[x]
    PROVE  \A s \in SUBSET E : Sums(f, D)[s] = Sums(h, E)[s]
<1> DEFINE g == Sums(f, D)  k == Sums(h, E)  Bad == {s \in SUBSET E : g[s] # k[s]}
<1>1. Bad = {}
  <2> SUFFICES ASSUME Bad # {} PROVE FALSE
    OBVIOUS
  <2> HIDE DEF g, k
  <2>1. PICK s \in Bad : \A t \in Bad : ~(t \subseteq s /\ t # s)
    <3>1. Bad \subseteq SUBSET E
      OBVIOUS
    <3> HIDE DEF Bad
    <3> QED BY <3>1, SmallestOf
  <2>2. s \in SUBSET D /\ s \in SUBSET E
    BY <2>1
  <2>3. /\ s = {} => g[s] = 0 /\ k[s] = 0
        /\ s # {} => /\ Pick(s) \in s
                     /\ g[s] = f[Pick(s)] + g[s \ {Pick(s)}]
                     /\ k[s] = h[Pick(s)] + k[s \ {Pick(s)}]
    BY <2>2, SumsStep DEF g, k
  <2>4. s # {} /\ Pick(s) \in s
    BY <2>1, <2>3
  <2>5. g[s \ {Pick(s)}] = k[s \ {Pick(s)}]
    BY <2>1, <2>2, <2>4
  <2> QED BY <2>1, <2>2, <2>3, <2>4, <2>5
<1> QED BY <1>1

(* The sum of a function's values. *)
SumOf(f) == Sums(f, DOMAIN f)[DOMAIN f]

(* What FoldFunction computes with addition is that sum. *)
LEMMA FoldIsSum == ASSUME NEW f PROVE FoldFunction(+, 0, f) = SumOf(f)
BY DEF FoldFunction, FoldFunctionOnSet, MapThenFoldSet, SumOf, Sums, AreSums, Step, Pick

(* The sum of the empty function is 0. *)
LEMMA SumOfNothing == ASSUME NEW f, DOMAIN f = {} PROVE SumOf(f) = 0
BY SumsStep, FS_EmptySet DEF SumOf

(* A sum of zeros is 0, over every subset of the domain. *)
LEMMA SumsOfZeros ==
    ASSUME NEW f, NEW D, IsFiniteSet(D), \A x \in D : f[x] = 0
    PROVE  \A s \in SUBSET D : Sums(f, D)[s] = 0
<1> DEFINE g == Sums(f, D)  Bad == {s \in SUBSET D : g[s] # 0}
<1>1. Bad = {}
  <2> SUFFICES ASSUME Bad # {} PROVE FALSE
    OBVIOUS
  <2> HIDE DEF g
  <2>1. PICK s \in Bad : \A t \in Bad : ~(t \subseteq s /\ t # s)
    <3>1. Bad \subseteq SUBSET D
      OBVIOUS
    <3> HIDE DEF Bad
    <3> QED BY <3>1, SmallestOf
  <2>2. s # {} /\ Pick(s) \in s /\ g[s] = f[Pick(s)] + g[s \ {Pick(s)}]
    <3>1. s \in SUBSET D /\ g[s] # 0
      BY <2>1
    <3>2. /\ s = {} => g[s] = 0
          /\ s # {} => Pick(s) \in s /\ g[s] = f[Pick(s)] + g[s \ {Pick(s)}]
      BY <3>1, SumsStep DEF g
    <3> QED BY <3>1, <3>2
  <2>3. g[s \ {Pick(s)}] = 0 /\ f[Pick(s)] = 0
    BY <2>1, <2>2
  <2> QED BY <2>1, <2>2, <2>3
<1> QED BY <1>1

(* A function whose values are all 0 has the sum 0. *)
LEMMA SumOfZeros ==
    ASSUME NEW f, IsFiniteSet(DOMAIN f), \A x \in DOMAIN f : f[x] = 0
    PROVE  SumOf(f) = 0
BY SumsOfZeros DEF SumOf

(* A finite function to the naturals has a natural for its sum. *)
LEMMA SumIsNat ==
    ASSUME NEW f, IsFiniteSet(DOMAIN f), \A x \in DOMAIN f : f[x] \in Nat
    PROVE  SumOf(f) \in Nat
BY SumsAreNat DEF SumOf

(* Equal values, equal sums. *)
LEMMA SumSame ==
    ASSUME NEW f, NEW h, IsFiniteSet(DOMAIN f), DOMAIN h = DOMAIN f,
           \A y \in DOMAIN f : f[y] = h[y]
    PROVE  SumOf(f) = SumOf(h)
BY SumsAgree DEF SumOf

(* A new entry adds its value to the sum. *)
LEMMA SumGrows ==
    ASSUME NEW f, NEW h, IsFiniteSet(DOMAIN f), NEW x, x \notin DOMAIN f,
           DOMAIN h = DOMAIN f \cup {x}, \A y \in DOMAIN f : h[y] = f[y],
           \A y \in DOMAIN h : h[y] \in Nat
    PROVE  IsFiniteSet(DOMAIN h) /\ SumOf(h) = SumOf(f) + h[x]
<1> DEFINE D == DOMAIN f  E == DOMAIN h
<1>1. IsFiniteSet(E) /\ D \subseteq E /\ E \ {x} = D /\ x \in E
  BY FS_AddElement
<1>2. Sums(h, E)[E] = h[x] + Sums(h, E)[D]
  BY <1>1, SumsSplit
<1>3. Sums(h, E)[D] = Sums(f, D)[D]
  BY <1>1, SumsAgree
<1>4. Sums(f, D)[D] \in Nat /\ h[x] \in Nat
  BY <1>1, SumsAreNat
<1> QED BY <1>1, <1>2, <1>3, <1>4 DEF SumOf

(* Changing one value changes the sum by as much. *)
LEMMA SumChanges ==
    ASSUME NEW f, NEW h, IsFiniteSet(DOMAIN f), DOMAIN h = DOMAIN f, NEW x \in DOMAIN f,
           \A y \in DOMAIN f \ {x} : h[y] = f[y],
           \A y \in DOMAIN f : f[y] \in Nat /\ h[y] \in Nat
    PROVE  SumOf(h) + f[x] = SumOf(f) + h[x]
<1> DEFINE D == DOMAIN f  E == D \ {x}
<1>1. IsFiniteSet(D) /\ IsFiniteSet(E) /\ E \subseteq D
  BY FS_Subset
<1>2. /\ Sums(h, D)[D] = h[x] + Sums(h, D)[E]
      /\ Sums(f, D)[D] = f[x] + Sums(f, D)[E]
  BY <1>1, SumsSplit
<1>3. Sums(h, D)[E] = Sums(f, D)[E]
  <2>1. Sums(h, D)[E] = Sums(f, E)[E]
    BY <1>1, SumsAgree
  <2>2. Sums(f, D)[E] = Sums(f, E)[E]
    BY <1>1, SumsAgree
  <2> QED BY <2>1, <2>2
<1>4. Sums(f, D)[E] \in Nat /\ f[x] \in Nat /\ h[x] \in Nat
  BY <1>1, SumsAreNat
<1> QED BY <1>2, <1>3, <1>4 DEF SumOf

(* Writing an entry, new or old, adds its value and takes the old one away. *)
LEMMA SumPut ==
    ASSUME NEW f, NEW h, NEW x, IsFiniteSet(DOMAIN f), \A y \in DOMAIN f : f[y] \in Nat,
           DOMAIN h = DOMAIN f \cup {x}, h[x] \in Nat,
           \A y \in DOMAIN f \ {x} : h[y] = f[y]
    PROVE  /\ IsFiniteSet(DOMAIN h) /\ SumOf(h) \in Nat /\ SumOf(f) \in Nat
           /\ SumOf(h) + (IF x \in DOMAIN f THEN f[x] ELSE 0) = SumOf(f) + h[x]
<1>1. \A y \in DOMAIN h : h[y] \in Nat
  OBVIOUS
<1>2. IsFiniteSet(DOMAIN h)
  BY FS_AddElement
<1>3. SumOf(h) \in Nat /\ SumOf(f) \in Nat
  BY <1>1, <1>2, SumIsNat
<1>4. CASE x \in DOMAIN f
  <2>1. DOMAIN h = DOMAIN f
    BY <1>4
  <2>2. SumOf(h) + f[x] = SumOf(f) + h[x]
    BY <1>1, <1>4, <2>1, SumChanges
  <2> QED BY <1>2, <1>3, <1>4, <2>2
<1>5. CASE x \notin DOMAIN f
  <2>1. SumOf(h) = SumOf(f) + h[x]
    BY <1>1, <1>5, SumGrows
  <2> QED BY <1>2, <1>3, <1>5, <2>1
<1> QED BY <1>4, <1>5

(* Removing an entry takes its value from the sum. *)
LEMMA SumRemoved ==
    ASSUME NEW f, NEW h, NEW x, IsFiniteSet(DOMAIN f), \A y \in DOMAIN f : f[y] \in Nat,
           DOMAIN h = DOMAIN f \ {x}, \A y \in DOMAIN h : h[y] = f[y]
    PROVE  /\ IsFiniteSet(DOMAIN h) /\ SumOf(h) \in Nat /\ SumOf(f) \in Nat
           /\ SumOf(f) = SumOf(h) + (IF x \in DOMAIN f THEN f[x] ELSE 0)
<1>1. IsFiniteSet(DOMAIN h) /\ \A y \in DOMAIN h : h[y] \in Nat
  BY FS_Subset
<1>2. SumOf(h) \in Nat /\ SumOf(f) \in Nat
  BY <1>1, SumIsNat
<1>3. CASE x \in DOMAIN f
  <2>1. x \notin DOMAIN h /\ DOMAIN f = DOMAIN h \cup {x}
    BY <1>3
  <2>2. \A y \in DOMAIN h : f[y] = h[y]
    OBVIOUS
  <2>3. SumOf(f) = SumOf(h) + f[x]
    BY <1>1, <2>1, <2>2, SumGrows
  <2> QED BY <1>1, <1>2, <1>3, <2>3
<1>4. CASE x \notin DOMAIN f
  <2>1. DOMAIN h = DOMAIN f
    BY <1>4
  <2>2. SumOf(f) = SumOf(h)
    BY <2>1, SumSame
  <2> QED BY <1>1, <1>2, <1>4, <2>2
<1> QED BY <1>3, <1>4

=============================================================================
