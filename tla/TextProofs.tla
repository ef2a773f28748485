----------------------------- MODULE TextProofs -----------------------------
(***************************************************************************)
(* Proofs about what src/src/llama.rs makes of a chat template, for every  *)
(* template that Templates admits and every text:                          *)
(*                                                                         *)
(*   - what a template renders, turn by turn (RenderIs, GrowsIs);          *)
(*   - what a search for sentinels finds in it (FindSole), and with it     *)
(*     what each probe derives: the conversation template (ShapeIs), what  *)
(*     the template takes (SystemProbed, ToolsProbed), the spans around    *)
(*     results (SpansIs), the opening (OpeningIs, PreparedIs);             *)
(*   - that turns composed of what was found are what the template         *)
(*     renders (FirstSaid, NextSaid, ResultsSaid, AnswerSaid);             *)
(*   - that system text is carried once (CarriedOnce, OpeningCarries).     *)
(*                                                                         *)
(* A text of several parts is regrouped by the laws of concatenation       *)
(* alone, under the name Cat; FlattenSeq is reasoned about by the function *)
(* it picks.                                                               *)
(***************************************************************************)
EXTENDS ConversationTemplate, FiniteSums, SequenceTheorems

LOCAL INSTANCE Functions
LOCAL INSTANCE SequencesExt
LOCAL INSTANCE FiniteSetsExt

(* Concatenation, by its laws alone.                                       *)
Cat(a, b) == a \o b

(* It is of the type of its parts, and associative.                        *)
LEMMA CatLaws ==
    ASSUME NEW S
    PROVE  /\ \A a, b \in Seq(S) : Cat(a, b) \in Seq(S)
           /\ \A a, b, c \in Seq(S) : Cat(Cat(a, b), c) = Cat(a, Cat(b, c))
<1>1. ASSUME NEW a \in Seq(S), NEW b \in Seq(S) PROVE Cat(a, b) \in Seq(S)
  BY ConcatProperties DEF Cat
<1>2. ASSUME NEW a \in Seq(S), NEW b \in Seq(S), NEW c \in Seq(S)
      PROVE  Cat(Cat(a, b), c) = Cat(a, Cat(b, c))
  BY ConcatAssociative DEF Cat
<1> QED BY <1>1, <1>2

(* One text after another, and a third.                                    *)
LEMMA Shift ==
    ASSUME NEW S, NEW x \in Seq(S), NEW y \in Seq(S), NEW z \in Seq(S)
    PROVE  /\ Cat(x, y) \in Seq(S) /\ Cat(y, z) \in Seq(S)
           /\ Cat(Cat(x, y), z) = Cat(x, Cat(y, z))
BY CatLaws

(* The step of the recursion inside FlattenSeq.                            *)
FlatStep(g, seqs, i) == IF i = 1 THEN seqs[i] ELSE g[i - 1] \o seqs[i]

(* What FlattenSeq computes: the text of the first i texts, for each i.    *)
IsFlat(g, seqs, n) == g = [i \in 1..n |-> FlatStep(g, seqs, i)]

(* There is such a function: by induction on how many texts it is for.     *)
LEMMA FlatExists ==
    ASSUME NEW seqs, NEW n \in Nat
    PROVE  \E g : IsFlat(g, seqs, n)
<1> DEFINE Defined(k) == \E g : IsFlat(g, seqs, k)
           Bad == {k \in Nat : ~Defined(k)}
<1> SUFFICES ASSUME Bad # {} PROVE FALSE
  OBVIOUS
<1>1. PICK k \in Bad : \A m \in Bad : k <= m
  <2>1. Bad \subseteq Nat
    OBVIOUS
  <2> HIDE DEF Bad
  <2> QED BY <2>1, LeastOf
<1>2. k \in Nat /\ ~Defined(k)
  <2> HIDE DEF Defined
  <2> QED BY <1>1
<1>3. CASE k = 0
  <2> DEFINE g == [i \in 1..0 |-> <<>>]
  <2>1. g = [i \in 1..0 |-> FlatStep(g, seqs, i)]
    OBVIOUS
  <2>2. IsFlat(g, seqs, k)
    BY <1>3, <2>1 DEF IsFlat
  <2> QED BY <1>2, <2>2
<1>4. CASE k # 0
  <2>1. k - 1 \in Nat /\ ~(k <= k - 1)
    BY <1>2, <1>4
  <2>2. Defined(k - 1)
    <3> HIDE DEF Defined
    <3> QED BY <1>1, <2>1
  <2>3. PICK h : h = [i \in 1..(k - 1) |-> FlatStep(h, seqs, i)]
    BY <2>2 DEF IsFlat
  <2> DEFINE g == [i \in 1..k |-> FlatStep(h, seqs, i)]
  <2>4. ASSUME NEW i \in 1..k PROVE FlatStep(h, seqs, i) = FlatStep(g, seqs, i)
    <3>1. CASE i = 1
      BY <3>1 DEF FlatStep
    <3>2. CASE i # 1
      <4>1. i - 1 \in 1..(k - 1) /\ i - 1 \in 1..k
        BY <1>2, <3>2
      <4>2. h[i - 1] = FlatStep(h, seqs, i - 1)
        BY <2>3, <4>1
      <4>3. g[i - 1] = FlatStep(h, seqs, i - 1)
        BY <4>1
      <4> HIDE DEF g
      <4> QED BY <3>2, <4>2, <4>3 DEF FlatStep
    <3> QED BY <3>1, <3>2
  <2>5. g = [i \in 1..k |-> FlatStep(g, seqs, i)]
    BY <2>4
  <2> HIDE DEF g
  <2>6. IsFlat(g, seqs, k)
    BY <2>5 DEF IsFlat
  <2> QED BY <1>2, <2>6
<1> QED BY <1>3, <1>4

(* The function that FlattenSeq picks.                                     *)
Flat(seqs) == CHOOSE g : IsFlat(g, seqs, Len(seqs))

(* FlattenSeq is its last value.                                           *)
LEMMA FlatIs ==
    ASSUME NEW seqs, Len(seqs) \in Nat
    PROVE  /\ IsFlat(Flat(seqs), seqs, Len(seqs))
           /\ Len(seqs) # 0 => FlattenSeq(seqs) = Flat(seqs)[Len(seqs)]
<1>1. \E g : IsFlat(g, seqs, Len(seqs))
  BY FlatExists
<1>2. IsFlat(Flat(seqs), seqs, Len(seqs))
  BY <1>1 DEF Flat
<1>3. Len(seqs) # 0 => FlattenSeq(seqs) = Flat(seqs)[Len(seqs)]
  BY DEF FlattenSeq, Flat, IsFlat, FlatStep
<1> QED BY <1>2, <1>3

(* A value of it, by the one before.                                       *)
LEMMA FlatValue ==
    ASSUME NEW g, NEW seqs, NEW n \in Nat, IsFlat(g, seqs, n), NEW i \in 1..n
    PROVE  g[i] = FlatStep(g, seqs, i)
BY DEF IsFlat

(* Two functions agree up to n.                                            *)
Agree(s, t, n) == \A i \in 1..n : s[i] = t[i]

(* Of texts with a common beginning it has the same values there.          *)
LEMMA FlatAgree ==
    ASSUME NEW s, NEW t, NEW n \in Nat, NEW m \in Nat, n <= m, NEW g, NEW h,
           IsFlat(g, s, n), IsFlat(h, t, m), Agree(s, t, n)
    PROVE  Agree(g, h, n)
<1> DEFINE Bad == {i \in 1..n : g[i] # h[i]}
<1> SUFFICES ASSUME Bad # {} PROVE FALSE
  BY DEF Agree
<1>1. PICK k \in Bad : \A j \in Bad : k <= j
  <2>1. Bad \subseteq Nat
    OBVIOUS
  <2> HIDE DEF Bad
  <2> QED BY <2>1, LeastOf
<1>2. k \in 1..n /\ k \in 1..m /\ g[k] # h[k]
  BY <1>1
<1>3. g[k] = FlatStep(g, s, k)
  BY <1>2, FlatValue
<1>4. h[k] = FlatStep(h, t, k)
  BY <1>2, FlatValue
<1>5. k # 1 => g[k - 1] = h[k - 1]
  <2> SUFFICES ASSUME k # 1 PROVE g[k - 1] = h[k - 1]
    OBVIOUS
  <2>1. ~(k <= k - 1) /\ k - 1 \in 1..n
    BY <1>2
  <2>2. k - 1 \notin Bad
    <3> HIDE DEF Bad
    <3> QED BY <1>1, <2>1
  <2> QED BY <2>1, <2>2
<1>6. s[k] = t[k]
  BY <1>2 DEF Agree
<1>7. FlatStep(g, s, k) = FlatStep(h, t, k)
  BY <1>5, <1>6, Zenon DEF FlatStep
<1> QED BY <1>2, <1>3, <1>4, <1>7

(* No texts are no text.                                                   *)
LEMMA FlattenEmpty == FlattenSeq(<<>>) = <<>>
BY DEF FlattenSeq

(* A text of texts has their words.                                        *)
LEMMA FlattenType ==
    ASSUME NEW S, NEW seqs \in Seq(Seq(S))
    PROVE  FlattenSeq(seqs) \in Seq(S)
<1> DEFINE g == Flat(seqs)  n == Len(seqs)  Bad == {i \in 1..n : g[i] \notin Seq(S)}
<1>1. n \in Nat /\ \A i \in 1..n : seqs[i] \in Seq(S)
  OBVIOUS
<1>2. IsFlat(g, seqs, n) /\ (n # 0 => FlattenSeq(seqs) = g[n])
  BY <1>1, FlatIs
<1> HIDE DEF g
<1>3. Bad = {}
  <2> SUFFICES ASSUME Bad # {} PROVE FALSE
    OBVIOUS
  <2>1. PICK k \in Bad : \A j \in Bad : k <= j
    <3>1. Bad \subseteq Nat
      OBVIOUS
    <3> HIDE DEF Bad
    <3> QED BY <3>1, LeastOf
  <2>2. k \in 1..n /\ g[k] \notin Seq(S)
    BY <2>1
  <2>3. g[k] = FlatStep(g, seqs, k)
    BY <1>1, <1>2, <2>2, FlatValue
  <2>4. CASE k = 1
    BY <1>1, <2>2, <2>3, <2>4 DEF FlatStep
  <2>5. CASE k # 1
    <3>1. ~(k <= k - 1) /\ k - 1 \in 1..n
      BY <2>2, <2>5
    <3>2. k - 1 \notin Bad
      <4> HIDE DEF Bad
      <4> QED BY <2>1, <3>1
    <3>3. g[k - 1] \in Seq(S) /\ seqs[k] \in Seq(S)
      BY <1>1, <2>2, <3>1, <3>2
    <3>4. g[k - 1] \o seqs[k] \in Seq(S)
      BY <3>3, ConcatProperties
    <3>5. FlatStep(g, seqs, k) = g[k - 1] \o seqs[k]
      BY <2>5, Zenon DEF FlatStep
    <3> QED BY <2>2, <2>3, <3>4, <3>5
  <2> QED BY <2>4, <2>5
<1>4. CASE n = 0
  <2>1. seqs = <<>>
    BY <1>4
  <2>2. <<>> \in Seq(S)
    OBVIOUS
  <2> QED BY <2>1, <2>2, FlattenEmpty
<1>5. CASE n # 0
  <2>1. n \in 1..n
    BY <1>1, <1>5
  <2> QED BY <1>2, <1>3, <1>5, <2>1
<1> QED BY <1>4, <1>5

(* A text more is appended to the text of the others.                      *)
LEMMA FlattenAppend ==
    ASSUME NEW S, NEW seqs \in Seq(Seq(S)), NEW x \in Seq(S)
    PROVE  FlattenSeq(Append(seqs, x)) = FlattenSeq(seqs) \o x
<1> DEFINE t == Append(seqs, x)  n == Len(seqs)  g == Flat(seqs)  h == Flat(t)
<1>1. n \in Nat /\ Len(t) = n + 1
  OBVIOUS
<1>2. Agree(seqs, t, n)
  BY DEF Agree
<1>3. t[n + 1] = x
  OBVIOUS
<1> HIDE DEF t
<1>4. IsFlat(g, seqs, n) /\ (n # 0 => FlattenSeq(seqs) = g[n])
  BY <1>1, FlatIs
<1>5. IsFlat(h, t, n + 1) /\ FlattenSeq(t) = h[n + 1]
  BY <1>1, FlatIs
<1> HIDE DEF g, h
<1>6. n + 1 \in 1..(n + 1) /\ n + 1 \in Nat /\ (n + 1) - 1 = n
  BY <1>1
<1>7. h[n + 1] = FlatStep(h, t, n + 1)
  BY <1>5, <1>6, FlatValue
<1>8. CASE n = 0
  <2>1. seqs = <<>> /\ n + 1 = 1
    BY <1>8
  <2>2. FlatStep(h, t, n + 1) = t[n + 1]
    BY <2>1, Zenon DEF FlatStep
  <2>3. FlattenSeq(t) = x
    BY <1>3, <1>5, <1>7, <2>2
  <2>4. FlattenSeq(seqs) \o x = x
    <3>1. <<>> \o x = x
      OBVIOUS
    <3>2. FlattenSeq(seqs) = <<>>
      BY <2>1, FlattenEmpty
    <3> QED BY <3>1, <3>2
  <2> QED BY <2>3, <2>4 DEF t
<1>9. CASE n # 0
  <2>1. n \in 1..n /\ n <= n + 1 /\ n + 1 # 1
    BY <1>1, <1>9
  <2>2. Agree(g, h, n)
    <3>1. n + 1 \in Nat /\ n <= n + 1
      BY <1>1
    <3> QED BY <1>1, <1>2, <1>4, <1>5, <3>1, FlatAgree
  <2>3. FlatStep(h, t, n + 1) = h[n] \o x
    BY <1>3, <1>6, <2>1, Zenon DEF FlatStep
  <2>4. g[n] = h[n] /\ FlattenSeq(seqs) = g[n]
    BY <1>4, <1>9, <2>1, <2>2 DEF Agree
  <2>5. FlattenSeq(t) = h[n] \o x
    BY <1>5, <1>7, <2>3
  <2> QED BY <2>4, <2>5, Zenon DEF t
<1> QED BY <1>1, <1>8, <1>9

---------------------------------------------------------------------------
(* Search                                                                  *)

(* w is in n once.                                                         *)
Sole(n, w) ==
    \E k \in 1..Len(n) : n[k] = w /\ \A j \in 1..Len(n) : n[j] = w => j = k

(* The only place is the one that is found.                                *)
LEMMA FindsOnly ==
    ASSUME NEW text, NEW needle, NEW p \in Nat \ {0}, Places(text, needle) = {p}
    PROVE  Find(text, needle) = p /\ Has(text, needle)
<1>1. Min({p}) = p
  BY DEF Min
<1> QED BY <1>1 DEF Find, Has

(* The parts of a text of two parts.                                       *)
LEMMA Halves ==
    ASSUME NEW S, NEW x \in Seq(S), NEW y \in Seq(S)
    PROVE  /\ x \o y \in Seq(S) /\ Len(x \o y) = Len(x) + Len(y)
           /\ \A i \in 1..Len(x) : (x \o y)[i] = x[i]
           /\ \A i \in 1..Len(y) : (x \o y)[Len(x) + i] = y[i]
<1>1. x \o y \in Seq(S) /\ Len(x \o y) = Len(x) + Len(y)
  BY ConcatProperties
<1>2. \A i \in 1..Len(x) : (x \o y)[i] = x[i]
  OBVIOUS
<1>3. \A i \in 1..Len(y) : (x \o y)[Len(x) + i] = y[i]
  OBVIOUS
<1> QED BY <1>1, <1>2, <1>3

(* Where the words of a text of three parts are.                           *)
Placed(S, x, n, y, text) ==
    /\ text \in Seq(S)
    /\ Len(text) = Len(x) + Len(n) + Len(y)
    /\ \A i \in 1..Len(x) : text[i] = x[i]
    /\ \A i \in 1..Len(n) : text[Len(x) + i] = n[i]
    /\ \A i \in 1..Len(y) : text[Len(x) + Len(n) + i] = y[i]
    /\ SubSeq(text, Len(x) + 1, Len(x) + Len(n)) = n
    /\ SubSeq(text, 1, Len(x)) = x

(* They are where its parts put them.                                      *)
LEMMA PartsPlaced ==
    ASSUME NEW S, NEW x \in Seq(S), NEW n \in Seq(S), NEW y \in Seq(S)
    PROVE  Placed(S, x, n, y, x \o (n \o y))
<1> DEFINE z == n \o y  t == x \o z
<1>1. Len(x) \in Nat /\ Len(n) \in Nat /\ Len(y) \in Nat
  OBVIOUS
<1>2. /\ z \in Seq(S) /\ Len(z) = Len(n) + Len(y)
      /\ \A i \in 1..Len(n) : z[i] = n[i]
      /\ \A i \in 1..Len(y) : z[Len(n) + i] = y[i]
  BY Halves
<1> HIDE DEF z
<1>3. /\ t \in Seq(S) /\ Len(t) = Len(x) + Len(z)
      /\ \A i \in 1..Len(x) : t[i] = x[i]
      /\ \A i \in 1..Len(z) : t[Len(x) + i] = z[i]
  <2>1. z \in Seq(S)
    BY <1>2
  <2> QED BY <2>1, Halves
<1> HIDE DEF t
<1>4. \A i \in 1..Len(n) : t[Len(x) + i] = n[i]
  BY <1>1, <1>2, <1>3
<1>5. \A i \in 1..Len(y) : t[Len(x) + Len(n) + i] = y[i]
  <2> TAKE i \in 1..Len(y)
  <2>1. Len(n) + i \in 1..Len(z) /\ Len(x) + (Len(n) + i) = Len(x) + Len(n) + i
    BY <1>1, <1>2
  <2> QED BY <1>2, <1>3, <2>1
<1>6. SubSeq(t, Len(x) + 1, Len(x) + Len(n)) = n
  <2> DEFINE u == SubSeq(t, Len(x) + 1, Len(x) + Len(n))
  <2>1. \A i \in (Len(x) + 1)..(Len(x) + Len(n)) : t[i] \in S
    BY <1>1, <1>2, <1>3
  <2>2. u \in Seq(S) /\ Len(u) = Len(n)
    BY <1>1, <1>2, <1>3
  <2>3. \A i \in 1..Len(n) : u[i] = t[Len(x) + i]
    BY <1>1, <1>2, <1>3
  <2> HIDE DEF u
  <2>4. u = n
    BY <1>4, <2>2, <2>3, SeqEqual
  <2> QED BY <2>4 DEF u
<1>7. SubSeq(t, 1, Len(x)) = x
  <2> DEFINE u == SubSeq(t, 1, Len(x))
  <2>1. u \in Seq(S) /\ Len(u) = Len(x)
    BY <1>1, <1>2, <1>3
  <2>2. \A i \in 1..Len(x) : u[i] = x[i]
    BY <1>1, <1>2, <1>3
  <2> HIDE DEF u
  <2>4. u = x
    BY <2>1, <2>2, SeqEqual
  <2> QED BY <2>4 DEF u
<1>8. Len(t) = Len(x) + Len(n) + Len(y)
  BY <1>1, <1>2, <1>3
<1> QED BY <1>3, <1>4, <1>5, <1>6, <1>7, <1>8 DEF Placed, t, z

(* The parts of a text of three parts.                                     *)
LEMMA Parts ==
    ASSUME NEW S, NEW x \in Seq(S), NEW n \in Seq(S), NEW y \in Seq(S)
    PROVE  /\ x \o (n \o y) \in Seq(S)
           /\ Len(x \o (n \o y)) = Len(x) + Len(n) + Len(y)
           /\ \A i \in 1..Len(x) : (x \o (n \o y))[i] = x[i]
           /\ \A i \in 1..Len(n) : (x \o (n \o y))[Len(x) + i] = n[i]
           /\ \A i \in 1..Len(y) : (x \o (n \o y))[Len(x) + Len(n) + i] = y[i]
           /\ SubSeq(x \o (n \o y), Len(x) + 1, Len(x) + Len(n)) = n
           /\ SubSeq(x \o (n \o y), 1, Len(x)) = x
<1> DEFINE t == x \o (n \o y)
<1>1. Placed(S, x, n, y, t)
  BY PartsPlaced
<1> HIDE DEF t
<1>2. /\ t \in Seq(S) /\ Len(t) = Len(x) + Len(n) + Len(y)
      /\ \A i \in 1..Len(x) : t[i] = x[i]
      /\ \A i \in 1..Len(n) : t[Len(x) + i] = n[i]
      /\ \A i \in 1..Len(y) : t[Len(x) + Len(n) + i] = y[i]
      /\ SubSeq(t, Len(x) + 1, Len(x) + Len(n)) = n
      /\ SubSeq(t, 1, Len(x)) = x
  BY ONLY <1>1 DEF Placed
<1> QED BY ONLY <1>2 DEF t

(* A needle with a word of its own is found where it is, and only there.   *)
LEMMA FindSole ==
    ASSUME NEW S, NEW w, NEW x \in Seq(S \ {w}), NEW y \in Seq(S \ {w}), NEW n \in Seq(S),
           Sole(n, w)
    PROVE  /\ Find(x \o (n \o y), n) = Len(x) + 1
           /\ Has(x \o (n \o y), n)
<1> DEFINE t == x \o (n \o y)
<1>1. /\ x \in Seq(S) /\ y \in Seq(S)
      /\ \A i \in 1..Len(x) : x[i] # w
      /\ \A i \in 1..Len(y) : y[i] # w
      /\ Len(x) \in Nat /\ Len(y) \in Nat /\ Len(n) \in Nat
  BY SeqMonotonic, ElementOfSeq
<1>2. /\ t \in Seq(S) /\ Len(t) = Len(x) + Len(n) + Len(y)
      /\ \A i \in 1..Len(x) : t[i] = x[i]
      /\ \A i \in 1..Len(n) : t[Len(x) + i] = n[i]
      /\ \A i \in 1..Len(y) : t[Len(x) + Len(n) + i] = y[i]
      /\ SubSeq(t, Len(x) + 1, Len(x) + Len(n)) = n
  BY <1>1, Parts
<1> HIDE DEF t
<1>3. PICK k \in 1..Len(n) : n[k] = w /\ \A j \in 1..Len(n) : n[j] = w => j = k
  BY DEF Sole
<1>4. ASSUME NEW i \in 1..Len(t), t[i] = w PROVE i = Len(x) + k
  <2>1. CASE i \in 1..Len(x)
    BY <1>1, <1>2, <1>4, <2>1
  <2>2. CASE i \in (Len(x) + 1)..(Len(x) + Len(n))
    <3> DEFINE j == i - Len(x)
    <3>1. j \in 1..Len(n) /\ i = Len(x) + j
      BY <1>1, <2>2
    <3> HIDE DEF j
    <3>2. t[i] = n[j]
      BY <1>2, <3>1
    <3> QED BY <1>3, <1>4, <3>1, <3>2
  <2>3. CASE i \in (Len(x) + Len(n) + 1)..Len(t)
    <3>1. /\ i - (Len(x) + Len(n)) \in 1..Len(y)
          /\ i = Len(x) + Len(n) + (i - (Len(x) + Len(n)))
      BY <1>1, <1>2, <2>3
    <3> QED BY <1>1, <1>2, <1>4, <3>1
  <2> QED BY <1>1, <2>1, <2>2, <2>3
<1>5. Len(x) + 1 \in Places(t, n)
  <2>1. Len(x) + 1 \in 1..(Len(t) + 1 - Len(n)) /\ (Len(x) + 1) + Len(n) - 1 = Len(x) + Len(n)
    BY <1>1, <1>2
  <2> QED BY <1>2, <2>1 DEF Places
<1>6. ASSUME NEW i \in Places(t, n) PROVE i = Len(x) + 1
  <2>1. i \in 1..(Len(t) + 1 - Len(n)) /\ SubSeq(t, i, i + Len(n) - 1) = n
    BY DEF Places
  <2>2. i + k - 1 \in 1..Len(t)
    BY <1>1, <1>2, <2>1, SMTT(30)
  <2>3. SubSeq(t, i, i + Len(n) - 1)[k] = t[i + k - 1]
    BY <1>1, <1>2, <2>1
  <2>4. t[i + k - 1] = w
    BY <1>3, <2>1, <2>3
  <2>5. i + k - 1 = Len(x) + k
    BY <1>4, <2>2, <2>4
  <2> QED BY <1>1, <2>1, <2>5
<1>7. Places(t, n) = {Len(x) + 1}
  BY <1>5, <1>6
<1>8. Find(t, n) = Len(x) + 1 /\ Has(t, n)
  <2>1. Len(x) + 1 \in Nat \ {0}
    BY <1>1
  <2> QED BY <1>7, <2>1, FindsOnly
<1> QED BY <1>8 DEF t

(* A needle with a word the text does not have is nowhere in it.           *)
LEMMA FindNone ==
    ASSUME NEW S, NEW w, NEW text \in Seq(S \ {w}), NEW n \in Seq(S), Sole(n, w)
    PROVE  Find(text, n) = 0 /\ ~Has(text, n)
<1>1. PICK k \in 1..Len(n) : n[k] = w
  BY DEF Sole
<1>2. \A i \in 1..Len(text) : text[i] # w
  BY ElementOfSeq
<1>3. ASSUME NEW i \in Places(text, n) PROVE FALSE
  <2>1. i \in 1..(Len(text) + 1 - Len(n)) /\ SubSeq(text, i, i + Len(n) - 1) = n
    BY DEF Places
  <2>2. Len(text) \in Nat /\ Len(n) \in Nat
    OBVIOUS
  <2>3. i + k - 1 \in 1..Len(text) /\ k \in 1..((i + Len(n) - 1) - i + 1)
    BY <2>1, <2>2
  <2>4. SubSeq(text, i, i + Len(n) - 1)[k] = text[i + k - 1]
    BY <2>1, <2>2, <2>3
  <2> QED BY <1>1, <1>2, <2>1, <2>3, <2>4
<1>4. Places(text, n) = {}
  BY <1>3
<1> QED BY <1>4 DEF Find, Has

---------------------------------------------------------------------------
(* Turns                                                                   *)

(* A sequence of no elements is the empty one.                             *)
LEMMA NothingIs ==
    ASSUME NEW f, f = [i \in {} |-> f[i]]
    PROVE  f = <<>>
OBVIOUS

(* The join of no texts is empty.                                          *)
LEMMA JoinEmpty == ASSUME NEW separator PROVE Join(<<>>, separator) = <<>>
<1> DEFINE f == [i \in DOMAIN <<>> |-> IF i = 1 THEN <<>>[i] ELSE separator \o <<>>[i]]
<1>1. f = <<>>
  <2>1. DOMAIN <<>> = {}
    OBVIOUS
  <2> QED BY <2>1, NothingIs
<1>2. Join(<<>>, separator) = FlattenSeq(f)
  BY DEF Join
<1> QED BY <1>1, <1>2, FlattenEmpty

(* No calls are written as nothing.                                        *)
LEMMA NoCallsWritten == ASSUME NEW family PROVE WrittenCalls(family, <<>>) = <<>>
<1> DEFINE f == [i \in DOMAIN <<>> |-> Written(family, <<>>[i])]
           separator == IF family = "gemma" THEN <<>> ELSE <<"nl">>
<1>1. f = <<>>
  <2>1. DOMAIN <<>> = {}
    OBVIOUS
  <2> HIDE DEF Written
  <2> QED BY <2>1, NothingIs
<1>2. WrittenCalls(family, <<>>) = Join(f, separator)
  BY DEF WrittenCalls
<1> HIDE DEF f, separator
<1> QED BY <1>1, <1>2, JoinEmpty

(* The messages of a transcript: text, and neither calls nor responses.    *)
Plain(words) ==
    [role : {"system", "user", "assistant", "tool"}, content : Seq(words),
     calls : {<<>>}, responses : {<<>>}]

(* Who says message j of m, if there is one.                               *)
RoleAt(m, j) == IF j \in DOMAIN m THEN m[j].role ELSE "none"

(* No answer comes after message i.                                        *)
LastAnswer(m, i) == \A j \in (i + 1)..Len(m) : m[j].role # "assistant"

(* A turn of the user, as text.                                            *)
UserTurn(t, content) == Opened("user") \o Escaped(t, content) \o Closed

(* How an assistant turn opens, apart from the markup.                     *)
Lead(t, last) == (IF t.quirk = "last" /\ last THEN Tag("think") ELSE <<>>) \o t.lead

(* An assistant turn: one next to it may be part of it.                    *)
AnswerTurn(t, content, before, after, last) ==
    (IF t.results = "native" /\ before = "assistant" THEN <<>> ELSE Opened("assistant")) \o
    Lead(t, last) \o Escaped(t, content) \o
    (IF t.results = "native" /\ after = "assistant" THEN <<>> ELSE Closed)

(* A tool result: one next to it is in the same turn.                      *)
ToolTurn(t, content, before, after) ==
    IF t.results = "role"
    THEN (IF before = "tool" THEN <<>> ELSE Opened("user")) \o
         Tag("tool_response") \o Escaped(t, content) \o Tag("/tool_response") \o <<"nl">> \o
         (IF after = "tool" THEN <<>> ELSE Closed)
    ELSE <<>>

(* Markup is made of the template's marks.                                 *)
LEMMA MarkTypes ==
    ASSUME NEW words, Marks \subseteq words
    PROVE  /\ Opened("user") \in Seq(words) /\ Opened("assistant") \in Seq(words)
           /\ Opened("system") \in Seq(words) /\ Closed \in Seq(words)
           /\ Tag("tools") \in Seq(words) /\ Tag("/tools") \in Seq(words)
           /\ Tag("tool_response") \in Seq(words) /\ Tag("/tool_response") \in Seq(words)
           /\ Tag("think") \in Seq(words) /\ <<"nl">> \in Seq(words) /\ <<>> \in Seq(words)
<1>1. \A a, b, c \in words : <<a, b, c>> \in Seq(words)
  OBVIOUS
<1>2. \A a, b \in words : <<a, b>> \in Seq(words)
  OBVIOUS
<1>3. \A a \in words : <<a>> \in Seq(words)
  OBVIOUS
<1>4. {"<|im_start|>", "<|im_end|>", "nl", "<", ">", "user", "assistant", "system", "tools",
       "/tools", "tool_response", "/tool_response", "think"} \subseteq words
  BY Zenon DEF Marks
<1>5. <<>> \in Seq(words)
  OBVIOUS
<1> QED BY <1>1, <1>2, <1>3, <1>4, <1>5 DEF Opened, Closed, Tag

(* The template writes a turn of the user so.                              *)
LEMMA UserTurnIs ==
    ASSUME NEW t, NEW m, NEW i, m[i].role = "user"
    PROVE  Turn(t, m, i) = UserTurn(t, m[i].content)
BY DEF Turn, UserTurn

(* A system message is in the heading, and is no turn.                     *)
LEMMA SystemTurnIs ==
    ASSUME NEW t, NEW m, NEW i, m[i].role = "system"
    PROVE  Turn(t, m, i) = <<>>
BY DEF Turn

(* Escaping takes text to text.                                            *)
LEMMA EscapedType ==
    ASSUME NEW words, Marks \subseteq words, NEW t, NEW content \in Seq(words)
    PROVE  /\ Escaped(t, content) \in Seq(words)
           /\ t.quirk # "escape" => Escaped(t, content) = content
<1>1. "&amp;" \in words
  BY Zenon DEF Marks
<1>2. ReplaceAll(content, "&", "&amp;") \in Seq(words)
  <2> DEFINE f == [i \in 1..Len(content) |-> IF content[i] = "&" THEN "&amp;" ELSE content[i]]
  <2>1. \A i \in 1..Len(content) : content[i] \in words
    BY ElementOfSeq
  <2>2. \A i \in 1..Len(content) : (IF content[i] = "&" THEN "&amp;" ELSE content[i]) \in words
    BY <1>1, <2>1, Zenon
  <2>3. f \in Seq(words)
    <3>1. f \in [1..Len(content) -> words]
      BY <2>2, Zenon
    <3>2. Len(content) \in Nat
      OBVIOUS
    <3> HIDE DEF f
    <3> QED BY <3>1, <3>2
  <2> QED BY <2>3, Zenon DEF ReplaceAll
<1> QED BY <1>2, Zenon DEF Escaped

(* The template writes a tool message so.                                  *)
LEMMA ToolTurnIs ==
    ASSUME NEW t, NEW m, NEW i, m[i].role = "tool"
    PROVE  Turn(t, m, i) = ToolTurn(t, m[i].content, RoleAt(m, i - 1), RoleAt(m, i + 1))
BY DEF Turn, RoleAt, ToolTurn

(* The template writes an answer without calls so.                         *)
LEMMA AnswerTurnIs ==
    ASSUME NEW words, NEW t, Marks \subseteq words, t.lead \in Seq(words),
           NEW m, NEW i, m[i].role = "assistant", m[i].calls = <<>>, m[i].responses = <<>>,
           m[i].content \in Seq(words)
    PROVE  Turn(t, m, i) = AnswerTurn(t, m[i].content, RoleAt(m, i - 1), RoleAt(m, i + 1),
                                      LastAnswer(m, i))
<1> DEFINE native == t.results = "native"
           open == IF native /\ RoleAt(m, i - 1) = "assistant" THEN <<>> ELSE Opened("assistant")
           think == IF t.quirk = "last" /\ LastAnswer(m, i) THEN Tag("think") ELSE <<>>
           lead == t.lead
           response(j) == Tag("|tool_response") \o m[i].responses[j] \o Tag("tool_response|")
           responses == IF native
                        THEN FlattenSeq([j \in DOMAIN m[i].responses |-> response(j)]) ELSE <<>>
           content == Escaped(t, m[i].content)
           close == IF native /\ RoleAt(m, i + 1) = "assistant" THEN <<>> ELSE Closed
           front == open \o think \o lead
<1>1. Turn(t, m, i) = open \o think \o lead \o WrittenCalls(t.calls, m[i].calls) \o
                      responses \o content \o close
  BY DEF Turn, RoleAt, LastAnswer
<1>2. responses = <<>>
  <2> DEFINE f == [j \in DOMAIN m[i].responses |-> response(j)]
  <2>1. DOMAIN m[i].responses = {}
    OBVIOUS
  <2> HIDE DEF response
  <2>2. f = <<>>
    BY <2>1, NothingIs
  <2> HIDE DEF f
  <2>3. FlattenSeq(f) = <<>>
    BY <2>2, FlattenEmpty
  <2> QED BY <2>3 DEF f
<1>3. WrittenCalls(t.calls, m[i].calls) = <<>>
  BY NoCallsWritten
<1>4. open \in Seq(words) /\ think \in Seq(words) /\ lead \in Seq(words)
  BY MarkTypes
<1>5. AnswerTurn(t, m[i].content, RoleAt(m, i - 1), RoleAt(m, i + 1), LastAnswer(m, i)) =
      open \o (think \o lead) \o content \o close
  BY DEF AnswerTurn, Lead
<1> HIDE DEF open, think, lead, responses, content, close
<1>6. front \in Seq(words) /\ front = open \o (think \o lead)
  <2>1. open \o think \in Seq(words)
    BY <1>4, ConcatProperties
  <2>2. front \in Seq(words)
    BY <1>4, <2>1, ConcatProperties
  <2>3. (open \o think) \o lead = open \o (think \o lead)
    BY <1>4, ConcatAssociative, SMTT(30)
  <2> QED BY <2>2, <2>3
<1>7. Turn(t, m, i) = front \o <<>> \o <<>> \o content \o close
  BY <1>1, <1>2, <1>3
<1> HIDE DEF front
<1>8. front \o <<>> = front
  BY <1>6, ConcatEmptySeq
<1> QED BY <1>5, <1>6, <1>7, <1>8, SMTT(30)

(* A turn of the user has the words of its content and of the markup.      *)
LEMMA UserTurnType ==
    ASSUME NEW words, Marks \subseteq words, NEW t, NEW content \in Seq(words)
    PROVE  UserTurn(t, content) \in Seq(words)
BY EscapedType, MarkTypes, ConcatProperties DEF UserTurn

(* So has a tool message.                                                  *)
LEMMA ToolTurnType ==
    ASSUME NEW words, Marks \subseteq words, NEW t, NEW content \in Seq(words),
           NEW before, NEW after
    PROVE  ToolTurn(t, content, before, after) \in Seq(words)
<1> DEFINE open == IF before = "tool" THEN <<>> ELSE Opened("user")
           close == IF after = "tool" THEN <<>> ELSE Closed
           turn == open \o Tag("tool_response") \o Escaped(t, content) \o
                   Tag("/tool_response") \o <<"nl">> \o close
<1>1. open \in Seq(words) /\ close \in Seq(words) /\ <<>> \in Seq(words)
  BY MarkTypes
<1>2. Escaped(t, content) \in Seq(words)
  BY EscapedType
<1>3. turn \in Seq(words)
  <2> HIDE DEF open, close
  <2> QED BY <1>1, <1>2, MarkTypes, ConcatProperties
<1>4. ToolTurn(t, content, before, after) = IF t.results = "role" THEN turn ELSE <<>>
  BY DEF ToolTurn
<1> HIDE DEF turn
<1> QED BY <1>1, <1>3, <1>4

(* So has an answer.                                                       *)
LEMMA AnswerTurnType ==
    ASSUME NEW words, Marks \subseteq words, NEW t, t.lead \in Seq(words),
           NEW content \in Seq(words), NEW before, NEW after, NEW last
    PROVE  /\ Lead(t, last) \in Seq(words)
           /\ AnswerTurn(t, content, before, after, last) \in Seq(words)
<1> DEFINE open == IF t.results = "native" /\ before = "assistant" THEN <<>>
                   ELSE Opened("assistant")
           think == IF t.quirk = "last" /\ last THEN Tag("think") ELSE <<>>
           close == IF t.results = "native" /\ after = "assistant" THEN <<>> ELSE Closed
<1>1. open \in Seq(words) /\ close \in Seq(words) /\ think \in Seq(words)
  BY MarkTypes
<1>2. Escaped(t, content) \in Seq(words)
  BY EscapedType
<1>3. Lead(t, last) \in Seq(words)
  <2> HIDE DEF think
  <2>1. think \o t.lead \in Seq(words)
    BY <1>1, ConcatProperties
  <2> QED BY <2>1 DEF Lead, think
<1>4. open \o Lead(t, last) \o Escaped(t, content) \o close \in Seq(words)
  <2> HIDE DEF open, close
  <2> QED BY <1>1, <1>2, <1>3, ConcatProperties
<1> QED BY <1>3, <1>4 DEF AnswerTurn

(* What a message of a transcript is.                                      *)
LEMMA PlainIs ==
    ASSUME NEW words, NEW m \in Seq(Plain(words)), NEW i \in DOMAIN m
    PROVE  /\ m[i] \in Plain(words) /\ m[i].role \in {"system", "user", "assistant", "tool"}
           /\ m[i].content \in Seq(words) /\ m[i].calls = <<>> /\ m[i].responses = <<>>
<1>1. m[i] \in Plain(words)
  OBVIOUS
<1> QED BY <1>1 DEF Plain

(* A turn depends on its message and on the roles next to it, and, in a    *)
(* template that treats it apart, on being the last answer.                *)
TurnText(t, msg, before, after, last) ==
    CASE msg.role = "user" -> UserTurn(t, msg.content)
      [] msg.role = "tool" -> ToolTurn(t, msg.content, before, after)
      [] msg.role = "assistant" -> AnswerTurn(t, msg.content, before, after, last)
      [] msg.role = "system" -> <<>>

(* The text of a turn depends on its message and on the roles around it.   *)
LEMMA TurnIs ==
    ASSUME NEW words, Marks \subseteq words, NEW t, t.lead \in Seq(words),
           NEW m \in Seq(Plain(words)), NEW i \in DOMAIN m
    PROVE  /\ Turn(t, m, i) = TurnText(t, m[i], RoleAt(m, i - 1), RoleAt(m, i + 1),
                                       LastAnswer(m, i))
           /\ Turn(t, m, i) \in Seq(words)
<1>1. /\ m[i].role \in {"system", "user", "assistant", "tool"} /\ m[i].content \in Seq(words)
      /\ m[i].calls = <<>> /\ m[i].responses = <<>>
  BY PlainIs
<1>2. CASE m[i].role = "user"
  BY <1>1, <1>2, UserTurnIs, UserTurnType DEF TurnText
<1>3. CASE m[i].role = "system"
  BY <1>3, SystemTurnIs, MarkTypes DEF TurnText
<1>4. CASE m[i].role = "tool"
  BY <1>1, <1>4, ToolTurnIs, ToolTurnType DEF TurnText
<1>5. CASE m[i].role = "assistant"
  <2> DEFINE turn == AnswerTurn(t, m[i].content, RoleAt(m, i - 1), RoleAt(m, i + 1),
                                LastAnswer(m, i))
  <2>1. Turn(t, m, i) = turn
    BY <1>1, <1>5, AnswerTurnIs, SMTT(30)
  <2>2. turn \in Seq(words)
    BY <1>1, AnswerTurnType
  <2>3. TurnText(t, m[i], RoleAt(m, i - 1), RoleAt(m, i + 1), LastAnswer(m, i)) = turn
    BY <1>5 DEF TurnText
  <2> QED BY <2>1, <2>2, <2>3
<1> QED BY <1>1, <1>2, <1>3, <1>4, <1>5

---------------------------------------------------------------------------
(* Transcripts                                                             *)

Turns(t, m) == [i \in DOMAIN m |-> Turn(t, m, i)]

(* All turns of a transcript, as text.                                     *)
Body(t, m) == FlattenSeq(Turns(t, m))

(* There is a text for every message, of the words of what was said.       *)
LEMMA BodyType ==
    ASSUME NEW words, Marks \subseteq words, NEW t, t.lead \in Seq(words),
           NEW m \in Seq(Plain(words))
    PROVE  /\ Turns(t, m) \in Seq(Seq(words)) /\ Len(Turns(t, m)) = Len(m)
           /\ Body(t, m) \in Seq(words)
<1>1. DOMAIN m = 1..Len(m) /\ Len(m) \in Nat
  OBVIOUS
<1>2. \A i \in DOMAIN m : Turn(t, m, i) \in Seq(words)
  BY TurnIs
<1>3. Turns(t, m) \in [1..Len(m) -> Seq(words)]
  BY <1>1, <1>2 DEF Turns
<1>4. Turns(t, m) \in Seq(Seq(words)) /\ Len(Turns(t, m)) = Len(m)
  BY <1>1, <1>3
<1> QED BY <1>4, FlattenType DEF Body

(* Of messages that change nothing about the turns before them, a          *)
(* transcript is continued by their turns.                                 *)
LEMMA BodyAppend ==
    ASSUME NEW words, Marks \subseteq words, NEW t, t.lead \in Seq(words),
           NEW m \in Seq(Plain(words)), NEW x \in Plain(words),
           \A i \in 1..Len(m) : Turn(t, Append(m, x), i) = Turn(t, m, i)
    PROVE  Body(t, Append(m, x)) = Body(t, m) \o Turn(t, Append(m, x), Len(m) + 1)
<1> DEFINE n == Append(m, x)  last == Turn(t, n, Len(m) + 1)
<1>1. n \in Seq(Plain(words)) /\ Len(n) = Len(m) + 1 /\ Len(m) \in Nat
  OBVIOUS
<1> HIDE DEF n
<1>2. /\ Turns(t, m) \in Seq(Seq(words)) /\ Len(Turns(t, m)) = Len(m)
      /\ Turns(t, n) \in Seq(Seq(words)) /\ Len(Turns(t, n)) = Len(m) + 1
  BY <1>1, BodyType
<1>3. \A i \in 1..Len(m) : Turns(t, n)[i] = Turns(t, m)[i]
  <2>1. DOMAIN m = 1..Len(m) /\ DOMAIN n = 1..(Len(m) + 1)
    BY <1>1
  <2> QED BY <1>1, <2>1 DEF Turns, n
<1>4. Turns(t, n)[Len(m) + 1] = last
  <2>1. Len(m) + 1 \in DOMAIN n
    BY <1>1
  <2> QED BY <2>1 DEF Turns
<1>5. last \in Seq(words)
  <2>1. Len(m) + 1 \in DOMAIN n
    BY <1>1
  <2> QED BY <1>1, <2>1, TurnIs
<1>6. Turns(t, n) = Append(Turns(t, m), last)
  <2> DEFINE a == Turns(t, n)  b == Turns(t, m)
  <2>1. /\ a \in Seq(Seq(words)) /\ Len(a) = Len(m) + 1 /\ b \in Seq(Seq(words))
        /\ Len(b) = Len(m) /\ \A i \in 1..Len(m) : a[i] = b[i]
        /\ a[Len(m) + 1] = last
    BY <1>2, <1>3, <1>4
  <2> HIDE DEF a, b, last
  <2>2. Append(b, last) \in Seq(Seq(words)) /\ Len(Append(b, last)) = Len(m) + 1
    BY <1>5, <2>1
  <2>3. \A i \in 1..(Len(m) + 1) : Append(b, last)[i] = a[i]
    BY <1>1, <1>5, <2>1
  <2>4. a = Append(b, last)
    BY <2>1, <2>2, <2>3, SeqEqual
  <2> QED BY <2>4 DEF a, b
<1> HIDE DEF last
<1>7. FlattenSeq(Append(Turns(t, m), last)) = FlattenSeq(Turns(t, m)) \o last
  BY <1>2, <1>5, FlattenAppend
<1> QED BY <1>6, <1>7 DEF Body, n, last

(* Roles next to a turn count only when they are its own.                  *)
LEMMA TurnTextSame ==
    ASSUME NEW t, NEW msg, msg.role \in {"system", "user", "assistant", "tool"}, NEW before,
           NEW a, NEW b, NEW k, NEW l, t.quirk = "none" \/ k = l,
           msg.role \in {"tool", "assistant"} => (a = msg.role <=> b = msg.role)
    PROVE  TurnText(t, msg, before, a, k) = TurnText(t, msg, before, b, l)
<1>1. CASE msg.role \in {"user", "system"}
  BY <1>1 DEF TurnText
<1>2. CASE msg.role = "tool"
  BY <1>2 DEF TurnText, ToolTurn
<1>3. CASE msg.role = "assistant"
  BY <1>3 DEF TurnText, AnswerTurn, Lead
<1> QED BY <1>1, <1>2, <1>3

(* What a message added to a transcript does to the turns before it.       *)
LEMMA TurnsKept ==
    ASSUME NEW words, Marks \subseteq words, NEW t, t.lead \in Seq(words),
           NEW m \in Seq(Plain(words)), NEW x \in Plain(words),
           t.quirk = "none" \/ x.role # "assistant",
           x.role = "user" \/ RoleAt(m, Len(m)) # x.role
    PROVE  \A i \in 1..Len(m) : Turn(t, Append(m, x), i) = Turn(t, m, i)
<1> DEFINE n == Append(m, x)
<1>1. /\ n \in Seq(Plain(words)) /\ DOMAIN n = 1..(Len(m) + 1) /\ Len(m) \in Nat
      /\ DOMAIN m = 1..Len(m) /\ n[Len(m) + 1] = x /\ Len(n) = Len(m) + 1
      /\ \A i \in 1..Len(m) : n[i] = m[i]
  OBVIOUS
<1> HIDE DEF n
<1> SUFFICES ASSUME NEW i \in 1..Len(m) PROVE Turn(t, n, i) = Turn(t, m, i)
  BY DEF n
<1>2. i \in DOMAIN n /\ i \in DOMAIN m /\ n[i] = m[i]
  BY <1>1
<1>3. RoleAt(n, i - 1) = RoleAt(m, i - 1)
  <2>1. CASE i = 1
    <3>1. i - 1 \notin DOMAIN n /\ i - 1 \notin DOMAIN m
      BY <1>1, <2>1
    <3> QED BY <3>1 DEF RoleAt
  <2>2. CASE i # 1
    <3>1. i - 1 \in 1..Len(m) /\ i - 1 \in DOMAIN n
      BY <1>1, <2>2
    <3> QED BY <1>1, <3>1 DEF RoleAt
  <2> QED BY <2>1, <2>2
<1>4. m[i].role \in {"system", "user", "assistant", "tool"} /\ x.role # "none"
  <2>1. x.role \in {"system", "user", "assistant", "tool"}
    BY DEF Plain
  <2> QED BY <1>2, <2>1, PlainIs
<1>5. m[i].role \in {"tool", "assistant"} =>
        (RoleAt(n, i + 1) = m[i].role <=> RoleAt(m, i + 1) = m[i].role)
  <2>1. CASE i = Len(m)
    <3>1. RoleAt(m, i + 1) = "none" /\ RoleAt(n, i + 1) = x.role /\ RoleAt(m, i) = m[i].role
      <4>1. i + 1 \notin DOMAIN m /\ i + 1 \in DOMAIN n /\ n[i + 1] = x
        BY <1>1, <2>1
      <4> QED BY <1>2, <4>1 DEF RoleAt
    <3>2. m[i].role \in {"tool", "assistant"} => m[i].role # x.role
      BY <2>1, <3>1
    <3> QED BY <1>4, <3>1, <3>2
  <2>2. CASE i # Len(m)
    <3>1. i + 1 \in 1..Len(m) /\ i + 1 \in 1..(Len(m) + 1)
      <4>1. Len(m) \in Nat
        BY <1>1
      <4> QED BY <2>2, <4>1
    <3> QED BY <1>1, <3>1 DEF RoleAt
  <2> QED BY <2>1, <2>2
<1>6. t.quirk = "none" \/ LastAnswer(n, i) = LastAnswer(m, i)
  <2> SUFFICES ASSUME x.role # "assistant" PROVE LastAnswer(n, i) = LastAnswer(m, i)
    OBVIOUS
  <2>1. LastAnswer(n, i) <=> LastAnswer(m, i)
    BY <1>1 DEF LastAnswer
  <2> QED BY <2>1 DEF LastAnswer
<1>7. /\ Turn(t, n, i) = TurnText(t, n[i], RoleAt(n, i - 1), RoleAt(n, i + 1), LastAnswer(n, i))
      /\ Turn(t, m, i) = TurnText(t, m[i], RoleAt(m, i - 1), RoleAt(m, i + 1), LastAnswer(m, i))
  BY <1>1, <1>2, TurnIs
<1> QED BY <1>2, <1>3, <1>4, <1>5, <1>6, <1>7, TurnTextSame

(* The role of the message last added.                                     *)
LEMMA LastRole ==
    ASSUME NEW words, NEW m \in Seq(Plain(words)), NEW x \in Plain(words)
    PROVE  /\ Append(m, x) \in Seq(Plain(words)) /\ Len(Append(m, x)) = Len(m) + 1
           /\ Append(m, x)[Len(m) + 1] = x
           /\ RoleAt(Append(m, x), Len(Append(m, x))) = x.role
           /\ RoleAt(Append(m, x), Len(m)) = RoleAt(m, Len(m))
           /\ RoleAt(Append(m, x), Len(m) + 2) = "none"
<1> DEFINE n == Append(m, x)
<1>1. /\ n \in Seq(Plain(words)) /\ DOMAIN n = 1..(Len(m) + 1) /\ Len(m) \in Nat
      /\ DOMAIN m = 1..Len(m) /\ n[Len(m) + 1] = x /\ Len(n) = Len(m) + 1
      /\ \A i \in 1..Len(m) : n[i] = m[i]
  OBVIOUS
<1> HIDE DEF n
<1>2. RoleAt(n, Len(n)) = x.role
  BY <1>1 DEF RoleAt
<1>3. RoleAt(n, Len(m)) = RoleAt(m, Len(m))
  BY <1>1 DEF RoleAt
<1>4. RoleAt(n, Len(m) + 2) = "none"
  BY <1>1 DEF RoleAt
<1> QED BY <1>1, <1>2, <1>3, <1>4 DEF n

(* A message of the user adds its turn.                                    *)
LEMMA UserAppended ==
    ASSUME NEW words, Marks \subseteq words, NEW t, t.lead \in Seq(words),
           NEW m \in Seq(Plain(words)), NEW x \in Plain(words), x.role = "user"
    PROVE  Body(t, Append(m, x)) = Body(t, m) \o UserTurn(t, x.content)
<1>1. Append(m, x)[Len(m) + 1] = x
  BY LastRole
<1>2. \A i \in 1..Len(m) : Turn(t, Append(m, x), i) = Turn(t, m, i)
  BY TurnsKept
<1>3. Body(t, Append(m, x)) = Body(t, m) \o Turn(t, Append(m, x), Len(m) + 1)
  BY <1>2, BodyAppend
<1>4. Turn(t, Append(m, x), Len(m) + 1) = UserTurn(t, x.content)
  <2> DEFINE n == Append(m, x)  k == Len(m) + 1
  <2>1. n[k] = x
    BY <1>1
  <2> HIDE DEF n, k
  <2>2. Turn(t, n, k) = UserTurn(t, x.content)
    BY <2>1, UserTurnIs
  <2> QED BY <2>2 DEF n, k
<1> QED BY <1>3, <1>4

(* What opens an assistant turn, and a whole one, in a template that       *)
(* treats them all alike.                                                  *)
Begun(t) == Opened("assistant") \o t.lead

(* An answer, once it is closed.                                           *)
Answered(t, content) == Begun(t) \o content \o Closed

(* It has the words of its content, of the lead and of the markup.         *)
LEMMA AnsweredType ==
    ASSUME NEW words, Marks \subseteq words, NEW t, t.lead \in Seq(words),
           NEW content \in Seq(words)
    PROVE  Begun(t) \in Seq(words) /\ Answered(t, content) \in Seq(words)
<1>1. Begun(t) \in Seq(words)
  BY MarkTypes, ConcatProperties DEF Begun
<1>2. Answered(t, content) \in Seq(words)
  BY <1>1, MarkTypes, ConcatProperties DEF Answered
<1> QED BY <1>1, <1>2

(* An answer adds its turn, when no answer is before it.                   *)
LEMMA AnswerAppended ==
    ASSUME NEW words, Marks \subseteq words, NEW t, t.lead \in Seq(words), t.quirk = "none",
           NEW m \in Seq(Plain(words)), NEW x \in Plain(words), x.role = "assistant",
           RoleAt(m, Len(m)) # "assistant"
    PROVE  Body(t, Append(m, x)) = Body(t, m) \o Answered(t, x.content)
<1> DEFINE n == Append(m, x)  k == Len(m) + 1
<1>1. /\ n \in Seq(Plain(words)) /\ k \in DOMAIN n /\ n[k] = x
      /\ RoleAt(n, k - 1) # "assistant" /\ RoleAt(n, k + 1) = "none"
  <2>1. /\ n \in Seq(Plain(words)) /\ Len(n) = Len(m) + 1 /\ n[Len(m) + 1] = x
        /\ RoleAt(n, Len(m)) # "assistant" /\ RoleAt(n, Len(m) + 2) = "none"
    BY LastRole
  <2>2. Len(m) \in Nat
    OBVIOUS
  <2>3. k \in DOMAIN n /\ k - 1 = Len(m) /\ k + 1 = Len(m) + 2
    BY <2>1, <2>2
  <2> QED BY <2>1, <2>3
<1>2. \A i \in 1..Len(m) : Turn(t, Append(m, x), i) = Turn(t, m, i)
  BY TurnsKept
<1>3. Body(t, n) = Body(t, m) \o Turn(t, n, k)
  BY <1>2, BodyAppend
<1> HIDE DEF n, k
<1>4. x.content \in Seq(words) /\ Escaped(t, x.content) = x.content
  <2>1. x.content \in Seq(words)
    BY DEF Plain
  <2> QED BY <2>1, EscapedType
<1>5. Turn(t, n, k) = AnswerTurn(t, x.content, RoleAt(n, k - 1), RoleAt(n, k + 1),
                                 LastAnswer(n, k))
  <2>1. Turn(t, n, k) = TurnText(t, n[k], RoleAt(n, k - 1), RoleAt(n, k + 1), LastAnswer(n, k))
    BY <1>1, TurnIs
  <2> QED BY <1>1, <2>1 DEF TurnText
<1>6. Lead(t, LastAnswer(n, k)) = t.lead
  <2>1. Lead(t, LastAnswer(n, k)) = <<>> \o t.lead
    BY DEF Lead
  <2> QED BY <2>1, ConcatEmptySeq
<1>7. Turn(t, n, k) = Answered(t, x.content)
  BY <1>1, <1>4, <1>5, <1>6 DEF AnswerTurn, Answered, Begun
<1> QED BY <1>3, <1>7 DEF n

(* A transcript of nothing, or of a system message alone, has no turns.    *)
LEMMA NoTurns ==
    ASSUME NEW words, Marks \subseteq words, NEW t, t.lead \in Seq(words)
    PROVE  /\ Body(t, <<>>) = <<>>
           /\ \A x \in Plain(words) : x.role = "system" => Body(t, <<x>>) = <<>>
<1>1. Body(t, <<>>) = <<>>
  <2> DEFINE f == Turns(t, <<>>)
  <2>1. DOMAIN <<>> = {}
    OBVIOUS
  <2>2. f = <<>>
    BY <2>1, NothingIs DEF Turns
  <2> HIDE DEF f
  <2>3. FlattenSeq(f) = <<>>
    BY <2>2, FlattenEmpty
  <2> QED BY <2>3 DEF f, Body
<1>2. ASSUME NEW x \in Plain(words), x.role = "system" PROVE Body(t, <<x>>) = <<>>
  <2>1. /\ <<>> \in Seq(Plain(words)) /\ Len(<<>>) = 0 /\ <<x>> = Append(<<>>, x)
        /\ <<x>>[1] = x
    OBVIOUS
  <2>2. Body(t, <<x>>) = Body(t, <<>>) \o Turn(t, <<x>>, 1)
    <3> DEFINE e == <<>>  n == Append(e, x)
    <3>1. e \in Seq(Plain(words)) /\ Len(e) = 0 /\ n = <<x>>
      BY <2>1
    <3> HIDE DEF e, n
    <3>2. \A i \in 1..Len(e) : Turn(t, n, i) = Turn(t, e, i)
      BY <3>1
    <3>3. Body(t, n) = Body(t, e) \o Turn(t, n, Len(e) + 1)
      BY <3>1, <3>2, BodyAppend DEF n
    <3>4. Len(e) + 1 = 1
      BY <3>1
    <3>5. Body(t, <<x>>) = Body(t, e) \o Turn(t, <<x>>, 1)
      BY <3>1, <3>3, <3>4
    <3> QED BY <3>5 DEF e
  <2>3. Turn(t, <<x>>, 1) = <<>>
    BY <1>2, <2>1, SystemTurnIs
  <2>4. <<>> \o <<>> = <<>>
    OBVIOUS
  <2> QED BY <1>1, <2>2, <2>3, <2>4
<1> QED BY <1>1, <1>2

---------------------------------------------------------------------------
(* Tool results                                                            *)

(* The texts a join is the concatenation of.                               *)
Separated(texts, separator) ==
    [i \in DOMAIN texts |-> IF i = 1 THEN texts[i] ELSE separator \o texts[i]]

(* Joined texts have the words of the texts and of what separates them.    *)
LEMMA SeparatedType ==
    ASSUME NEW S, NEW texts \in Seq(Seq(S)), NEW separator \in Seq(S)
    PROVE  /\ Separated(texts, separator) \in Seq(Seq(S))
           /\ Len(Separated(texts, separator)) = Len(texts)
           /\ Join(texts, separator) = FlattenSeq(Separated(texts, separator))
           /\ Join(texts, separator) \in Seq(S)
<1>1. DOMAIN texts = 1..Len(texts) /\ Len(texts) \in Nat
  OBVIOUS
<1>2. ASSUME NEW i \in DOMAIN texts
      PROVE  (IF i = 1 THEN texts[i] ELSE separator \o texts[i]) \in Seq(S)
  <2>1. texts[i] \in Seq(S)
    OBVIOUS
  <2>2. separator \o texts[i] \in Seq(S)
    BY <2>1, ConcatProperties
  <2> QED BY <2>1, <2>2
<1>3. Separated(texts, separator) \in [1..Len(texts) -> Seq(S)]
  BY <1>1, <1>2 DEF Separated
<1>4. Separated(texts, separator) \in Seq(Seq(S)) /\ Len(Separated(texts, separator)) = Len(texts)
  <2> DEFINE f == Separated(texts, separator)  n == Len(texts)
  <2>1. n \in Nat /\ f \in [1..n -> Seq(S)]
    BY <1>1, <1>3
  <2> HIDE DEF f, n
  <2>2. f \in Seq(Seq(S)) /\ Len(f) = n
    BY <2>1
  <2> QED BY <2>2 DEF f, n
<1>5. Join(texts, separator) = FlattenSeq(Separated(texts, separator))
  BY DEF Join, Separated
<1> QED BY <1>4, <1>5, FlattenType

(* Flattening a prefix, one text more.                                     *)
LEMMA FlattenUpTo ==
    ASSUME NEW S, NEW seqs \in Seq(Seq(S)), NEW j \in 1..Len(seqs)
    PROVE  /\ SubSeq(seqs, 1, j) \in Seq(Seq(S))
           /\ FlattenSeq(SubSeq(seqs, 1, j)) = FlattenSeq(SubSeq(seqs, 1, j - 1)) \o seqs[j]
<1> DEFINE a == SubSeq(seqs, 1, j)  b == SubSeq(seqs, 1, j - 1)  x == seqs[j]
<1>1. /\ Len(seqs) \in Nat /\ j \in Nat /\ j >= 1 /\ x \in Seq(S)
      /\ \A i \in 1..Len(seqs) : seqs[i] \in Seq(S)
  OBVIOUS
<1>2. a \in Seq(Seq(S)) /\ Len(a) = j /\ \A i \in 1..j : a[i] = seqs[i]
  BY <1>1
<1>3. b \in Seq(Seq(S)) /\ Len(b) = j - 1 /\ \A i \in 1..(j - 1) : b[i] = seqs[i]
  BY <1>1
<1> HIDE DEF a, b
<1>4. a = Append(b, x)
  <2>1. Append(b, x) \in Seq(Seq(S)) /\ Len(Append(b, x)) = j
    BY <1>1, <1>3
  <2>2. \A i \in 1..j : Append(b, x)[i] = a[i]
    <3> SUFFICES ASSUME NEW i \in 1..j PROVE Append(b, x)[i] = a[i]
      OBVIOUS
    <3>0. j \in Nat /\ j >= 1 /\ Len(b) = j - 1
      BY <1>1, <1>3
    <3>1. a[i] = seqs[i]
      BY <1>2
    <3>2. CASE i = j
      <4>1. Append(b, x)[i] = x
        BY <1>3, <3>0, <3>2
      <4> QED BY <3>1, <3>2, <4>1
    <3>3. CASE i # j
      <4>1. i \in 1..(j - 1)
        BY <3>0, <3>3
      <4>2. Append(b, x)[i] = b[i] /\ b[i] = seqs[i]
        BY <1>3, <3>0, <4>1
      <4> QED BY <3>1, <4>2
    <3> QED BY <3>2, <3>3
  <2> QED BY <1>2, <2>1, <2>2, SeqEqual
<1>5. FlattenSeq(Append(b, x)) = FlattenSeq(b) \o x
  <2> HIDE DEF x
  <2> QED BY <1>1, <1>3, FlattenAppend
<1> QED BY <1>2, <1>4, <1>5 DEF a, b

(* A turn depends on the roles up to the message after it.                 *)
LEMMA TurnsLocal ==
    ASSUME NEW words, Marks \subseteq words, NEW t, t.lead \in Seq(words), t.quirk = "none",
           NEW a \in Seq(Plain(words)), NEW b \in Seq(Plain(words)), NEW n \in Nat,
           n <= Len(a), n <= Len(b), Agree(a, b, n), NEW i \in 1..(n - 1)
    PROVE  Turn(t, a, i) = Turn(t, b, i)
<1>1. /\ DOMAIN a = 1..Len(a) /\ DOMAIN b = 1..Len(b) /\ Len(a) \in Nat /\ Len(b) \in Nat
  OBVIOUS
<1>2. i \in DOMAIN a /\ i \in DOMAIN b /\ i \in 1..n /\ i + 1 \in 1..n
  BY <1>1
<1>3. ASSUME NEW j \in 1..n PROVE RoleAt(a, j) = RoleAt(b, j)
  <2>1. j \in DOMAIN a /\ j \in DOMAIN b /\ a[j] = b[j]
    BY <1>1 DEF Agree
  <2> QED BY <2>1 DEF RoleAt
<1>4. RoleAt(a, i + 1) = RoleAt(b, i + 1)
  BY <1>2, <1>3
<1>5. RoleAt(a, i - 1) = RoleAt(b, i - 1)
  <2>1. CASE i = 1
    <3>1. i - 1 \notin DOMAIN a /\ i - 1 \notin DOMAIN b
      BY <1>1, <2>1
    <3> QED BY <3>1 DEF RoleAt
  <2>2. CASE i # 1
    <3>1. i - 1 \in 1..n
      BY <2>2
    <3> QED BY <1>3, <3>1
  <2> QED BY <2>1, <2>2
<1>6. /\ Turn(t, a, i) = TurnText(t, a[i], RoleAt(a, i - 1), RoleAt(a, i + 1), LastAnswer(a, i))
      /\ Turn(t, b, i) = TurnText(t, b[i], RoleAt(b, i - 1), RoleAt(b, i + 1), LastAnswer(b, i))
  BY <1>2, TurnIs
<1>7. a[i] = b[i] /\ a[i].role \in {"system", "user", "assistant", "tool"}
  BY <1>2, PlainIs DEF Agree
<1> QED BY <1>4, <1>5, <1>6, <1>7, TurnTextSame

(* The tool messages of results, and what ends one and begins the next.    *)
ToolMessages(results) == [i \in DOMAIN results |-> Message("tool", results[i])]

(* What closes a result.                                                   *)
Ended == Tag("/tool_response") \o <<"nl">>

(* What is between two results.                                            *)
BetweenResults == Ended \o Tag("tool_response")

(* What is before the first result.                                        *)
BeforeResults == Opened("user") \o Tag("tool_response")

(* The turn of some results.                                               *)
ResultsTurn(results) ==
    BeforeResults \o Join(results, BetweenResults) \o Ended \o Closed

(* They are markup.                                                        *)
LEMMA ResultMarks ==
    ASSUME NEW words, Marks \subseteq words
    PROVE  /\ Ended \in Seq(words) /\ BetweenResults \in Seq(words)
           /\ BeforeResults \in Seq(words)
<1>1. Ended \in Seq(words)
  BY MarkTypes, ConcatProperties DEF Ended
<1> QED BY <1>1, MarkTypes, ConcatProperties DEF BetweenResults, BeforeResults

(* The parts of a result after others.                                     *)
ResultParts(S, body, p, j, e, o, r, c) ==
    /\ body \in Seq(S) /\ p \in Seq(S) /\ j \in Seq(S) /\ e \in Seq(S)
    /\ o \in Seq(S) /\ r \in Seq(S) /\ c \in Seq(S)

(* One result more, by its own parts or as one more of the joined.         *)
ResultSame(body, p, j, e, o, r, c) ==
    Cat(Cat(body, Cat(Cat(p, j), e)), Cat(Cat(Cat(o, r), e), c)) =
    Cat(Cat(body, Cat(Cat(p, Cat(j, Cat(Cat(e, o), r))), e)), c)

(* They are the same text.                                                 *)
LEMMA ResultRegroup ==
    ASSUME NEW S, NEW body, NEW p, NEW j, NEW e, NEW o, NEW r, NEW c,
           ResultParts(S, body, p, j, e, o, r, c)
    PROVE  ResultSame(body, p, j, e, o, r, c)
<1>0. /\ body \in Seq(S) /\ p \in Seq(S) /\ j \in Seq(S) /\ e \in Seq(S)
      /\ o \in Seq(S) /\ r \in Seq(S) /\ c \in Seq(S)
  BY DEF ResultParts
<1> DEFINE pj == Cat(p, j)  u == Cat(pj, e)  or == Cat(o, r)  v == Cat(or, e)
           eo == Cat(e, o)  eor == Cat(eo, r)  jr == Cat(j, eor)  pr == Cat(p, jr)
           w == Cat(pr, e)
<1>1. /\ pj = Cat(p, j) /\ u = Cat(pj, e) /\ or = Cat(o, r) /\ v = Cat(or, e)
      /\ eo = Cat(e, o) /\ eor = Cat(eo, r) /\ jr = Cat(j, eor) /\ pr = Cat(p, jr)
      /\ w = Cat(pr, e)
  OBVIOUS
<1>2. ResultSame(body, p, j, e, o, r, c) <=>
      Cat(Cat(body, u), Cat(v, c)) = Cat(Cat(body, w), c)
  BY DEF ResultSame
<1> HIDE DEF pj, u, or, v, eo, eor, jr, pr, w
<1>3. pj \in Seq(S) /\ or \in Seq(S) /\ eo \in Seq(S)
  BY ONLY <1>0, <1>1, CatLaws
<1>4. u \in Seq(S) /\ v \in Seq(S) /\ eor \in Seq(S)
  BY ONLY <1>0, <1>1, <1>3, CatLaws
<1>5. jr \in Seq(S)
  BY ONLY <1>0, <1>1, <1>4, CatLaws
<1>6. pr \in Seq(S) /\ Cat(u, or) \in Seq(S)
  BY ONLY <1>0, <1>1, <1>3, <1>4, <1>5, CatLaws
<1>7. Cat(u, or) = pr
  <2>1. Cat(Cat(pj, e), or) = Cat(pj, Cat(e, or))
    BY ONLY <1>0, <1>3, Shift
  <2>2. Cat(Cat(e, o), r) = Cat(e, Cat(o, r))
    BY ONLY <1>0, Shift
  <2>3. Cat(Cat(p, j), eor) = Cat(p, Cat(j, eor))
    BY ONLY <1>0, <1>4, Shift
  <2> QED BY ONLY <1>1, <2>1, <2>2, <2>3
<1>8. Cat(u, v) = w
  <2>1. Cat(Cat(u, or), e) = Cat(u, Cat(or, e))
    BY ONLY <1>0, <1>3, <1>4, Shift
  <2> QED BY ONLY <1>1, <1>7, <2>1
<1>9. w \in Seq(S) /\ Cat(body, u) \in Seq(S)
  BY ONLY <1>0, <1>1, <1>4, <1>6, CatLaws
<1>10. Cat(Cat(body, u), Cat(v, c)) = Cat(Cat(body, w), c)
  <2>1. Cat(Cat(Cat(body, u), v), c) = Cat(Cat(body, u), Cat(v, c))
    BY ONLY <1>0, <1>4, <1>9, Shift
  <2>2. Cat(Cat(body, u), v) = Cat(body, Cat(u, v))
    BY ONLY <1>0, <1>4, Shift
  <2> QED BY ONLY <1>8, <2>1, <2>2
<1> QED BY ONLY <1>2, <1>10

(* A tool's turn, in parts.                                                *)
ToolText(r, before, after) ==
    (IF before = "tool" THEN (Tag("tool_response") \o r) \o Ended
     ELSE (BeforeResults \o r) \o Ended) \o
    (IF after = "tool" THEN <<>> ELSE Closed)

(* A tool message of a template with results by role, by its parts.        *)
LEMMA ToolTurnParts ==
    ASSUME NEW words, Marks \subseteq words, NEW t, t.quirk = "none", t.results = "role",
           NEW r \in Seq(words), NEW before, NEW after
    PROVE  ToolTurn(t, r, before, after) = ToolText(r, before, after)
<1> DEFINE o == Tag("tool_response")  e == Tag("/tool_response")  n == <<"nl">>
           u == Opened("user")
           open == IF before = "tool" THEN <<>> ELSE u
           close == IF after = "tool" THEN <<>> ELSE Closed
<1>1. /\ o \in Seq(words) /\ e \in Seq(words) /\ n \in Seq(words) /\ u \in Seq(words)
      /\ close \in Seq(words) /\ <<>> \in Seq(words)
  BY MarkTypes
<1>2. ToolTurn(t, r, before, after) = open \o o \o r \o e \o n \o close
  <2>1. Escaped(t, r) = r
    BY EscapedType
  <2> QED BY <2>1 DEF ToolTurn
<1>3. BeforeResults = u \o o /\ Ended = e \o n
  BY DEF BeforeResults, Ended
<1>4. ASSUME NEW f \in Seq(words)
      PROVE  (f \o e) \o n = f \o (e \o n)
  <2> HIDE DEF e, n
  <2> QED BY <1>1, <1>4, ConcatAssociative, SMTT(30)
<1>5. CASE before = "tool"
  <2>1. open \o o = o
    <3>1. open = <<>>
      BY <1>5
    <3>2. <<>> \o o = o
      <4> HIDE DEF o
      <4> QED BY <1>1, ConcatEmptySeq
    <3> QED BY <3>1, <3>2
  <2>2. o \o r \in Seq(words)
    <3> HIDE DEF o
    <3> QED BY <1>1, ConcatProperties
  <2> HIDE DEF o, e, n, u, open, close
  <2>3. ToolTurn(t, r, before, after) = (((o \o r) \o e) \o n) \o close
    BY <1>2, <2>1
  <2>4. ((o \o r) \o e) \o n = (o \o r) \o Ended
    BY <1>3, <1>4, <2>2
  <2> QED BY <1>5, <2>3, <2>4 DEF o, close, ToolText
<1>6. CASE before # "tool"
  <2>1. open \o o = BeforeResults
    BY <1>3, <1>6
  <2>2. BeforeResults \o r \in Seq(words)
    BY ResultMarks, ConcatProperties
  <2> HIDE DEF o, e, n, u, open, close
  <2>3. ToolTurn(t, r, before, after) = (((BeforeResults \o r) \o e) \o n) \o close
    BY <1>2, <2>1
  <2>4. ((BeforeResults \o r) \o e) \o n = (BeforeResults \o r) \o Ended
    BY <1>3, <1>4, <2>2
  <2> QED BY <1>6, <2>3, <2>4 DEF close, ToolText
<1> QED BY <1>5, <1>6

(* The messages of results, after a transcript.                            *)
LEMMA ToolMessagesAre ==
    ASSUME NEW words, NEW results \in Seq(Seq(words)), NEW m \in Seq(Plain(words))
    PROVE  /\ m \o ToolMessages(results) \in Seq(Plain(words))
           /\ Len(m \o ToolMessages(results)) = Len(m) + Len(results)
           /\ \A i \in 1..Len(m) : (m \o ToolMessages(results))[i] = m[i]
           /\ \A j \in 1..Len(results) :
                (m \o ToolMessages(results))[Len(m) + j] = Message("tool", results[j])
<1> DEFINE f == ToolMessages(results)
<1>1. Len(results) \in Nat /\ DOMAIN results = 1..Len(results)
  OBVIOUS
<1>2. ASSUME NEW j \in 1..Len(results) PROVE Message("tool", results[j]) \in Plain(words)
  <2>1. results[j] \in Seq(words)
    OBVIOUS
  <2> QED BY <2>1 DEF Message, Plain
<1>3. f \in [1..Len(results) -> Plain(words)]
  BY <1>1, <1>2 DEF ToolMessages
<1>4. \A j \in 1..Len(results) : f[j] = Message("tool", results[j])
  BY <1>1 DEF ToolMessages
<1>5. f \in Seq(Plain(words)) /\ Len(f) = Len(results)
  <2> DEFINE k == Len(results)
  <2>1. k \in Nat /\ f \in [1..k -> Plain(words)]
    BY <1>1, <1>3
  <2> HIDE DEF f, k
  <2>2. f \in Seq(Plain(words)) /\ Len(f) = k
    BY <2>1
  <2> QED BY <2>2 DEF k
<1> HIDE DEF f
<1>6. /\ m \o f \in Seq(Plain(words)) /\ Len(m \o f) = Len(m) + Len(f)
      /\ \A i \in 1..Len(m) : (m \o f)[i] = m[i]
      /\ \A j \in 1..Len(f) : (m \o f)[Len(m) + j] = f[j]
  <2> DEFINE P == Plain(words)
  <2>1. m \in Seq(P) /\ f \in Seq(P)
    BY <1>5
  <2> HIDE DEF P
  <2>2. /\ m \o f \in Seq(P) /\ Len(m \o f) = Len(m) + Len(f)
        /\ \A i \in 1..Len(m) : (m \o f)[i] = m[i]
        /\ \A j \in 1..Len(f) : (m \o f)[Len(m) + j] = f[j]
    BY <2>1, Halves
  <2> QED BY <2>2 DEF P
<1> QED BY <1>4, <1>5, <1>6 DEF f

(* What is written of result j.                                            *)
ResultText(results, j) ==
    (IF j = 1 THEN (BeforeResults \o results[j]) \o Ended
     ELSE (Tag("tool_response") \o results[j]) \o Ended) \o
    (IF j = Len(results) THEN Closed ELSE <<>>)

(* The turns of results after a transcript that does not end in one.       *)
LEMMA ResultTurns ==
    ASSUME NEW words, Marks \subseteq words, NEW t, t.lead \in Seq(words), t.quirk = "none",
           t.results = "role", NEW m \in Seq(Plain(words)), RoleAt(m, Len(m)) # "tool",
           NEW results \in Seq(Seq(words)), NEW j \in 1..Len(results)
    PROVE  Turn(t, m \o ToolMessages(results), Len(m) + j) = ResultText(results, j)
<1> DEFINE n == m \o ToolMessages(results)  i == Len(m) + j
<1>1. /\ n \in Seq(Plain(words)) /\ Len(n) = Len(m) + Len(results)
      /\ \A k \in 1..Len(m) : n[k] = m[k]
      /\ \A k \in 1..Len(results) : n[Len(m) + k] = Message("tool", results[k])
  BY ToolMessagesAre, SMTT(30)
<1> HIDE DEF n
<1>2. Len(m) \in Nat /\ Len(results) \in Nat /\ DOMAIN n = 1..(Len(m) + Len(results))
  BY <1>1
<1>3. i \in DOMAIN n /\ n[i] = Message("tool", results[j])
  BY <1>1, <1>2
<1>4. RoleAt(n, i - 1) = "tool" <=> j # 1
  <2>1. CASE j = 1
    <3>1. RoleAt(n, Len(m)) = RoleAt(m, Len(m))
      <4>1. CASE Len(m) = 0
        BY <1>2, <4>1 DEF RoleAt
      <4>2. CASE Len(m) # 0
        <5>1. Len(m) \in 1..Len(m) /\ Len(m) \in DOMAIN n /\ Len(m) \in DOMAIN m
          BY <1>2, <4>2
        <5> QED BY <1>1, <5>1 DEF RoleAt
      <4> QED BY <4>1, <4>2
    <3>2. i - 1 = Len(m)
      BY <1>2, <2>1
    <3> QED BY <2>1, <3>1, <3>2
  <2>2. CASE j # 1
    <3>1. j - 1 \in 1..Len(results) /\ i - 1 = Len(m) + (j - 1) /\ i - 1 \in DOMAIN n
      BY <1>2, <2>2
    <3>2. n[i - 1] = Message("tool", results[j - 1])
      BY <1>1, <3>1
    <3> QED BY <2>2, <3>1, <3>2 DEF RoleAt, Message
  <2> QED BY <2>1, <2>2
<1>5. RoleAt(n, i + 1) = "tool" <=> j # Len(results)
  <2>1. CASE j = Len(results)
    <3>1. i + 1 \notin DOMAIN n
      BY <1>2, <2>1
    <3> QED BY <2>1, <3>1 DEF RoleAt
  <2>2. CASE j # Len(results)
    <3>1. j + 1 \in 1..Len(results) /\ i + 1 = Len(m) + (j + 1) /\ i + 1 \in DOMAIN n
      BY <1>2, <2>2
    <3>2. n[i + 1] = Message("tool", results[j + 1])
      BY <1>1, <3>1
    <3> QED BY <2>2, <3>1, <3>2 DEF RoleAt, Message
  <2> QED BY <2>1, <2>2
<1>6. Turn(t, n, i) = ToolTurn(t, results[j], RoleAt(n, i - 1), RoleAt(n, i + 1))
  <2>1. n[i].role = "tool" /\ n[i].content = results[j]
    BY <1>3 DEF Message
  <2> HIDE DEF i
  <2> QED BY <2>1, ToolTurnIs
<1>7. results[j] \in Seq(words)
  OBVIOUS
<1> HIDE DEF i
<1>8. Turn(t, n, i) = ToolText(results[j], RoleAt(n, i - 1), RoleAt(n, i + 1))
  BY <1>6, <1>7, ToolTurnParts, SMTT(30)
<1> QED BY <1>4, <1>5, <1>8, Zenon DEF n, i, ToolText, ResultText

(* A join of the first texts, one text more.                               *)
LEMMA JoinUpTo ==
    ASSUME NEW S, NEW texts \in Seq(Seq(S)), NEW separator \in Seq(S), NEW j \in 1..Len(texts)
    PROVE  /\ Join(SubSeq(texts, 1, j), separator) \in Seq(S)
           /\ j = 1 => Join(SubSeq(texts, 1, j), separator) = texts[j]
           /\ j # 1 => Join(SubSeq(texts, 1, j), separator) =
                         Join(SubSeq(texts, 1, j - 1), separator) \o (separator \o texts[j])
<1> DEFINE f == Separated(texts, separator)
           x == IF j = 1 THEN texts[j] ELSE separator \o texts[j]
<1>1. f \in Seq(Seq(S)) /\ Len(f) = Len(texts) /\ Len(texts) \in Nat /\ j \in Nat
  BY SeparatedType
<1>2. ASSUME NEW i \in 0..Len(texts)
      PROVE  Separated(SubSeq(texts, 1, i), separator) = SubSeq(f, 1, i)
  <2> DEFINE u == SubSeq(texts, 1, i)  v == SubSeq(f, 1, i)
  <2>1. u \in Seq(Seq(S)) /\ Len(u) = i /\ \A k \in 1..i : u[k] = texts[k]
    BY <1>1
  <2>2. v \in Seq(Seq(S)) /\ Len(v) = i /\ \A k \in 1..i : v[k] = f[k]
    <3> HIDE DEF f
    <3> QED BY <1>1
  <2> HIDE DEF u, v
  <2>3. Separated(u, separator) \in Seq(Seq(S)) /\ Len(Separated(u, separator)) = i
    BY <2>1, SeparatedType
  <2>4. ASSUME NEW k \in 1..i PROVE Separated(u, separator)[k] = v[k]
    <3>1. k \in DOMAIN u /\ k \in DOMAIN texts
      BY <1>1, <2>1
    <3>2. /\ Separated(u, separator)[k] = IF k = 1 THEN u[k] ELSE separator \o u[k]
          /\ f[k] = IF k = 1 THEN texts[k] ELSE separator \o texts[k]
      BY <3>1 DEF Separated
    <3> QED BY <2>1, <2>2, <3>2
  <2>5. Separated(u, separator) = v
    BY <2>2, <2>3, <2>4, SeqEqual
  <2> QED BY <2>5 DEF u, v
<1>3. ASSUME NEW i \in 0..Len(texts)
      PROVE  /\ SubSeq(texts, 1, i) \in Seq(Seq(S))
             /\ Join(SubSeq(texts, 1, i), separator) = FlattenSeq(SubSeq(f, 1, i))
             /\ Join(SubSeq(texts, 1, i), separator) \in Seq(S)
  <2>1. SubSeq(texts, 1, i) \in Seq(Seq(S))
    BY <1>1
  <2> HIDE DEF f
  <2> QED BY <1>2, <2>1, SeparatedType
<1>4. f[j] = x
  <2>1. j \in DOMAIN texts
    BY <1>1
  <2> QED BY <2>1 DEF Separated
<1> HIDE DEF f
<1>5. FlattenSeq(SubSeq(f, 1, j)) = FlattenSeq(SubSeq(f, 1, j - 1)) \o f[j]
  BY <1>1, FlattenUpTo
<1>6. j \in 0..Len(texts) /\ j - 1 \in 0..Len(texts)
  BY <1>1
<1>7. Join(SubSeq(texts, 1, j), separator) = Join(SubSeq(texts, 1, j - 1), separator) \o x
  BY <1>3, <1>4, <1>5, <1>6, Zenon
<1>8. CASE j = 1
  <2>1. Join(SubSeq(texts, 1, j - 1), separator) = <<>>
    <3>1. SubSeq(texts, 1, j - 1) = <<>>
      <4>1. j - 1 < 1 /\ j - 1 \in Int /\ 1 \in Int
        BY <1>8
      <4> QED BY <4>1, SubSeqEmpty
    <3> QED BY <3>1, JoinEmpty
  <2>2. texts[j] \in Seq(S) /\ x = texts[j]
    BY <1>8
  <2>3. <<>> \o texts[j] = texts[j]
    BY <2>2, ConcatEmptySeq
  <2> HIDE DEF x
  <2> QED BY <1>3, <1>6, <1>7, <1>8, <2>1, <2>2, <2>3
<1>9. CASE j # 1
  <2>1. x = separator \o texts[j]
    BY <1>9
  <2> HIDE DEF x
  <2> QED BY <1>3, <1>6, <1>7, <1>9, <2>1
<1> QED BY <1>8, <1>9

(* A prefix, by its elements.                                              *)
LEMMA PrefixIs ==
    ASSUME NEW S, NEW s \in Seq(S), NEW v \in Seq(S), NEW n \in Nat, Len(v) = n, n <= Len(s),
           \A i \in 1..n : s[i] = v[i]
    PROVE  SubSeq(s, 1, n) = v
<1> DEFINE u == SubSeq(s, 1, n)
<1>1. u \in Seq(S) /\ Len(u) = n /\ \A i \in 1..n : u[i] = s[i]
  OBVIOUS
<1> HIDE DEF u
<1>2. u = v
  BY <1>1, SeqEqual
<1> QED BY <1>2 DEF u

(* Three texts, grouped either way, are a text.                            *)
LEMMA JoinThree ==
    ASSUME NEW S, NEW a \in Seq(S), NEW b \in Seq(S), NEW c \in Seq(S)
    PROVE  (a \o b) \o c = a \o (b \o c) /\ a \o (b \o c) \in Seq(S) /\ b \o c \in Seq(S)
BY ConcatAssociative, ConcatProperties, SMTT(30)

(* Lists of texts.                                                         *)
Lists(S) == Seq(Seq(S))

(* Text j of several: the first comes after p, the others after o, each is *)
(* followed by e and the last by c.                                        *)
Member(texts, p, o, e, c, j) ==
    (IF j = 1 THEN (p \o texts[j]) \o e ELSE (o \o texts[j]) \o e) \o
    (IF j = Len(texts) THEN c ELSE <<>>)

(* After n texts that read body, all goes on with the members of texts.    *)
GoesOnWith(S, body, p, o, e, c, n, texts, all) ==
    /\ body \in Seq(S) /\ p \in Seq(S) /\ o \in Seq(S) /\ e \in Seq(S) /\ c \in Seq(S)
    /\ n \in Nat /\ Len(texts) \in Nat \ {0} /\ Len(all) = n + Len(texts)
    /\ texts \in Lists(S) /\ all \in Lists(S)
    /\ FlattenSeq(SubSeq(all, 1, n)) = body
    /\ \A j \in 1..Len(texts) : all[n + j] = Member(texts, p, o, e, c, j)

(* The members read as their join, framed.                                 *)
ReadsJoined(body, p, o, e, c, texts, all) ==
    FlattenSeq(all) = (body \o ((p \o Join(texts, e \o o)) \o e)) \o c

(* Texts written one after the other are their join, framed.               *)
LEMMA MembersJoined ==
    ASSUME NEW S, NEW body, NEW p, NEW o, NEW e, NEW c, NEW n, NEW texts, NEW all,
           GoesOnWith(S, body, p, o, e, c, n, texts, all)
    PROVE  ReadsJoined(body, p, o, e, c, texts, all)
<1> DEFINE k == Len(texts)
<1>a. /\ body \in Seq(S) /\ p \in Seq(S) /\ o \in Seq(S) /\ e \in Seq(S) /\ c \in Seq(S)
      /\ n \in Nat /\ k \in Nat \ {0} /\ Len(all) = n + k
      /\ texts \in Lists(S) /\ all \in Lists(S) /\ Len(texts) = k
      /\ FlattenSeq(SubSeq(all, 1, n)) = body
      /\ \A j \in 1..k : all[n + j] = Member(texts, p, o, e, c, j)
  BY DEF GoesOnWith
<1> HIDE DEF k
<1> DEFINE J(j) == Join(SubSeq(texts, 1, j), e \o o)
           close(j) == IF j = k THEN c ELSE <<>>
           Claim(j) == FlattenSeq(SubSeq(all, 1, n + j)) =
                       (body \o ((p \o J(j)) \o e)) \o close(j)
           Bad == {j \in 1..k : ~Claim(j)}
<1>1. e \o o \in Seq(S) /\ \A j \in 1..k : close(j) \in Seq(S)
  BY <1>a, ConcatProperties
<1>2. ASSUME NEW j \in 1..k
      PROVE  /\ texts[j] \in Seq(S) /\ J(j) \in Seq(S)
             /\ j = 1 => J(j) = texts[j]
             /\ j # 1 => J(j) = J(j - 1) \o ((e \o o) \o texts[j])
  <2> DEFINE separator == e \o o
  <2>1. texts[j] \in Seq(S) /\ separator \in Seq(S) /\ j \in 1..Len(texts)
    BY <1>a, <1>1 DEF Lists
  <2>2. texts \in Seq(Seq(S))
    BY <1>a DEF Lists
  <2> HIDE DEF separator
  <2>3. /\ Join(SubSeq(texts, 1, j), separator) \in Seq(S)
        /\ j = 1 => Join(SubSeq(texts, 1, j), separator) = texts[j]
        /\ j # 1 => Join(SubSeq(texts, 1, j), separator) =
                      Join(SubSeq(texts, 1, j - 1), separator) \o (separator \o texts[j])
    BY <2>1, <2>2, JoinUpTo
  <2> QED BY <2>1, <2>3 DEF separator
<1>3. ASSUME NEW j \in 1..k
      PROVE  FlattenSeq(SubSeq(all, 1, n + j)) =
             FlattenSeq(SubSeq(all, 1, (n + j) - 1)) \o Member(texts, p, o, e, c, j)
  <2>1. n + j \in 1..Len(all)
    BY <1>a
  <2>2. FlattenSeq(SubSeq(all, 1, n + j)) =
        FlattenSeq(SubSeq(all, 1, (n + j) - 1)) \o all[n + j]
    BY <1>a, <2>1, FlattenUpTo DEF Lists
  <2> QED BY <1>a, <2>2
<1>4. Claim(1)
  <2> DEFINE r == texts[1]  d == close(1)  q == (p \o r) \o e
  <2>1. 1 \in 1..k /\ (n + 1) - 1 = n
    BY <1>a
  <2>2. Member(texts, p, o, e, c, 1) = q \o d
    BY <1>a DEF Member
  <2>3. J(1) = r /\ r \in Seq(S) /\ d \in Seq(S)
    BY <1>1, <1>2, <2>1
  <2>4. q \in Seq(S)
    <3> HIDE DEF r
    <3> QED BY <1>a, <2>3, ConcatProperties
  <2>5. FlattenSeq(SubSeq(all, 1, n + 1)) = body \o (q \o d)
    <3>1. FlattenSeq(SubSeq(all, 1, n + 1)) =
          FlattenSeq(SubSeq(all, 1, (n + 1) - 1)) \o Member(texts, p, o, e, c, 1)
      BY <1>3, <2>1
    <3> HIDE DEF q, d
    <3> QED BY <1>a, <2>1, <2>2, <3>1
  <2>6. body \o (q \o d) = (body \o q) \o d
    <3> HIDE DEF q, d
    <3>1. Cat(Cat(body, q), d) = Cat(body, Cat(q, d))
      BY ONLY <1>a, <2>3, <2>4, Shift
    <3> QED BY ONLY <3>1 DEF Cat
  <2>7. q = (p \o J(1)) \o e
    BY <2>3
  <2> HIDE DEF J, q, close
  <2> QED BY <2>5, <2>6, <2>7
<1>5. ASSUME NEW j \in 1..k, j # 1, Claim(j - 1) PROVE Claim(j)
  <2> DEFINE r == texts[j]  d == close(j)  q == J(j - 1)
  <2>1. j - 1 \in 1..k /\ (n + j) - 1 = n + (j - 1) /\ j - 1 # k
    BY <1>a, <1>5
  <2>2. Member(texts, p, o, e, c, j) = ((o \o r) \o e) \o d
    BY <1>a, <1>5 DEF Member
  <2>3. J(j) = q \o ((e \o o) \o r) /\ r \in Seq(S) /\ q \in Seq(S)
    <3> HIDE DEF J
    <3> QED BY <1>2, <1>5, <2>1
  <2>4. FlattenSeq(SubSeq(all, 1, n + (j - 1))) = body \o ((p \o q) \o e)
    <3> DEFINE u == body \o ((p \o q) \o e)
    <3>1. u \in Seq(S)
      <4> HIDE DEF q
      <4> QED BY <1>a, <2>3, ConcatProperties
    <3>2. close(j - 1) = <<>>
      BY <2>1
    <3>3. FlattenSeq(SubSeq(all, 1, n + (j - 1))) = u \o close(j - 1)
      BY <1>5
    <3> HIDE DEF u
    <3>4. u \o <<>> = u
      BY <3>1, ConcatEmptySeq
    <3> QED BY <3>2, <3>3, <3>4 DEF u
  <2>5. d \in Seq(S)
    BY <1>1
  <2>6. FlattenSeq(SubSeq(all, 1, n + j)) =
        (body \o ((p \o q) \o e)) \o (((o \o r) \o e) \o d)
    <3>1. FlattenSeq(SubSeq(all, 1, n + j)) =
          FlattenSeq(SubSeq(all, 1, (n + j) - 1)) \o Member(texts, p, o, e, c, j)
      BY <1>3
    <3> HIDE DEF r, d, q
    <3> QED BY <2>1, <2>2, <2>4, <3>1
  <2> HIDE DEF r, d, q
  <2>7. (body \o ((p \o q) \o e)) \o (((o \o r) \o e) \o d) =
        (body \o ((p \o (q \o ((e \o o) \o r))) \o e)) \o d
    <3>1. ResultParts(S, body, p, q, e, o, r, d)
      BY ONLY <1>a, <2>3, <2>5 DEF ResultParts
    <3>2. ResultSame(body, p, q, e, o, r, d)
      BY ONLY <3>1, ResultRegroup
    <3> QED BY ONLY <3>2 DEF ResultSame, Cat
  <2> HIDE DEF J, close
  <2> QED BY <2>3, <2>6, <2>7 DEF d
<1>6. Bad = {}
  <2> SUFFICES ASSUME Bad # {} PROVE FALSE
    OBVIOUS
  <2> HIDE DEF Claim
  <2>1. PICK j \in Bad : \A i \in Bad : j <= i
    <3>1. Bad \subseteq Nat
      OBVIOUS
    <3> HIDE DEF Bad
    <3> QED BY <3>1, LeastOf
  <2>2. j \in 1..k /\ ~Claim(j) /\ j # 1
    BY <1>4, <2>1
  <2>3. j - 1 \in 1..k /\ ~(j <= j - 1)
    BY <1>a, <2>2
  <2>4. Claim(j - 1)
    BY <2>1, <2>3
  <2> QED BY <1>5, <2>2, <2>4
<1>7. Claim(k)
  <2> HIDE DEF Claim
  <2>1. k \in 1..k
    BY <1>a
  <2> QED BY <1>6, <2>1
<1>8. SubSeq(all, 1, n + k) = all /\ SubSeq(texts, 1, k) = texts
  BY <1>a, SubSeqFull DEF Lists
<1> QED BY <1>7, <1>8 DEF ReadsJoined

(* Transcript full has, after the n messages of m, a tool's message, and m *)
(* does not end in one.                                                    *)
EndsBeforeTool(words, t, m, n, full) ==
    /\ Marks \subseteq words /\ t.lead \in Seq(words) /\ t.quirk = "none"
    /\ m \in Seq(Plain(words)) /\ n \in Nat /\ n = Len(m) /\ RoleAt(m, n) # "tool"
    /\ full \in Seq(Plain(words)) /\ n + 1 <= Len(full) /\ full[n + 1].role = "tool"
    /\ Agree(full, m, n)

(* A tool message after a transcript that does not end in one changes none *)
(* of its turns.                                                           *)
LEMMA TurnsBefore ==
    ASSUME NEW words, NEW t, NEW m, NEW n, NEW full,
           EndsBeforeTool(words, t, m, n, full), NEW i \in 1..n
    PROVE  Turn(t, full, i) = Turn(t, m, i)
<1>0. /\ Marks \subseteq words /\ t.lead \in Seq(words) /\ t.quirk = "none"
      /\ m \in Seq(Plain(words)) /\ n \in Nat /\ n = Len(m) /\ RoleAt(m, n) # "tool"
      /\ full \in Seq(Plain(words)) /\ n + 1 <= Len(full) /\ full[n + 1].role = "tool"
      /\ Agree(full, m, n)
  BY DEF EndsBeforeTool
<1> DEFINE x == full[n + 1]  one == Append(m, x)  l == n + 1
<1>1. x \in Plain(words) /\ x.role = "tool"
  BY <1>0
<1> HIDE DEF x
<1>2. Turn(t, one, i) = Turn(t, m, i)
  BY <1>0, <1>1, TurnsKept
<1>3. /\ one \in Seq(Plain(words)) /\ Len(one) = l /\ one[l] = x
      /\ \A j \in 1..n : one[j] = m[j]
  <2> DEFINE P == Plain(words)
  <2>1. m \in Seq(P) /\ x \in P
    BY <1>0, <1>1
  <2> HIDE DEF P
  <2>2. /\ one \in Seq(P) /\ Len(one) = l /\ one[l] = x /\ \A j \in 1..n : one[j] = m[j]
    BY <1>0, <2>1
  <2> QED BY <2>2 DEF P
<1>4. Agree(full, one, l)
  <2> SUFFICES ASSUME NEW j \in 1..l PROVE full[j] = one[j]
    BY DEF Agree
  <2>1. CASE j = l
    BY <1>3, <2>1 DEF x
  <2>2. CASE j # l
    <3>1. j \in 1..n
      BY <1>0, <2>2
    <3> HIDE DEF one, l
    <3> QED BY <1>0, <1>3, <3>1 DEF Agree
  <2> QED BY <2>1, <2>2
<1>5. l \in Nat /\ l <= Len(full) /\ l <= Len(one) /\ i \in 1..(l - 1)
  BY <1>0, <1>3
<1>6. Turn(t, full, i) = Turn(t, one, i)
  <2>1. /\ full \in Seq(Plain(words)) /\ one \in Seq(Plain(words))
        /\ Marks \subseteq words /\ t.lead \in Seq(words) /\ t.quirk = "none"
    BY <1>0, <1>3
  <2> HIDE DEF one, l
  <2> QED BY ONLY <1>4, <1>5, <2>1, TurnsLocal
<1> QED BY <1>2, <1>6

(* Results add one turn, in which each has its own part.                   *)
LEMMA ResultsAppended ==
    ASSUME NEW words, Marks \subseteq words, NEW t, t.lead \in Seq(words), t.quirk = "none",
           t.results = "role", NEW m \in Seq(Plain(words)), RoleAt(m, Len(m)) # "tool",
           NEW results \in Lists(words), Len(results) # 0
    PROVE  /\ ResultsTurn(results) \in Seq(words)
           /\ Body(t, m \o ToolMessages(results)) = Body(t, m) \o ResultsTurn(results)
<1> DEFINE full == m \o ToolMessages(results)  n == Len(m)  k == Len(results)
           all == Turns(t, full)  body == Body(t, m)  o == Tag("tool_response")
           whole == (BeforeResults \o Join(results, BetweenResults)) \o Ended
<1>0. results \in Seq(Seq(words))
  BY DEF Lists
<1>1. n \in Nat /\ k \in Nat \ {0}
  BY <1>0
<1>2. /\ full \in Seq(Plain(words)) /\ Len(full) = n + k
      /\ \A i \in 1..n : full[i] = m[i]
      /\ \A j \in 1..k : full[n + j] = Message("tool", results[j])
  BY <1>0, ToolMessagesAre
<1>3. \A j \in 1..k : Turn(t, full, n + j) = ResultText(results, j)
  BY <1>0, ResultTurns
<1> HIDE DEF full
<1>4. \A i \in 1..n : Turn(t, full, i) = Turn(t, m, i)
  <2>1. n + 1 <= Len(full) /\ full[n + 1].role = "tool"
    <3>1. 1 \in 1..k /\ n + 1 <= n + k
      BY <1>1
    <3>2. full[n + 1] = Message("tool", results[1])
      BY <1>2, <3>1
    <3>3. Message("tool", results[1]).role = "tool"
      BY DEF Message
    <3> HIDE DEF n, k
    <3> QED BY ONLY <1>2, <3>1, <3>2, <3>3
  <2>2. n = Len(m) /\ RoleAt(m, n) # "tool" /\ Agree(full, m, n)
    BY <1>2 DEF Agree
  <2>3. /\ full \in Seq(Plain(words)) /\ m \in Seq(Plain(words)) /\ n \in Nat
        /\ Marks \subseteq words /\ t.lead \in Seq(words) /\ t.quirk = "none"
    BY <1>1, <1>2
  <2> HIDE DEF n, k
  <2>4. EndsBeforeTool(words, t, m, n, full)
    BY ONLY <2>1, <2>2, <2>3 DEF EndsBeforeTool
  <2> QED BY ONLY <2>4, TurnsBefore
<1>5. /\ all \in Seq(Seq(words)) /\ Len(all) = n + k
      /\ Turns(t, m) \in Seq(Seq(words)) /\ Len(Turns(t, m)) = n
      /\ body \in Seq(words) /\ body = FlattenSeq(Turns(t, m))
  BY <1>2, BodyType DEF Body
<1>6. \A j \in 1..k : all[n + j] = ResultText(results, j)
  <2>1. DOMAIN full = 1..(n + k)
    BY <1>2
  <2> QED BY <1>1, <1>3, <2>1 DEF Turns
<1>7. \A i \in 1..n : all[i] = Turns(t, m)[i]
  <2>1. DOMAIN full = 1..(n + k) /\ DOMAIN m = 1..n
    BY <1>2
  <2> QED BY <1>1, <1>4, <2>1 DEF Turns
<1>8. FlattenSeq(SubSeq(all, 1, n)) = body
  <2> DEFINE v == Turns(t, m)
  <2>1. n + k >= n /\ v \in Seq(Seq(words)) /\ Len(v) = n /\ \A i \in 1..n : all[i] = v[i]
    BY <1>1, <1>5, <1>7
  <2> HIDE DEF v, all, n, k
  <2>2. SubSeq(all, 1, n) = v
    BY <1>1, <1>5, <2>1, PrefixIs
  <2> QED BY <1>5, <2>2 DEF v
<1>9. /\ BeforeResults \in Seq(words) /\ Ended \in Seq(words) /\ Closed \in Seq(words)
      /\ BetweenResults = Ended \o o /\ o \in Seq(words) /\ BetweenResults \in Seq(words)
  BY MarkTypes, ResultMarks DEF BetweenResults
<1>10. \A j \in 1..k : ResultText(results, j) = Member(results, BeforeResults, o, Ended, Closed, j)
  BY DEF ResultText, Member
<1>11. whole \in Seq(words) /\ ResultsTurn(results) = whole \o Closed
  <2>1. Join(results, BetweenResults) \in Seq(words)
    BY <1>0, <1>9, SeparatedType
  <2>2. whole \in Seq(words)
    BY <1>9, <2>1, ConcatProperties
  <2> QED BY <2>2 DEF ResultsTurn
<1>12. FlattenSeq(all) = (body \o whole) \o Closed
  <2>1. all \in Lists(words) /\ k = Len(results) /\ \A j \in 1..k : all[n + j] =
                              Member(results, BeforeResults, o, Ended, Closed, j)
    BY <1>5, <1>6, <1>10 DEF Lists
  <2>0. body \in Seq(words) /\ Len(all) = n + k
    BY <1>5
  <2>3. results \in Lists(words)
    OBVIOUS
  <2> HIDE DEF all, body, n, k, o
  <2>2. GoesOnWith(words, body, BeforeResults, o, Ended, Closed, n, results, all)
    BY ONLY <1>1, <1>8, <1>9, <2>0, <2>1, <2>3 DEF GoesOnWith
  <2>4. ReadsJoined(body, BeforeResults, o, Ended, Closed, results, all)
    BY ONLY <2>2, MembersJoined
  <2>5. FlattenSeq(all) =
        (body \o ((BeforeResults \o Join(results, Ended \o o)) \o Ended)) \o Closed
    BY ONLY <2>4 DEF ReadsJoined
  <2> QED BY <1>9, <2>5
<1>13. Body(t, full) = FlattenSeq(all)
  BY DEF Body
<1>14. /\ (body \o whole) \o Closed = body \o (whole \o Closed)
       /\ whole \o Closed \in Seq(words)
  <2>1. body \in Seq(words)
    BY <1>5
  <2> HIDE DEF whole, body
  <2>2. whole \in Seq(words) /\ Closed \in Seq(words)
    BY <1>9, <1>11
  <2> HIDE DEF whole, body
  <2> QED BY ONLY <2>1, <2>2, JoinThree, SMTT(30)
<1> HIDE DEF whole, all
<1> QED BY <1>11, <1>12, <1>13, <1>14 DEF full, body

(* The texts around two sentinels, up to each.                             *)
LEMMA JoinTypes ==
    ASSUME NEW S, NEW x \in Seq(S), NEW a \in Seq(S), NEW g \in Seq(S), NEW y \in Seq(S)
    PROVE  /\ x \o a \in Seq(S) /\ x \o (a \o g) \in Seq(S) /\ x \o (a \o (g \o y)) \in Seq(S)
<1>1. Cat(x, Cat(a, g)) \in Seq(S) /\ Cat(x, a) \in Seq(S) /\ Cat(x, Cat(a, Cat(g, y))) \in Seq(S)
  BY CatLaws
<1> QED BY <1>1 DEF Cat

(* a, g and b are in a text, between x and y; a is told by v and b by w.   *)
Around(S, v, w, x, a, g, b, y) ==
    /\ v # w /\ Sole(a, v) /\ Sole(b, w)
    /\ x \in Seq(S \ {v, w}) /\ g \in Seq(S \ {v, w}) /\ y \in Seq(S \ {v, w})
    /\ a \in Seq(S \ {w}) /\ b \in Seq(S \ {v})

(* Two sentinels are found, and what is before and between them.           *)
Found(text, x, a, g, b) ==
    /\ Find(text, a) # 0 /\ Find(text, b) # 0 /\ Find(text, a) < Find(text, b)
    /\ Gap(text, a, b) = g /\ Before(text, Find(text, a)) = x

(* It has them where they are, and g between them.                         *)
LEMMA GapFound ==
    ASSUME NEW S, NEW v, NEW w, NEW x, NEW a, NEW g, NEW b, NEW y,
           Around(S, v, w, x, a, g, b, y)
    PROVE  Found(Cat(x, Cat(a, Cat(g, Cat(b, y)))), x, a, g, b)
<1> DEFINE text == x \o (a \o (g \o (b \o y)))  tail == g \o (b \o y)  head == x \o (a \o g)
<1>s. v # w /\ Sole(a, v) /\ Sole(b, w)
  BY DEF Around
<1>t. /\ x \in Seq(S \ {v, w}) /\ g \in Seq(S \ {v, w}) /\ y \in Seq(S \ {v, w})
      /\ a \in Seq(S \ {w}) /\ b \in Seq(S \ {v})
  BY DEF Around
<1>1. /\ x \in Seq(S) /\ a \in Seq(S) /\ g \in Seq(S) /\ b \in Seq(S) /\ y \in Seq(S)
  BY <1>t, SeqMonotonic
<1>0. Len(x) \in Nat /\ Len(a) \in Nat /\ Len(g) \in Nat
  BY <1>1
<1>2. x \in Seq(S \ {v}) /\ g \in Seq(S \ {v}) /\ y \in Seq(S \ {v})
  BY <1>t, SeqMonotonic
<1>3. x \in Seq(S \ {w}) /\ g \in Seq(S \ {w}) /\ y \in Seq(S \ {w})
  BY <1>t, SeqMonotonic
<1>4. tail \in Seq(S \ {v})
  BY ONLY <1>t, <1>2, JoinTypes
<1>5. head \in Seq(S \ {w}) /\ Len(head) = Len(x) + Len(a) + Len(g)
  <2>1. head \in Seq(S \ {w}) /\ a \o g \in Seq(S \ {w})
    BY ONLY <1>t, <1>3, JoinTypes
  <2>2. Len(a \o g) = Len(a) + Len(g)
    BY <1>1
  <2>3. Len(head) = Len(x) + Len(a \o g)
    <3> DEFINE q == a \o g
    <3>1. q \in Seq(S \ {w})
      BY <2>1
    <3> HIDE DEF q
    <3>2. Len(x \o q) = Len(x) + Len(q)
      BY <1>3, <3>1
    <3> QED BY <3>2 DEF q
  <2> HIDE DEF head
  <2> QED BY <1>0, <2>1, <2>2, <2>3
<1>6. Find(text, a) = Len(x) + 1 /\ Has(text, a)
  <2> HIDE DEF tail
  <2>1. Find(x \o (a \o tail), a) = Len(x) + 1 /\ Has(x \o (a \o tail), a)
    BY ONLY <1>1, <1>2, <1>4, <1>s, FindSole
  <2> QED BY <2>1 DEF tail
<1>7. text = head \o (b \o y)
  <2>1. b \o y \in Seq(S)
    BY ONLY <1>1, ConcatProperties
  <2> DEFINE z == b \o y
  <2> HIDE DEF z
  <2>2. Cat(x, Cat(a, Cat(g, z))) = Cat(Cat(x, Cat(a, g)), z)
    <3>1. z \in Seq(S)
      BY <2>1 DEF z
    <3> QED BY ONLY <1>1, <3>1, CatLaws
  <2> QED BY <2>2 DEF z, Cat
<1>8. Find(text, b) = Len(head) + 1 /\ Has(text, b)
  <2> HIDE DEF head, text
  <2>1. Find(head \o (b \o y), b) = Len(head) + 1 /\ Has(head \o (b \o y), b)
    BY ONLY <1>1, <1>3, <1>5, <1>s, FindSole
  <2> QED BY <1>7, <2>1
<1>9. /\ text \in Seq(S) /\ SubSeq(text, 1, Len(x)) = x
  <2>1. tail \in Seq(S)
    BY <1>4, SeqMonotonic
  <2> HIDE DEF tail
  <2>2. x \o (a \o tail) \in Seq(S) /\ SubSeq(x \o (a \o tail), 1, Len(x)) = x
    BY ONLY <1>1, <2>1, Parts
  <2> QED BY <2>2 DEF tail
<1>10. SubSeq(text, Len(x) + Len(a) + 1, Len(x) + Len(a) + Len(g)) = g
  <2> DEFINE p == x \o a  z == b \o y
  <2>1. z \in Seq(S) /\ p \in Seq(S) /\ Len(p) = Len(x) + Len(a)
    BY ONLY <1>1, ConcatProperties
  <2>2. text = p \o (g \o z)
    <3>0. z \in Seq(S)
      BY <2>1
    <3> HIDE DEF z
    <3>1. Cat(x, Cat(a, Cat(g, z))) = Cat(Cat(x, a), Cat(g, z))
      BY ONLY <1>1, <3>0, CatLaws
    <3> QED BY <3>1 DEF z, Cat
  <2>4. p \in Seq(S) /\ g \in Seq(S) /\ z \in Seq(S)
    BY <1>1, <2>1
  <2> HIDE DEF p, z, text
  <2>3. SubSeq(p \o (g \o z), Len(p) + 1, Len(p) + Len(g)) = g
    BY ONLY <2>4, Parts
  <2> QED BY <2>1, <2>2, <2>3
<1> HIDE DEF text, head
<1>11. Gap(text, a, b) = g
  <2>1. Gap(text, a, b) = SubSeq(text, (Len(x) + 1) + Len(a), (Len(head) + 1) - 1)
    BY <1>6, <1>8 DEF Gap, Between
  <2>2. (Len(x) + 1) + Len(a) = Len(x) + Len(a) + 1 /\
        (Len(head) + 1) - 1 = Len(x) + Len(a) + Len(g)
    BY ONLY <1>0, <1>5
  <2> QED BY ONLY <1>10, <2>1, <2>2
<1>12. Before(text, Find(text, a)) = x
  <2>1. Before(text, Find(text, a)) = SubSeq(text, 1, (Len(x) + 1) - 1) /\
        (Len(x) + 1) - 1 = Len(x)
    BY <1>1, <1>6 DEF Before
  <2> QED BY ONLY <1>9, <2>1
<1>13. Find(text, b) = Len(x) + Len(a) + Len(g) + 1
  BY ONLY <1>5, <1>8
<1>14. Len(x) \in Nat /\ Len(a) \in Nat \ {0} /\ Len(g) \in Nat
  <2>1. Len(x) \in Nat /\ Len(a) \in Nat /\ Len(g) \in Nat
    BY ONLY <1>0
  <2>2. Len(a) # 0
    BY <1>s, <2>1 DEF Sole
  <2> QED BY <2>1, <2>2
<1> DEFINE fa == Find(text, a)  fb == Find(text, b)
<1>15. fa # 0 /\ fb # 0 /\ fa < fb
  <2>1. fa = Len(x) + 1 /\ fb = Len(x) + Len(a) + Len(g) + 1
    BY <1>6, <1>13 DEF text
  <2> HIDE DEF fa, fb
  <2> QED BY ONLY <1>14, <2>1
<1>16. text = Cat(x, Cat(a, Cat(g, Cat(b, y))))
  BY DEF Cat, text
<1>17. Found(text, x, a, g, b)
  <2> HIDE DEF text
  <2> QED BY <1>11, <1>12, <1>15 DEF Found
<1> HIDE DEF text
<1> QED BY <1>16, <1>17

(* A text with four needles, and what is around and between them.          *)
FourParts(x, a, g, b, h, c, k, d, y) ==
    x \o (a \o (g \o (b \o (h \o (c \o (k \o (d \o y)))))))

(* Four texts, each with a word of its own that no other text has.         *)
AroundFour(S, p, q, r, s, x, a, g, b, h, c, k, d, y) ==
    /\ p # q /\ p # r /\ p # s /\ q # r /\ q # s /\ r # s
    /\ Sole(a, p) /\ Sole(b, q) /\ Sole(c, r) /\ Sole(d, s)
    /\ a \in Seq(S \ {q, r, s}) /\ b \in Seq(S \ {p, r, s}) /\ c \in Seq(S \ {p, q, s})
    /\ d \in Seq(S \ {p, q, r})
    /\ x \in Seq(S \ {p, q, r, s}) /\ g \in Seq(S \ {p, q, r, s})
    /\ h \in Seq(S \ {p, q, r, s}) /\ k \in Seq(S \ {p, q, r, s})
    /\ y \in Seq(S \ {p, q, r, s})

(* Four sentinels are found in order, and what is before and between them. *)
FoundFour(text, x, a, g, b, h, c, k, d) ==
    /\ InOrder(<<Find(text, a), Find(text, b), Find(text, c), Find(text, d)>>)
    /\ Gap(text, a, b) = g /\ Gap(text, b, c) = h /\ Gap(text, c, d) = k
    /\ Before(text, Find(text, a)) = x

(* A text in which four needles are told by a word each has them in that   *)
(* order, and between them what is between them.                           *)
LEMMA FourFound ==
    ASSUME NEW S, NEW p, NEW q, NEW r, NEW s, NEW x, NEW a, NEW g, NEW b, NEW h, NEW c, NEW k,
           NEW d, NEW y, AroundFour(S, p, q, r, s, x, a, g, b, h, c, k, d, y)
    PROVE  FoundFour(FourParts(x, a, g, b, h, c, k, d, y), x, a, g, b, h, c, k, d)
<1> DEFINE text == FourParts(x, a, g, b, h, c, k, d, y)
           z1 == Cat(h, Cat(c, Cat(k, Cat(d, y))))
           x2 == Cat(x, Cat(a, g))  z2 == Cat(k, Cat(d, y))
           x3 == Cat(x2, Cat(b, h))
<1>s. /\ p # q /\ p # r /\ p # s /\ q # r /\ q # s /\ r # s
      /\ Sole(a, p) /\ Sole(b, q) /\ Sole(c, r) /\ Sole(d, s)
  BY DEF AroundFour
<1>t. /\ a \in Seq(S \ {q, r, s}) /\ b \in Seq(S \ {p, r, s}) /\ c \in Seq(S \ {p, q, s})
      /\ d \in Seq(S \ {p, q, r})
      /\ x \in Seq(S \ {p, q, r, s}) /\ g \in Seq(S \ {p, q, r, s})
      /\ h \in Seq(S \ {p, q, r, s}) /\ k \in Seq(S \ {p, q, r, s})
      /\ y \in Seq(S \ {p, q, r, s})
  BY DEF AroundFour
<1>1. /\ x \in Seq(S) /\ a \in Seq(S) /\ g \in Seq(S) /\ b \in Seq(S) /\ h \in Seq(S)
      /\ c \in Seq(S) /\ k \in Seq(S) /\ d \in Seq(S) /\ y \in Seq(S)
  BY <1>t, SeqMonotonic
<1>2. text = Cat(x, Cat(a, Cat(g, Cat(b, z1))))
  BY DEF FourParts, Cat
<1>3. z1 \in Seq(S \ {p, q})
  <2>1. /\ h \in Seq(S \ {p, q}) /\ c \in Seq(S \ {p, q}) /\ k \in Seq(S \ {p, q})
        /\ d \in Seq(S \ {p, q}) /\ y \in Seq(S \ {p, q})
    BY <1>t, SeqMonotonic
  <2> QED BY ONLY <2>1, CatLaws
<1>4. x2 \in Seq(S \ {q, r}) /\ z2 \in Seq(S \ {q, r})
  <2>1. /\ x \in Seq(S \ {q, r}) /\ a \in Seq(S \ {q, r}) /\ g \in Seq(S \ {q, r})
        /\ k \in Seq(S \ {q, r}) /\ d \in Seq(S \ {q, r}) /\ y \in Seq(S \ {q, r})
    BY <1>t, SeqMonotonic
  <2> QED BY ONLY <2>1, CatLaws
<1>5. x3 \in Seq(S \ {r, s})
  <2>1. /\ x \in Seq(S \ {r, s}) /\ a \in Seq(S \ {r, s}) /\ g \in Seq(S \ {r, s})
        /\ b \in Seq(S \ {r, s}) /\ h \in Seq(S \ {r, s})
    BY <1>t, SeqMonotonic
  <2> QED BY ONLY <2>1, CatLaws
<1>6. text = Cat(x2, Cat(b, Cat(h, Cat(c, z2))))
  <2>1. z1 \in Seq(S)
    BY <1>3, SeqMonotonic
  <2> DEFINE u == Cat(b, z1)
  <2>2. u \in Seq(S)
    BY ONLY <1>1, <2>1, CatLaws
  <2> HIDE DEF u
  <2>3. Cat(x, Cat(a, Cat(g, u))) = Cat(Cat(x, Cat(a, g)), u)
    BY ONLY <1>1, <2>2, CatLaws
  <2> HIDE DEF text
  <2> QED BY <1>2, <2>3 DEF u
<1>7. text = Cat(x3, Cat(c, Cat(k, Cat(d, y))))
  <2> DEFINE u == Cat(c, z2)
  <2>1. x2 \in Seq(S) /\ z2 \in Seq(S)
    BY <1>4, SeqMonotonic
  <2> HIDE DEF x2, z2
  <2>2. u \in Seq(S)
    BY ONLY <1>1, <2>1, CatLaws
  <2> HIDE DEF u
  <2>3. Cat(x2, Cat(b, Cat(h, u))) = Cat(Cat(x2, Cat(b, h)), u)
    BY ONLY <1>1, <2>1, <2>2, CatLaws
  <2> HIDE DEF text
  <2> QED BY <1>6, <2>3 DEF u, z2
<1>8. Found(text, x, a, g, b)
  <2> HIDE DEF z1, text
  <2>1. Around(S, p, q, x, a, g, b, z1)
    BY <1>s, <1>t, <1>3, SeqMonotonic DEF Around
  <2> QED BY ONLY <1>2, <2>1, GapFound
<1>9. Found(text, x2, b, h, c)
  <2> HIDE DEF x2, z2, text
  <2>1. Around(S, q, r, x2, b, h, c, z2)
    BY <1>s, <1>t, <1>4, SeqMonotonic DEF Around
  <2> QED BY ONLY <1>6, <2>1, GapFound
<1>10. Found(text, x3, c, k, d)
  <2> HIDE DEF x3, text
  <2>1. Around(S, r, s, x3, c, k, d, y)
    BY <1>s, <1>t, <1>5, SeqMonotonic DEF Around
  <2> QED BY ONLY <1>7, <2>1, GapFound
<1> DEFINE fa == Find(text, a)  fb == Find(text, b)  fc == Find(text, c)  fd == Find(text, d)
<1>11. /\ fa # 0 /\ fb # 0 /\ fc # 0 /\ fd # 0 /\ fa < fb /\ fb < fc /\ fc < fd
  <2> HIDE DEF text
  <2> QED BY <1>8, <1>9, <1>10 DEF Found
<1> HIDE DEF text
<1>12. InOrder(<<fa, fb, fc, fd>>)
  <2> HIDE DEF fa, fb, fc, fd
  <2> QED BY ONLY <1>11 DEF InOrder
<1> QED BY <1>8, <1>9, <1>10, <1>12 DEF text, Found, FoundFour

---------------------------------------------------------------------------
(* Rendering                                                               *)

(* What precedes the first turn: system text, and the tools.               *)
SystemPart(t, system) ==
    IF t.system = "block" /\ system # {} THEN The(system) ELSE t.preamble

(* The list of the tools in a heading.                                     *)
ToolsPart(t, tools) ==
    IF t.lists /\ tools # <<>> THEN Tag("tools") \o FlattenSeq(tools) \o Tag("/tools") ELSE <<>>

(* What precedes the turns, as text.                                       *)
Heading(t, system, tools) ==
    IF SystemPart(t, system) \o ToolsPart(t, tools) = <<>> THEN <<>>
    ELSE Opened("system") \o SystemPart(t, system) \o ToolsPart(t, tools) \o Closed

(* It has the words of system text, tools and template.                    *)
LEMMA HeadingType ==
    ASSUME NEW words, Marks \subseteq words, NEW t \in Templates(words),
           NEW system \in SUBSET Seq(words), NEW tools \in Lists(words)
    PROVE  Heading(t, system, tools) \in Seq(words)
<1> DEFINE own == SystemPart(t, system)  list == ToolsPart(t, tools)
<1>1. own \in Seq(words)
  <2>1. t.preamble \in Seq(words)
    BY DEF Templates
  <2>2. system # {} => The(system) \in Seq(words)
    BY DEF The
  <2> QED BY <2>1, <2>2 DEF SystemPart
<1>2. list \in Seq(words)
  <2>1. FlattenSeq(tools) \in Seq(words)
    BY FlattenType DEF Lists
  <2>2. Tag("tools") \in Seq(words) /\ Tag("/tools") \in Seq(words) /\ <<>> \in Seq(words)
    BY MarkTypes
  <2>3. Cat(Cat(Tag("tools"), FlattenSeq(tools)), Tag("/tools")) \in Seq(words)
    BY ONLY <2>1, <2>2, CatLaws
  <2> QED BY <2>2, <2>3 DEF Cat, ToolsPart
<1>3. Cat(Cat(Cat(Opened("system"), own), list), Closed) \in Seq(words)
  <2>1. Opened("system") \in Seq(words) /\ Closed \in Seq(words)
    BY MarkTypes
  <2> HIDE DEF own, list
  <2> QED BY ONLY <1>1, <1>2, <2>1, CatLaws
<1>4. <<>> \in Seq(words)
  OBVIOUS
<1> QED BY <1>3, <1>4 DEF Heading, Cat

(* The template writes it so.                                              *)
LEMMA PrefaceIs ==
    ASSUME NEW t, NEW m, NEW tools
    PROVE  Preface(t, m, tools) = Heading(t, SystemTexts(m), tools)
BY DEF Preface, Heading, SystemPart, ToolsPart

(* Does the template render a conversation with this system text?          *)
Renders(t, system) == t.quirk # "macro" /\ (t.system = "raise" => system = {})

(* A rendered conversation.                                                *)
Whole(t, m, tools) == Heading(t, SystemTexts(m), tools) \o Body(t, m)

(* The system texts of a transcript are texts.                             *)
LEMMA SystemTextsType ==
    ASSUME NEW words, NEW m \in Seq(Plain(words))
    PROVE  SystemTexts(m) \in SUBSET Seq(words)
BY PlainIs DEF SystemTexts

(* A template that renders a transcript renders its heading and its turns. *)
LEMMA RenderIs ==
    ASSUME NEW words, Marks \subseteq words, NEW t \in Templates(words),
           NEW m \in Seq(Plain(words)), NEW tools \in Lists(words)
    PROVE  /\ Whole(t, m, tools) \in Seq(words)
           /\ Rendered(t, m, tools) =
                IF Renders(t, SystemTexts(m)) THEN {Whole(t, m, tools)} ELSE {}
           /\ Render(t, m, tools, TRUE) =
                IF Renders(t, SystemTexts(m))
                THEN {Whole(t, m, tools) \o Opened("assistant")} ELSE {}
<1> DEFINE h == Heading(t, SystemTexts(m), tools)
<1>1. t.lead \in Seq(words)
  BY DEF Templates
<1>2. h \in Seq(words) /\ Body(t, m) \in Seq(words)
  BY <1>1, SystemTextsType, HeadingType, BodyType
<1>3. Whole(t, m, tools) \in Seq(words)
  <2> HIDE DEF h
  <2>1. h \o Body(t, m) \in Seq(words)
    BY <1>2, ConcatProperties
  <2> QED BY <2>1 DEF Whole, h
<1>4. Whole(t, m, tools) = Preface(t, m, tools) \o FlattenSeq([i \in DOMAIN m |-> Turn(t, m, i)])
  BY PrefaceIs DEF Whole, Body, Turns
<1>5. Whole(t, m, tools) \o <<>> = Whole(t, m, tools)
  BY <1>3, ConcatEmptySeq
<1>6. (t.quirk = "macro" \/ (t.system = "raise" /\ SystemTexts(m) # {})) <=>
      ~Renders(t, SystemTexts(m))
  BY DEF Renders
<1>7. Rendered(t, m, tools) = IF Renders(t, SystemTexts(m)) THEN {Whole(t, m, tools)} ELSE {}
  BY <1>4, <1>5, <1>6, Zenon DEF Rendered, Render, Some, None
<1>8. Render(t, m, tools, TRUE) = IF Renders(t, SystemTexts(m))
                                  THEN {Whole(t, m, tools) \o Opened("assistant")} ELSE {}
  BY <1>4, <1>6, Zenon DEF Render, Some, None
<1> QED BY <1>3, <1>7, <1>8

(* A few texts, one after the other.                                       *)
FewOf(S, a, b, c, d) == a \in Seq(S) /\ b \in Seq(S) /\ c \in Seq(S) /\ d \in Seq(S)

(* The text of up to four texts.                                           *)
FewFlat(a, b, c, d) ==
    /\ FlattenSeq(<<a>>) = a /\ FlattenSeq(<<a, b>>) = a \o b
    /\ FlattenSeq(<<a, b, c>>) = (a \o b) \o c
    /\ FlattenSeq(<<a, b, c, d>>) = ((a \o b) \o c) \o d

(* It is they, one after the other.                                        *)
LEMMA FlattenFew ==
    ASSUME NEW S, NEW a, NEW b, NEW c, NEW d, FewOf(S, a, b, c, d)
    PROVE  FewFlat(a, b, c, d)
<1>0. a \in Seq(S) /\ b \in Seq(S) /\ c \in Seq(S) /\ d \in Seq(S)
  BY DEF FewOf
<1> DEFINE T == Seq(S)
<1>1. /\ <<>> \in Seq(T) /\ <<a>> = Append(<<>>, a) /\ <<a>> \in Seq(T)
      /\ <<a, b>> = Append(<<a>>, b) /\ <<a, b>> \in Seq(T)
      /\ <<a, b, c>> = Append(<<a, b>>, c) /\ <<a, b, c>> \in Seq(T)
      /\ <<a, b, c, d>> = Append(<<a, b, c>>, d)
  <2> HIDE DEF T
  <2>1. a \in T /\ b \in T /\ c \in T /\ d \in T
    BY <1>0 DEF T
  <2> QED BY ONLY <2>1
<1>2. FlattenSeq(<<a>>) = a
  <2>1. FlattenSeq(<<a>>) = <<>> \o a
    <3> DEFINE e == <<>>
    <3>1. e \in Seq(Seq(S)) /\ <<a>> = Append(e, a) /\ FlattenSeq(e) = <<>>
      BY <1>1, FlattenEmpty
    <3> HIDE DEF e
    <3> QED BY <1>0, <3>1, FlattenAppend
  <2> QED BY <1>0, <2>1, ConcatEmptySeq
<1> DEFINE s1 == <<a>>  s2 == <<a, b>>  s3 == <<a, b, c>>
<1>3. s1 \in Seq(Seq(S)) /\ s2 \in Seq(Seq(S)) /\ s3 \in Seq(Seq(S))
  BY <1>1
<1>4. FlattenSeq(<<a, b>>) = a \o b
  <2> HIDE DEF s1
  <2>1. FlattenSeq(Append(s1, b)) = FlattenSeq(s1) \o b
    BY <1>0, <1>3, FlattenAppend
  <2> QED BY <1>1, <1>2, <2>1 DEF s1
<1>5. FlattenSeq(<<a, b, c>>) = (a \o b) \o c
  <2> HIDE DEF s2
  <2>1. FlattenSeq(Append(s2, c)) = FlattenSeq(s2) \o c
    BY <1>0, <1>3, FlattenAppend
  <2> QED BY <1>1, <1>4, <2>1 DEF s2
<1>6. FlattenSeq(<<a, b, c, d>>) = ((a \o b) \o c) \o d
  <2> HIDE DEF s3
  <2>1. FlattenSeq(Append(s3, d)) = FlattenSeq(s3) \o d
    BY <1>0, <1>3, FlattenAppend
  <2> QED BY <1>1, <1>5, <2>1 DEF s3
<1> QED BY <1>2, <1>4, <1>5, <1>6 DEF FewFlat

---------------------------------------------------------------------------
(* The conversation template                                               *)

(* A turn of each side, and what follows, by their parts.                  *)
PairOf(S, o, u, c, b, a, r) ==
    /\ o \in Seq(S) /\ u \in Seq(S) /\ c \in Seq(S)
    /\ b \in Seq(S) /\ a \in Seq(S) /\ r \in Seq(S)

(* A turn of the user and an answer, by their parts.                       *)
PairByParts(o, u, c, b, a, r) ==
    Cat(Cat(Cat(Cat(o, u), c), Cat(Cat(b, a), c)), r) =
    Cat(o, Cat(u, Cat(Cat(c, b), Cat(a, Cat(c, r)))))

(* They can be regrouped so.                                               *)
LEMMA PairParts ==
    ASSUME NEW S, NEW o, NEW u, NEW c, NEW b, NEW a, NEW r, PairOf(S, o, u, c, b, a, r)
    PROVE  PairByParts(o, u, c, b, a, r)
<1>0. /\ o \in Seq(S) /\ u \in Seq(S) /\ c \in Seq(S)
      /\ b \in Seq(S) /\ a \in Seq(S) /\ r \in Seq(S)
  BY DEF PairOf
<1> DEFINE cr == Cat(c, r)  acr == Cat(a, cr)  ou == Cat(o, u)  ba == Cat(b, a)
           X == Cat(ou, c)  Y == Cat(ba, c)  bacr == Cat(b, acr)  cb == Cat(c, b)
           w == Cat(cb, acr)
<1>1. cr \in Seq(S) /\ ou \in Seq(S) /\ ba \in Seq(S) /\ cb \in Seq(S)
  BY ONLY <1>0, CatLaws
<1>2. X \in Seq(S) /\ Y \in Seq(S) /\ acr \in Seq(S)
  <2> HIDE DEF cr, ou, ba, cb
  <2> QED BY ONLY <1>1, <1>0, CatLaws DEF X, Y, acr
<1>3. w \in Seq(S)
  <2> HIDE DEF cb, acr
  <2> QED BY ONLY <1>1, <1>2, CatLaws DEF w
<1>4. Cat(Cat(X, Y), r) = Cat(X, Cat(Y, r))
  <2> HIDE DEF X, Y
  <2> QED BY ONLY <1>2, <1>0, Shift
<1>5. Cat(Y, r) = Cat(ba, cr)
  <2> HIDE DEF ba
  <2> QED BY ONLY <1>1, <1>0, Shift DEF Y, cr
<1>6. Cat(ba, cr) = bacr
  <2> HIDE DEF cr
  <2> QED BY ONLY <1>1, <1>0, Shift DEF ba, bacr, acr
<1>7. bacr \in Seq(S)
  <2> HIDE DEF acr
  <2> QED BY ONLY <1>2, <1>0, Shift DEF bacr
<1>8. Cat(X, bacr) = Cat(ou, Cat(c, bacr))
  <2> HIDE DEF ou, bacr
  <2> QED BY ONLY <1>1, <1>7, <1>0, Shift DEF X
<1>9. Cat(c, bacr) = w
  <2> HIDE DEF acr
  <2> QED BY ONLY <1>2, <1>0, Shift DEF bacr, w, cb
<1>10. Cat(ou, w) = Cat(o, Cat(u, w))
  <2> HIDE DEF w
  <2> QED BY ONLY <1>3, <1>0, Shift DEF ou
<1>11. Cat(Cat(X, Y), r) = Cat(o, Cat(u, w))
  <2> HIDE DEF cr, acr, ou, ba, X, Y, bacr, cb, w
  <2> QED BY ONLY <1>4, <1>5, <1>6, <1>8, <1>9, <1>10
<1> QED BY ONLY <1>11 DEF PairByParts, X, Y, w, cb, acr, cr, ou, ba

(* A conversation of two turns of each side, by its parts.                 *)
TurnsOf(S, h, o, c, b, e, u, a, v, z) ==
    /\ h \in Seq(S) /\ o \in Seq(S) /\ c \in Seq(S) /\ b \in Seq(S) /\ e \in Seq(S)
    /\ u \in Seq(S) /\ a \in Seq(S) /\ v \in Seq(S) /\ z \in Seq(S)

(* Two turns of the user with their answers.                               *)
TwoTurns(h, o, c, b, e, u, a, v, z) ==
    h \o (((((o \o u) \o c) \o ((b \o a) \o c)) \o ((o \o v) \o c)) \o ((e \o z) \o c))

(* They are four contents and what is around them.                         *)
TwoTurnsByParts(h, o, c, b, e, u, a, v, z) ==
    TwoTurns(h, o, c, b, e, u, a, v, z) =
    FourParts(h \o o, u, c \o b, a, c \o o, v, c \o e, z, c)

(* They can be regrouped so.                                               *)
LEMMA TwoTurnsParts ==
    ASSUME NEW S, NEW h, NEW o, NEW c, NEW b, NEW e, NEW u, NEW a, NEW v, NEW z,
           TurnsOf(S, h, o, c, b, e, u, a, v, z)
    PROVE  TwoTurnsByParts(h, o, c, b, e, u, a, v, z)
<1>0. /\ h \in Seq(S) /\ o \in Seq(S) /\ c \in Seq(S) /\ b \in Seq(S) /\ e \in Seq(S)
      /\ u \in Seq(S) /\ a \in Seq(S) /\ v \in Seq(S) /\ z \in Seq(S)
  BY DEF TurnsOf
<1> DEFINE U == Cat(Cat(o, u), c)  A == Cat(Cat(b, a), c)  V == Cat(Cat(o, v), c)
           Z == Cat(Cat(e, z), c)  UA == Cat(U, A)  VZ == Cat(V, Z)
           zc == Cat(z, c)  ce == Cat(c, e)  tail == Cat(v, Cat(ce, zc))
           co == Cat(c, o)  cb == Cat(c, b)  acot == Cat(a, Cat(co, tail))
           mid == Cat(u, Cat(cb, acot))
<1>1. U \in Seq(S) /\ A \in Seq(S) /\ V \in Seq(S) /\ Z \in Seq(S)
  BY ONLY <1>0, CatLaws
<1>2. zc \in Seq(S) /\ ce \in Seq(S) /\ co \in Seq(S) /\ cb \in Seq(S)
  BY ONLY <1>0, CatLaws
<1>3. tail \in Seq(S) /\ Cat(ce, zc) \in Seq(S)
  <2> HIDE DEF zc, ce
  <2> QED BY ONLY <1>2, <1>0, CatLaws DEF tail
<1>4. acot \in Seq(S)
  <2> HIDE DEF co, tail
  <2> QED BY ONLY <1>2, <1>3, <1>0, CatLaws DEF acot
<1>5. mid \in Seq(S)
  <2> HIDE DEF cb, acot
  <2> QED BY ONLY <1>2, <1>4, <1>0, CatLaws DEF mid
<1>6. VZ = Cat(o, tail)
  <2> DEFINE ov == Cat(o, v)  ez == Cat(e, z)
  <2>1. ov \in Seq(S) /\ ez \in Seq(S)
    BY ONLY <1>0, CatLaws
  <2>2. VZ = Cat(ov, Cat(c, Z))
    <3> HIDE DEF ov, Z
    <3> QED BY ONLY <1>1, <2>1, <1>0, Shift, SMTT(30) DEF V, VZ, ov
  <2>3. Z = Cat(e, zc)
    BY ONLY <1>0, Shift DEF Z, zc
  <2>4. Cat(c, Cat(e, zc)) = Cat(ce, zc)
    <3> HIDE DEF zc
    <3> QED BY ONLY <1>2, <1>0, Shift DEF ce
  <2>5. Cat(ov, Cat(ce, zc)) = Cat(o, tail)
    <3> HIDE DEF ce, zc
    <3> DEFINE q == Cat(ce, zc)
    <3>1. q \in Seq(S)
      BY <1>3
    <3> HIDE DEF q
    <3>2. Cat(Cat(o, v), q) = Cat(o, Cat(v, q))
      BY ONLY <3>1, <1>0, Shift
    <3> QED BY ONLY <3>2 DEF q, ov, tail
  <2> HIDE DEF V, VZ, Z, ov, ce, zc, tail
  <2> QED BY ONLY <2>2, <2>3, <2>4, <2>5
<1>7. Cat(Cat(UA, V), Z) = Cat(UA, VZ)
  <2>1. UA \in Seq(S)
    <3> HIDE DEF U, A
    <3> QED BY ONLY <1>1, CatLaws DEF UA
  <2> HIDE DEF UA, V, Z
  <2> QED BY ONLY <1>1, <2>1, Shift DEF VZ
<1>8. Cat(UA, Cat(o, tail)) = Cat(o, mid)
  <2> DEFINE r == Cat(o, tail)
  <2>1. r \in Seq(S)
    <3> HIDE DEF tail
    <3> QED BY ONLY <1>3, <1>0, CatLaws DEF r
  <2>2. Cat(c, r) = Cat(co, tail)
    <3> HIDE DEF tail
    <3> QED BY ONLY <1>3, <1>0, Shift DEF r, co
  <2> HIDE DEF r
  <2>3. Cat(Cat(Cat(Cat(o, u), c), Cat(Cat(b, a), c)), r) =
        Cat(o, Cat(u, Cat(Cat(c, b), Cat(a, Cat(c, r)))))
    <3>1. PairOf(S, o, u, c, b, a, r)
      BY ONLY <1>0, <2>1 DEF PairOf
    <3> QED BY ONLY <3>1, PairParts DEF PairByParts
  <2>4. Cat(UA, r) = Cat(o, Cat(u, Cat(cb, Cat(a, Cat(c, r)))))
    BY ONLY <2>3 DEF UA, U, A, cb
  <2> HIDE DEF UA, co, tail, cb
  <2> QED BY ONLY <2>2, <2>4 DEF r, mid, acot
<1>9. Cat(h, Cat(o, mid)) = Cat(Cat(h, o), mid)
  <2> HIDE DEF mid
  <2> QED BY ONLY <1>5, <1>0, Shift
<1>10. Cat(h, Cat(Cat(UA, V), Z)) = Cat(Cat(h, o), mid)
  <2> HIDE DEF UA, V, Z, VZ, tail, mid
  <2> QED BY ONLY <1>6, <1>7, <1>8, <1>9
<1> QED BY ONLY <1>10 DEF TwoTurnsByParts, TwoTurns, Cat, FourParts, UA, U, A, V, Z,
                  mid, cb, acot, co, tail, ce, zc

(* The messages of a probe.                                                *)
Exchange(u1, a1, u2, a2) ==
    <<Message("user", u1), Message("assistant", a1),
      Message("user", u2), Message("assistant", a2)>>

(* Around what it says, a probe has the markup of the template.            *)
Exchanged(words, t, u1, a1, u2, a2) ==
    LET m == Exchange(u1, a1, u2, a2) IN
    /\ m \in Seq(Plain(words)) /\ SystemTexts(m) = {}
    /\ Whole(t, m, <<>>) =
         FourParts(Heading(t, {}, <<>>) \o Opened("user"), Escaped(t, u1),
                   Closed \o (Opened("assistant") \o Lead(t, FALSE)), Escaped(t, a1),
                   Closed \o Opened("user"), Escaped(t, u2),
                   Closed \o (Opened("assistant") \o Lead(t, TRUE)), Escaped(t, a2),
                   Closed)

(* The template writes two turns and their answers so.                     *)
LEMMA ExchangeIs ==
    ASSUME NEW words, Marks \subseteq words, NEW t \in Templates(words),
           NEW u1 \in Seq(words), NEW a1 \in Seq(words), NEW u2 \in Seq(words),
           NEW a2 \in Seq(words)
    PROVE  Exchanged(words, t, u1, a1, u2, a2)
<1>0. Marks \subseteq words
  OBVIOUS
<1> DEFINE m == Exchange(u1, a1, u2, a2)
           T1 == UserTurn(t, u1)  T2 == AnswerTurn(t, a1, "user", "user", FALSE)
           T3 == UserTurn(t, u2)  T4 == AnswerTurn(t, a2, "user", "none", TRUE)
<1>1. /\ Message("user", u1) \in Plain(words) /\ Message("assistant", a1) \in Plain(words)
      /\ Message("user", u2) \in Plain(words) /\ Message("assistant", a2) \in Plain(words)
  BY DEF Message, Plain
<1>2. /\ m \in Seq(Plain(words)) /\ DOMAIN m = 1..4 /\ Len(m) = 4
      /\ m[1] = Message("user", u1) /\ m[2] = Message("assistant", a1)
      /\ m[3] = Message("user", u2) /\ m[4] = Message("assistant", a2)
  <2> DEFINE P == Plain(words)  M1 == Message("user", u1)  M2 == Message("assistant", a1)
             M3 == Message("user", u2)  M4 == Message("assistant", a2)
  <2>1. M1 \in P /\ M2 \in P /\ M3 \in P /\ M4 \in P
    BY <1>1
  <2> HIDE DEF P, M1, M2, M3, M4
  <2>2. /\ <<M1, M2, M3, M4>> \in Seq(P) /\ DOMAIN <<M1, M2, M3, M4>> = 1..4
        /\ Len(<<M1, M2, M3, M4>>) = 4
        /\ <<M1, M2, M3, M4>>[1] = M1 /\ <<M1, M2, M3, M4>>[2] = M2
        /\ <<M1, M2, M3, M4>>[3] = M3 /\ <<M1, M2, M3, M4>>[4] = M4
    BY <2>1
  <2> QED BY <2>2 DEF P, M1, M2, M3, M4, Exchange
<1>3. /\ m[1].role = "user" /\ m[2].role = "assistant" /\ m[3].role = "user"
      /\ m[4].role = "assistant" /\ m[1].content = u1 /\ m[2].content = a1
      /\ m[3].content = u2 /\ m[4].content = a2
  <2> HIDE DEF m
  <2> QED BY <1>2 DEF Message
<1> HIDE DEF m
<1>4. SystemTexts(m) = {}
  <2>1. \A i \in 1..4 : m[i].role # "system"
    BY <1>3
  <2> QED BY <1>2, <2>1 DEF SystemTexts
<1>5. /\ RoleAt(m, 1) = "user" /\ RoleAt(m, 3) = "user" /\ RoleAt(m, 5) = "none"
      /\ LastAnswer(m, 2) = FALSE /\ LastAnswer(m, 4) = TRUE
  <2>1. RoleAt(m, 1) = "user" /\ RoleAt(m, 3) = "user" /\ RoleAt(m, 5) = "none"
    BY <1>2, <1>3 DEF RoleAt
  <2>2. LastAnswer(m, 2) <=> FALSE
    <3>1. 4 \in (2 + 1)..Len(m)
      BY <1>2
    <3> QED BY <1>3, <3>1 DEF LastAnswer
  <2>3. LastAnswer(m, 4) <=> TRUE
    BY <1>2 DEF LastAnswer
  <2> QED BY <2>1, <2>2, <2>3 DEF LastAnswer
<1>6. t.lead \in Seq(words)
  BY DEF Templates
<1>7. Turn(t, m, 1) = T1 /\ Turn(t, m, 3) = T3
  BY <1>3, UserTurnIs
<1>8. Turn(t, m, 2) = T2
  <2>1. Turn(t, m, 2) = TurnText(t, m[2], RoleAt(m, 2 - 1), RoleAt(m, 2 + 1), LastAnswer(m, 2))
    <3>1. m \in Seq(Plain(words)) /\ 2 \in DOMAIN m
      BY <1>2
    <3> QED BY ONLY <1>0, <1>6, <3>1, TurnIs
  <2>2. 2 - 1 = 1 /\ 2 + 1 = 3
    OBVIOUS
  <2> QED BY <1>3, <1>5, <2>1, <2>2 DEF TurnText
<1>9. Turn(t, m, 4) = T4
  <2>1. Turn(t, m, 4) = TurnText(t, m[4], RoleAt(m, 4 - 1), RoleAt(m, 4 + 1), LastAnswer(m, 4))
    <3>1. m \in Seq(Plain(words)) /\ 4 \in DOMAIN m
      BY <1>2
    <3> QED BY ONLY <1>0, <1>6, <3>1, TurnIs
  <2>2. 4 - 1 = 3 /\ 4 + 1 = 5
    OBVIOUS
  <2> QED BY <1>3, <1>5, <2>1, <2>2 DEF TurnText
<1>10. T1 \in Seq(words) /\ T2 \in Seq(words) /\ T3 \in Seq(words) /\ T4 \in Seq(words)
  BY <1>6, UserTurnType, AnswerTurnType
<1>11. Turns(t, m) = <<T1, T2, T3, T4>>
  <2> HIDE DEF T1, T2, T3, T4
  <2>1. Turns(t, m) = [i \in 1..4 |-> Turn(t, m, i)]
    BY <1>2 DEF Turns
  <2>2. \A i \in 1..4 : <<T1, T2, T3, T4>>[i] = Turn(t, m, i)
    BY <1>7, <1>8, <1>9
  <2> QED BY <2>1, <2>2
<1>12. Body(t, m) = ((T1 \o T2) \o T3) \o T4
  <2> HIDE DEF T1, T2, T3, T4
  <2>1. FlattenSeq(<<T1, T2, T3, T4>>) = ((T1 \o T2) \o T3) \o T4
    <3>1. FewOf(words, T1, T2, T3, T4)
      BY ONLY <1>10 DEF FewOf
    <3>2. FewFlat(T1, T2, T3, T4)
      BY ONLY <3>1, FlattenFew
    <3> QED BY ONLY <3>2 DEF FewFlat
  <2> QED BY <1>11, <2>1 DEF Body
<1> DEFINE o == Opened("user")  c == Closed  h == Heading(t, {}, <<>>)
           b == Opened("assistant") \o Lead(t, FALSE)  e == Opened("assistant") \o Lead(t, TRUE)
<1>13. /\ T1 = (o \o Escaped(t, u1)) \o c /\ T2 = (b \o Escaped(t, a1)) \o c
       /\ T3 = (o \o Escaped(t, u2)) \o c /\ T4 = (e \o Escaped(t, a2)) \o c
  BY DEF UserTurn, AnswerTurn
<1>14. /\ o \in Seq(words) /\ c \in Seq(words) /\ h \in Seq(words) /\ b \in Seq(words)
       /\ e \in Seq(words)
  <2>1. o \in Seq(words) /\ c \in Seq(words) /\ Opened("assistant") \in Seq(words)
    BY MarkTypes
  <2>2. Lead(t, FALSE) \in Seq(words) /\ Lead(t, TRUE) \in Seq(words)
    BY <1>6, AnswerTurnType
  <2>3. b \in Seq(words) /\ e \in Seq(words)
    BY <2>1, <2>2, ConcatProperties
  <2>4. h \in Seq(words)
    <3>1. {} \in SUBSET Seq(words) /\ <<>> \in Lists(words)
      BY DEF Lists
    <3> QED BY <3>1, HeadingType
  <2> QED BY <2>1, <2>3, <2>4
<1>15. /\ Escaped(t, u1) \in Seq(words) /\ Escaped(t, a1) \in Seq(words)
       /\ Escaped(t, u2) \in Seq(words) /\ Escaped(t, a2) \in Seq(words)
  BY EscapedType
<1>16. Whole(t, m, <<>>) = h \o (((T1 \o T2) \o T3) \o T4)
  BY <1>4, <1>12 DEF Whole
<1>17. Whole(t, m, <<>>) = FourParts(h \o o, Escaped(t, u1), c \o b, Escaped(t, a1), c \o o,
                                     Escaped(t, u2), c \o e, Escaped(t, a2), c)
  <2> HIDE DEF T1, T2, T3, T4, o, c, h, b, e
  <2> DEFINE U1 == Escaped(t, u1)  A1 == Escaped(t, a1)  U2 == Escaped(t, u2)
             A2 == Escaped(t, a2)
  <2>1. TurnsOf(words, h, o, c, b, e, U1, A1, U2, A2)
    BY ONLY <1>14, <1>15 DEF TurnsOf
  <2>2. TwoTurnsByParts(h, o, c, b, e, U1, A1, U2, A2)
    BY ONLY <2>1, TwoTurnsParts
  <2>3. Whole(t, m, <<>>) = TwoTurns(h, o, c, b, e, U1, A1, U2, A2)
    BY ONLY <1>13, <1>16 DEF TwoTurns
  <2> QED BY ONLY <2>2, <2>3 DEF TwoTurnsByParts
<1> QED BY ONLY <1>2, <1>4, <1>17 DEF m, Exchanged

(* A needle that is in the text with one word changed is not in it.        *)
LEMMA FindNever ==
    ASSUME NEW S, NEW a \in S, NEW w \in S, NEW e \in S, NEW f \in S, w \notin {a, e, f},
           e # f, NEW x \in Seq(S \ {w}), NEW y \in Seq(S \ {w})
    PROVE  Find(x \o (<<a, w, f, a>> \o y), <<a, w, e, a>>) = 0
<1> DEFINE n == <<a, w, e, a>>  m == <<a, w, f, a>>  text == x \o (m \o y)
<1>1. /\ m \in Seq(S) /\ Len(m) = 4 /\ m[1] = a /\ m[2] = w /\ m[3] = f /\ m[4] = a
      /\ n \in Seq(S) /\ Len(n) = 4 /\ n[2] = w /\ n[3] = e
  OBVIOUS
<1>2. /\ x \in Seq(S) /\ y \in Seq(S) /\ Len(x) \in Nat /\ Len(y) \in Nat
      /\ \A i \in 1..Len(x) : x[i] # w
      /\ \A i \in 1..Len(y) : y[i] # w
  BY SeqMonotonic, ElementOfSeq
<1> HIDE DEF n, m
<1>3. /\ text \in Seq(S) /\ Len(text) = Len(x) + 4 + Len(y)
      /\ \A i \in 1..Len(x) : text[i] = x[i]
      /\ \A i \in 1..4 : text[Len(x) + i] = m[i]
      /\ \A i \in 1..Len(y) : text[Len(x) + 4 + i] = y[i]
  <2>1. /\ text \in Seq(S) /\ Len(text) = Len(x) + Len(m) + Len(y)
        /\ \A i \in 1..Len(x) : text[i] = x[i]
        /\ \A i \in 1..Len(m) : text[Len(x) + i] = m[i]
        /\ \A i \in 1..Len(y) : text[Len(x) + Len(m) + i] = y[i]
    <3>1. x \in Seq(S) /\ m \in Seq(S) /\ y \in Seq(S)
      BY <1>1, <1>2
    <3> QED BY ONLY <3>1, Parts
  <2> HIDE DEF text
  <2> QED BY ONLY <1>1, <2>1
<1> HIDE DEF text
<1>4. ASSUME NEW i \in 1..Len(text), text[i] = w PROVE i = Len(x) + 2
  <2>1. CASE i \in 1..Len(x)
    BY <1>2, <1>3, <1>4, <2>1
  <2>2. CASE i \in (Len(x) + 1)..(Len(x) + 4)
    <3>1. i - Len(x) \in 1..4 /\ i = Len(x) + (i - Len(x))
      BY <1>2, <2>2
    <3>2. m[i - Len(x)] = w
      BY <1>3, <1>4, <3>1
    <3>3. \A j \in 1..4 : m[j] = w => j = 2
      <4>1. \A j \in 1..4 : j = 1 \/ j = 2 \/ j = 3 \/ j = 4
        OBVIOUS
      <4> QED BY <1>1, <4>1
    <3>4. i - Len(x) = 2
      BY <3>1, <3>2, <3>3
    <3> QED BY <1>2, <3>4
  <2>3. CASE i \in (Len(x) + 5)..Len(text)
    <3>1. i - Len(x) - 4 \in 1..Len(y) /\ i = Len(x) + 4 + (i - Len(x) - 4)
      BY <1>2, <1>3, <2>3
    <3> QED BY <1>2, <1>3, <1>4, <3>1
  <2> QED BY <1>2, <1>3, <2>1, <2>2, <2>3
<1>5. ASSUME NEW i \in Places(text, n) PROVE FALSE
  <2>1. /\ i \in 1..(Len(text) + 1 - Len(n))
        /\ SubSeq(text, i, i + Len(n) - 1) = n
    BY DEF Places
  <2>2. /\ i \in Nat /\ i >= 1 /\ i + 3 <= Len(text) /\ i + Len(n) - 1 = i + 3
        /\ i + 1 \in 1..Len(text) /\ i + 2 \in 1..Len(text) /\ Len(text) \in Nat
    BY <1>1, <1>2, <1>3, <2>1
  <2>3. SubSeq(text, i, i + 3)[2] = text[i + 1] /\ SubSeq(text, i, i + 3)[3] = text[i + 2]
    BY <1>3, <2>2
  <2>4. text[i + 1] = w /\ text[i + 2] = e
    BY <1>1, <2>1, <2>2, <2>3
  <2>5. i + 1 = Len(x) + 2
    BY <1>4, <2>2, <2>4
  <2>6. i + 2 = Len(x) + 3 /\ 3 \in 1..4
    BY <1>2, <2>2, <2>5
  <2>7. text[Len(x) + 3] = f
    BY <1>1, <1>3, <2>6
  <2> QED BY <2>4, <2>6, <2>7
<1>6. Places(text, n) = {}
  BY <1>5
<1>7. Find(text, n) = 0
  BY <1>6 DEF Find
<1> QED BY <1>7 DEF text, n, m

(* The conversation template of a chat template.                           *)
Shape(t) ==
    [first_turn_open |-> Heading(t, {}, <<>>) \o Opened("user"),
     generation_open |-> Closed \o Begun(t),
     turn_transition |-> Closed \o Opened("user")]

(* The four words of a probe, and those of the texts probed.               *)
Probing(words, p, q, r, s) ==
    /\ Marks \subseteq words /\ words \cap {p, q, r, s} = {}
    /\ p # q /\ p # r /\ p # s /\ q # r /\ q # s /\ r # s
    /\ {p, q, r, s} \cap {"pua", "&", "&amp;"} = {}

(* A sentinel is told by its word.                                         *)
LEMMA ProbeIs ==
    ASSUME NEW w, w # "pua", w # "&"
    PROVE  Sole(Probe(w), w)
<1> DEFINE n == <<"pua", w, "&", "pua">>
<1>1. Len(n) = 4 /\ n[1] = "pua" /\ n[2] = w /\ n[3] = "&" /\ n[4] = "pua"
  OBVIOUS
<1> HIDE DEF n
<1>2. 2 \in 1..Len(n) /\ \A j \in 1..Len(n) : n[j] = w => j = 2
  <2>1. \A j \in 1..Len(n) : j = 1 \/ j = 2 \/ j = 3 \/ j = 4
    BY <1>1
  <2> QED BY <1>1, <2>1
<1>3. Sole(n, w)
  BY <1>1, <1>2 DEF Sole
<1> QED BY <1>3 DEF n, Probe

(* Four words are a text.                                                  *)
LEMMA FourWords ==
    ASSUME NEW S, NEW a \in S, NEW b \in S, NEW c \in S, NEW d \in S
    PROVE  <<a, b, c, d>> \in Seq(S)
OBVIOUS

(* A template that escapes changes a sentinel.                             *)
LEMMA EscapedProbe ==
    ASSUME NEW t, NEW w, w # "&"
    PROVE  Escaped(t, Probe(w)) = IF t.quirk = "escape" THEN <<"pua", w, "&amp;", "pua">>
                                  ELSE Probe(w)
<1> DEFINE n == <<"pua", w, "&", "pua">>  m == <<"pua", w, "&amp;", "pua">>
           f == [i \in 1..Len(n) |-> IF n[i] = "&" THEN "&amp;" ELSE n[i]]
<1>1. Len(n) = 4 /\ n[1] = "pua" /\ n[2] = w /\ n[3] = "&" /\ n[4] = "pua"
  OBVIOUS
<1>2. /\ m = [i \in 1..4 |-> m[i]]
      /\ m[1] = "pua" /\ m[2] = w /\ m[3] = "&amp;" /\ m[4] = "pua"
  OBVIOUS
<1> HIDE DEF n, m
<1>3. ASSUME NEW i \in 1..4
      PROVE  (IF n[i] = "&" THEN "&amp;" ELSE n[i]) = m[i]
  <2>1. i = 1 \/ i = 2 \/ i = 3 \/ i = 4
    OBVIOUS
  <2> QED BY <1>1, <1>2, <2>1, Zenon
<1>4. ReplaceAll(n, "&", "&amp;") = m
  BY <1>1, <1>2, <1>3, Zenon DEF ReplaceAll
<1> QED BY <1>4, Zenon DEF Escaped, Probe, n, m

(* The words of a text are among more words.                               *)
LEMMA TemplatesWiden ==
    ASSUME NEW A, NEW B, A \subseteq B
    PROVE  Templates(A) \subseteq Templates(B)
BY SeqMonotonic DEF Templates

(* What a probe is rendered as, by the parts that are looked for.          *)
Probed(t, p, q, r, s) ==
    FourParts(Heading(t, {}, <<>>) \o Opened("user"), Escaped(t, Probe(p)),
              Closed \o (Opened("assistant") \o Lead(t, FALSE)), Escaped(t, Probe(q)),
              Closed \o Opened("user"), Escaped(t, Probe(r)),
              Closed \o (Opened("assistant") \o Lead(t, TRUE)), Escaped(t, Probe(s)), Closed)

(* The template writes the transcript of the probe so.                     *)
LEMMA ProbeRendered ==
    ASSUME NEW words, NEW p, NEW q, NEW r, NEW s, Probing(words, p, q, r, s),
           NEW t \in Templates(words)
    PROVE  Rendered(t, Exchange(Probe(p), Probe(q), Probe(r), Probe(s)), <<>>) =
           IF t.quirk = "macro" THEN {} ELSE {Probed(t, p, q, r, s)}
<1> DEFINE S == words \cup {p, q, r, s, "pua", "&"}
           m == Exchange(Probe(p), Probe(q), Probe(r), Probe(s))
<1>1. Marks \subseteq S /\ t \in Templates(S)
  <2>1. words \subseteq S
    OBVIOUS
  <2> HIDE DEF S
  <2> QED BY <2>1, TemplatesWiden DEF Probing
<1>2. /\ Probe(p) \in Seq(S) /\ Probe(q) \in Seq(S) /\ Probe(r) \in Seq(S)
      /\ Probe(s) \in Seq(S)
  <2>1. p \in S /\ q \in S /\ r \in S /\ s \in S /\ "pua" \in S /\ "&" \in S
    OBVIOUS
  <2> HIDE DEF S
  <2> QED BY <2>1 DEF Probe
<1> HIDE DEF S
<1> DEFINE u1 == Probe(p)  a1 == Probe(q)  u2 == Probe(r)  a2 == Probe(s)
<1> HIDE DEF u1, a1, u2, a2
<1>3. Exchanged(S, t, u1, a1, u2, a2)
  <2>1. u1 \in Seq(S) /\ a1 \in Seq(S) /\ u2 \in Seq(S) /\ a2 \in Seq(S)
    BY <1>2 DEF u1, a1, u2, a2
  <2> QED BY ONLY <1>1, <2>1, ExchangeIs
<1>4. m \in Seq(Plain(S)) /\ SystemTexts(m) = {} /\ Whole(t, m, <<>>) = Probed(t, p, q, r, s)
  BY ONLY <1>3 DEF u1, a1, u2, a2, Probed, Exchanged
<1> HIDE DEF m
<1>5. Rendered(t, m, <<>>) = IF Renders(t, {}) THEN {Whole(t, m, <<>>)} ELSE {}
  <2>1. Rendered(t, m, <<>>) =
          IF Renders(t, SystemTexts(m)) THEN {Whole(t, m, <<>>)} ELSE {}
    <3>1. <<>> \in Lists(S)
      BY DEF Lists
    <3> QED BY ONLY <1>1, <1>4, <3>1, RenderIs
  <2> QED BY ONLY <1>4, <2>1
<1>6. Renders(t, {}) <=> t.quirk # "macro"
  BY DEF Renders
<1> QED BY ONLY <1>4, <1>5, <1>6 DEF m

(* A probe finds the spans of a template that treats all turns alike and   *)
(* writes what it is given, and of no other.                               *)
LEMMA DeriveIs ==
    ASSUME NEW words, NEW p, NEW q, NEW r, NEW s, Probing(words, p, q, r, s),
           NEW t \in Templates(words)
    PROVE  DeriveFromProbe(t, Probe(p), Probe(q), Probe(r), Probe(s)) =
           IF t.quirk = "none" THEN {Shape(t)} ELSE {}
<1> DEFINE S == words \cup {p, q, r, s, "pua", "&", "&amp;"}
           u1 == Probe(p)  a1 == Probe(q)  u2 == Probe(r)  a2 == Probe(s)
           text == Probed(t, p, q, r, s)
           x == Heading(t, {}, <<>>) \o Opened("user")
           g == Closed \o (Opened("assistant") \o Lead(t, FALSE))
           h == Closed \o Opened("user")
           k == Closed \o (Opened("assistant") \o Lead(t, TRUE))
           spans == [first_turn_open |-> Before(text, Find(text, u1)),
                     generation_open |-> Gap(text, u1, a1),
                     turn_transition |-> Gap(text, a1, u2)]
<1>1. DeriveFromProbe(t, u1, a1, u2, a2) =
      IF t.quirk # "macro" /\ Steady(text, u1, a1, u2, a2) THEN {spans} ELSE {}
  <2>1. DeriveFromProbe(t, u1, a1, u2, a2) =
        {[first_turn_open |-> Before(z, Find(z, u1)), generation_open |-> Gap(z, u1, a1),
          turn_transition |-> Gap(z, a1, u2)] :
            z \in {y \in Rendered(t, Exchange(u1, a1, u2, a2), <<>>) :
                     Steady(y, u1, a1, u2, a2)}}
    BY DEF DeriveFromProbe, Exchange
  <2>2. Rendered(t, Exchange(u1, a1, u2, a2), <<>>) =
        IF t.quirk = "macro" THEN {} ELSE {text}
    BY ProbeRendered
  <2> HIDE DEF u1, a1, u2, a2, text
  <2> QED BY ONLY <2>1, <2>2, Zenon
<1>2. t.quirk \in {"none", "last", "escape", "macro"} /\ t.lead \in Seq(words)
  BY DEF Templates
<1>3. /\ x \in Seq(words) /\ g \in Seq(words) /\ h \in Seq(words) /\ k \in Seq(words)
      /\ Closed \in Seq(words)
  <2>0. Marks \subseteq words
    BY DEF Probing
  <2>1. /\ Opened("user") \in Seq(words) /\ Closed \in Seq(words)
        /\ Opened("assistant") \in Seq(words)
    BY ONLY <2>0, MarkTypes
  <2>2. Lead(t, FALSE) \in Seq(words) /\ Lead(t, TRUE) \in Seq(words)
    BY <1>2, <2>0, AnswerTurnType
  <2>3. /\ Opened("assistant") \o Lead(t, FALSE) \in Seq(words)
        /\ Opened("assistant") \o Lead(t, TRUE) \in Seq(words)
    BY ONLY <2>1, <2>2, ConcatProperties
  <2>4. Heading(t, {}, <<>>) \in Seq(words)
    <3>1. {} \in SUBSET Seq(words) /\ <<>> \in Lists(words)
      BY DEF Lists
    <3> QED BY <2>0, <3>1, HeadingType
  <2> QED BY ONLY <2>1, <2>3, <2>4, ConcatProperties
<1>4. ASSUME t.quirk \in {"none", "last"}
      PROVE  FoundFour(text, x, u1, g, a1, h, u2, k, a2)
  <2>1. AroundFour(S, p, q, r, s, x, u1, g, a1, h, u2, k, a2, Closed)
    <3>1. /\ p # q /\ p # r /\ p # s /\ q # r /\ q # s /\ r # s
      BY DEF Probing
    <3>2. /\ Sole(u1, p) /\ u1 \in Seq(S \ {q, r, s})
          /\ Sole(a1, q) /\ a1 \in Seq(S \ {p, r, s})
          /\ Sole(u2, r) /\ u2 \in Seq(S \ {p, q, s})
          /\ Sole(a2, s) /\ a2 \in Seq(S \ {p, q, r})
      <4>1. Sole(u1, p) /\ Sole(a1, q) /\ Sole(u2, r) /\ Sole(a2, s)
        BY ProbeIs DEF Probing
      <4>2. /\ {p, "pua", "&"} \subseteq S \ {q, r, s} /\ {q, "pua", "&"} \subseteq S \ {p, r, s}
            /\ {r, "pua", "&"} \subseteq S \ {p, q, s} /\ {s, "pua", "&"} \subseteq S \ {p, q, r}
        BY DEF Probing
      <4>3. \A A : \A w : {w, "pua", "&"} \subseteq A => Probe(w) \in Seq(A)
        BY FourWords DEF Probe
      <4> HIDE DEF S
      <4>4. /\ u1 \in Seq(S \ {q, r, s}) /\ a1 \in Seq(S \ {p, r, s})
            /\ u2 \in Seq(S \ {p, q, s}) /\ a2 \in Seq(S \ {p, q, r})
        BY ONLY <4>2, <4>3
      <4> QED BY ONLY <4>1, <4>4
    <3>3. words \subseteq S \ {p, q, r, s}
      BY Zenon DEF Probing
    <3>4. /\ x \in Seq(S \ {p, q, r, s}) /\ g \in Seq(S \ {p, q, r, s})
          /\ h \in Seq(S \ {p, q, r, s}) /\ k \in Seq(S \ {p, q, r, s})
          /\ Closed \in Seq(S \ {p, q, r, s})
      <4> HIDE DEF x, g, h, k, S
      <4> QED BY ONLY <1>3, <3>3, SeqMonotonic
    <3> HIDE DEF x, g, h, k, S, u1, a1, u2, a2
    <3> QED BY ONLY <3>1, <3>2, <3>4 DEF AroundFour
  <2>2. text = FourParts(x, u1, g, a1, h, u2, k, a2, Closed)
    <3>1. p # "&" /\ q # "&" /\ r # "&" /\ s # "&" /\ t.quirk # "escape"
      BY <1>4 DEF Probing
    <3>2. /\ Escaped(t, Probe(p)) = u1 /\ Escaped(t, Probe(q)) = a1
          /\ Escaped(t, Probe(r)) = u2 /\ Escaped(t, Probe(s)) = a2
      BY <3>1, EscapedProbe, Zenon
    <3> QED BY <3>2 DEF Probed
  <2> HIDE DEF S, x, u1, g, a1, h, u2, k, a2
  <2>3. FoundFour(FourParts(x, u1, g, a1, h, u2, k, a2, Closed), x, u1, g, a1, h, u2, k, a2)
    BY ONLY <2>1, FourFound
  <2> QED BY ONLY <2>2, <2>3
<1>5. CASE t.quirk = "none"
  <2>1. /\ Steady(text, u1, a1, u2, a2) /\ Before(text, Find(text, u1)) = x
        /\ Gap(text, u1, a1) = g /\ Gap(text, a1, u2) = h
    <3>1. g = k
      BY <1>5 DEF Lead
    <3> HIDE DEF text, u1, a1, u2, a2, x, g, h, k
    <3> QED BY <1>4, <1>5, <3>1 DEF FoundFour, Steady
  <2>2. g = Closed \o Begun(t)
    <3>1. Lead(t, FALSE) = t.lead
      BY <1>2, ConcatEmptySeq DEF Lead
    <3> QED BY <3>1 DEF Begun
  <2>3. spans = Shape(t)
    BY <2>1, <2>2 DEF Shape
  <2> HIDE DEF text, u1, a1, u2, a2, spans
  <2>4. DeriveFromProbe(t, u1, a1, u2, a2) = {Shape(t)}
    BY <1>1, <1>5, <2>1, <2>3
  <2> QED BY ONLY <1>5, <2>4 DEF u1, a1, u2, a2
<1>6. CASE t.quirk = "last"
  <2>1. g # k
    <3> DEFINE o == Closed \o Opened("assistant")  f == Lead(t, FALSE)  l == Lead(t, TRUE)
    <3>1. Len(f) = Len(t.lead) /\ Len(l) = 3 + Len(t.lead) /\ Len(t.lead) \in Nat
      <4>1. f = <<>> \o t.lead /\ l = Tag("think") \o t.lead
        BY <1>6 DEF Lead
      <4>2. Tag("think") \in Seq(words) /\ Len(Tag("think")) = 3
        BY MarkTypes DEF Probing, Tag
      <4>3. <<>> \o t.lead = t.lead
        BY <1>2, ConcatEmptySeq
      <4>4. Len(Tag("think") \o t.lead) = 3 + Len(t.lead)
        BY <1>2, <4>2, ConcatProperties, SMTT(30)
      <4>5. Len(t.lead) \in Nat
        BY <1>2
      <4> QED BY ONLY <4>1, <4>3, <4>4, <4>5
    <3>2. Len(g) = 5 + Len(f) /\ Len(k) = 5 + Len(l)
      <4>0. Marks \subseteq words
        BY DEF Probing
      <4>1. /\ Closed \in Seq(words) /\ Len(Closed) = 2
            /\ Opened("assistant") \in Seq(words) /\ Len(Opened("assistant")) = 3
        <5>1. Len(Closed) = 2 /\ Len(Opened("assistant")) = 3
          BY DEF Closed, Opened
        <5> QED BY ONLY <4>0, <5>1, MarkTypes
      <4>2. f \in Seq(words) /\ l \in Seq(words)
        BY <1>2, <4>0, AnswerTurnType
      <4> DEFINE b == Opened("assistant")  c == Closed
      <4> HIDE DEF f, l, b, c
      <4>3. b \in Seq(words) /\ Len(b) = 3 /\ c \in Seq(words) /\ Len(c) = 2
        BY <4>1 DEF b, c
      <4>4. b \o f \in Seq(words) /\ Len(b \o f) = Len(b) + Len(f)
        BY ONLY <4>2, <4>3, Halves
      <4>5. b \o l \in Seq(words) /\ Len(b \o l) = Len(b) + Len(l)
        BY ONLY <4>2, <4>3, Halves
      <4>8. /\ Len(c \o (b \o f)) = Len(c) + Len(b \o f)
            /\ Len(c \o (b \o l)) = Len(c) + Len(b \o l)
        <5> DEFINE bf == b \o f  bl == b \o l
        <5>1. bf \in Seq(words) /\ bl \in Seq(words) /\ c \in Seq(words)
          BY ONLY <4>3, <4>4, <4>5
        <5> HIDE DEF bf, bl
        <5>2. Len(c \o bf) = Len(c) + Len(bf) /\ Len(c \o bl) = Len(c) + Len(bl)
          BY ONLY <5>1, Halves
        <5> QED BY ONLY <5>2 DEF bf, bl
      <4>6. Len(f) \in Nat /\ Len(l) \in Nat
        BY ONLY <4>2
      <4>7. Len(c \o (b \o f)) = 5 + Len(f) /\ Len(c \o (b \o l)) = 5 + Len(l)
        BY ONLY <4>3, <4>4, <4>5, <4>6, <4>8
      <4> QED BY <4>7 DEF f, l, b, c
    <3> HIDE DEF g, k, f, l
    <3> QED BY <3>1, <3>2
  <2>2. ~Steady(text, u1, a1, u2, a2)
    <3> HIDE DEF text, u1, a1, u2, a2, x, g, h, k
    <3> QED BY <1>4, <1>6, <2>1 DEF FoundFour, Steady
  <2> HIDE DEF text, u1, a1, u2, a2, spans
  <2>3. DeriveFromProbe(t, u1, a1, u2, a2) = {}
    BY <1>1, <2>2
  <2> QED BY ONLY <1>6, <2>3 DEF u1, a1, u2, a2
<1>7. CASE t.quirk = "escape"
  <2> DEFINE c1 == Escaped(t, u1)  c2 == Escaped(t, a1)  c3 == Escaped(t, u2)
             c4 == Escaped(t, a2)
             y == Cat(g, Cat(c2, Cat(h, Cat(c3, Cat(k, Cat(c4, Closed))))))
  <2>1. text = x \o (c1 \o y)
    BY DEF Probed, FourParts, Cat
  <2>2. c1 = <<"pua", p, "&amp;", "pua">> /\ u1 = <<"pua", p, "&", "pua">>
    BY <1>7, EscapedProbe, Zenon DEF Probing, Probe
  <2>3. x \in Seq(S \ {p}) /\ y \in Seq(S \ {p})
    <3>1. words \subseteq S \ {p}
      BY Zenon DEF Probing
    <3>2. /\ x \in Seq(S \ {p}) /\ g \in Seq(S \ {p}) /\ h \in Seq(S \ {p})
          /\ k \in Seq(S \ {p}) /\ Closed \in Seq(S \ {p})
      <4> HIDE DEF x, g, h, k, S
      <4> QED BY ONLY <1>3, <3>1, SeqMonotonic
    <3>3. c2 \in Seq(S \ {p}) /\ c3 \in Seq(S \ {p}) /\ c4 \in Seq(S \ {p})
      <4>1. q \in S \ {p} /\ r \in S \ {p} /\ s \in S \ {p} /\ "pua" \in S \ {p}
            /\ "&amp;" \in S \ {p}
        BY Zenon DEF Probing
      <4>2. /\ c2 = <<"pua", q, "&amp;", "pua">> /\ c3 = <<"pua", r, "&amp;", "pua">>
            /\ c4 = <<"pua", s, "&amp;", "pua">>
        BY <1>7, EscapedProbe, Zenon DEF Probing
      <4> HIDE DEF S, c2, c3, c4
      <4>3. /\ <<"pua", q, "&amp;", "pua">> \in Seq(S \ {p})
            /\ <<"pua", r, "&amp;", "pua">> \in Seq(S \ {p})
            /\ <<"pua", s, "&amp;", "pua">> \in Seq(S \ {p})
        BY ONLY <4>1, FourWords, Zenon
      <4> QED BY ONLY <4>2, <4>3, Zenon
    <3>4. y \in Seq(S \ {p})
      <4>1. Cat(k, Cat(c4, Closed)) \in Seq(S \ {p})
        <5> HIDE DEF x, g, h, k, S, c2, c3, c4
        <5> QED BY ONLY <3>2, <3>3, CatLaws
      <4> DEFINE v == Cat(k, Cat(c4, Closed))
      <4>2. v \in Seq(S \ {p})
        BY <4>1, Zenon
      <4> HIDE DEF x, g, h, k, S, c2, c3, c4, v
      <4>3. Cat(g, Cat(c2, Cat(h, Cat(c3, v)))) \in Seq(S \ {p})
        BY ONLY <3>2, <3>3, <4>2, CatLaws
      <4> QED BY ONLY <4>3 DEF v
    <3> QED BY ONLY <3>2, <3>4, Zenon
  <2>4. Find(text, u1) = 0
    <3>1. /\ "pua" \in S /\ p \in S /\ "&" \in S /\ "&amp;" \in S
          /\ p \notin {"pua", "&", "&amp;"} /\ "&" # "&amp;"
      BY Zenon DEF Probing
    <3> HIDE DEF S, x, y, text, u1, c1
    <3>2. Find(x \o (<<"pua", p, "&amp;", "pua">> \o y), <<"pua", p, "&", "pua">>) = 0
      BY ONLY <2>3, <3>1, FindNever, Zenon
    <3> QED BY ONLY <2>1, <2>2, <3>2, Zenon
  <2>5. ~Steady(text, u1, a1, u2, a2)
    <3> DEFINE z == <<Find(text, u1), Find(text, a1), Find(text, u2), Find(text, a2)>>
    <3>1. 1 \in DOMAIN z /\ z[1] = 0
      BY <2>4
    <3> HIDE DEF z
    <3>2. ~InOrder(z)
      BY <3>1 DEF InOrder
    <3> QED BY <3>2 DEF z, Steady
  <2> HIDE DEF text, u1, a1, u2, a2, spans
  <2>6. DeriveFromProbe(t, u1, a1, u2, a2) = {}
    BY <1>1, <2>5
  <2> QED BY ONLY <1>7, <2>6 DEF u1, a1, u2, a2
<1>8. CASE t.quirk = "macro"
  BY <1>1, <1>8
<1> QED BY <1>2, <1>5, <1>6, <1>7, <1>8

(* derive_conversation_template finds what the template writes around      *)
(* turns, for every template that can be probed, and nothing for one that  *)
(* escapes, that leaves a mark on the last answer, or does not render.     *)
THEOREM ShapeIs ==
    ASSUME NEW words, Marks \subseteq words, words \cap ProbeWords = {},
           NEW t \in Templates(words)
    PROVE  DeriveConversationTemplate(t) = IF t.quirk = "none" THEN {Shape(t)} ELSE {}
<1>1. Probing(words, "RPA1", "RPA2", "RPA3", "RPA4")
  BY DEF Probing, ProbeWords
<1>2. Probing(words, "RPB1", "RPB2", "RPB3", "RPB4")
  BY DEF Probing, ProbeWords
<1>3. DeriveFromProbe(t, Probe("RPA1"), Probe("RPA2"), Probe("RPA3"), Probe("RPA4")) =
      IF t.quirk = "none" THEN {Shape(t)} ELSE {}
  BY ONLY <1>1, t \in Templates(words), DeriveIs
<1>4. DeriveFromProbe(t, Probe("RPB1"), Probe("RPB2"), Probe("RPB3"), Probe("RPB4")) =
      IF t.quirk = "none" THEN {Shape(t)} ELSE {}
  BY ONLY <1>2, t \in Templates(words), DeriveIs
<1> QED BY <1>3, <1>4 DEF DeriveConversationTemplate

---------------------------------------------------------------------------
(* Capabilities                                                            *)

(* Texts without a word of a sentinel, and the words with those.           *)
Probeable(words) == Marks \subseteq words /\ words \cap ProbeWords = {}

(* The words, with those of sentinels.                                     *)
Wider(words) == words \cup ProbeWords \cup {"pua", "aup"}

(* A sentinel is told by its word.                                         *)
LEMMA SentinelIs ==
    ASSUME NEW w, w # "pua", w # "aup"
    PROVE  /\ Sole(Sentinel(w), w) /\ Len(Sentinel(w)) = 3
           /\ \A A : {w, "pua", "aup"} \subseteq A => Sentinel(w) \in Seq(A)
<1> DEFINE n == <<"pua", w, "aup">>
<1>1. Len(n) = 3 /\ n[1] = "pua" /\ n[2] = w /\ n[3] = "aup"
  OBVIOUS
<1>4. ASSUME NEW A, {w, "pua", "aup"} \subseteq A PROVE n \in Seq(A)
  <2>1. \A a, b, c \in A : <<a, b, c>> \in Seq(A)
    OBVIOUS
  <2> QED BY <1>4, <2>1
<1> HIDE DEF n
<1>2. 2 \in 1..Len(n) /\ \A j \in 1..Len(n) : n[j] = w => j = 2
  <2>1. \A j \in 1..Len(n) : j = 1 \/ j = 2 \/ j = 3
    BY <1>1
  <2> QED BY <1>1, <2>1
<1>3. Sole(n, w)
  BY <1>1, <1>2 DEF Sole
<1> QED BY <1>1, <1>3, <1>4 DEF n, Sentinel

(* The sentinels a conversation is probed with.                            *)
LEMMA SentinelsAre ==
    /\ Sole(PLAIN, "PLAIN") /\ Sole(USER, "USER") /\ Sole(RESULT, "RESULT")
    /\ Sole(RESULT2, "RESULTB") /\ Sole(REPLY, "REPLY") /\ Sole(NAME, "NAME")
    /\ \A A : {"pua", "aup", "PLAIN"} \subseteq A => PLAIN \in Seq(A)
    /\ \A A : {"pua", "aup", "USER"} \subseteq A => USER \in Seq(A)
    /\ \A A : {"pua", "aup", "RESULT"} \subseteq A => RESULT \in Seq(A)
    /\ \A A : {"pua", "aup", "RESULTB"} \subseteq A => RESULT2 \in Seq(A)
    /\ \A A : {"pua", "aup", "REPLY"} \subseteq A => REPLY \in Seq(A)
    /\ \A A : {"pua", "aup", "NAME"} \subseteq A => NAME \in Seq(A)
BY SentinelIs DEF PLAIN, USER, RESULT, RESULT2, REPLY, NAME

(* The system message of an option of system text.                         *)
SystemMessages(system) == Listed({Message("system", s) : s \in system})

(* An option as a list.                                                    *)
LEMMA ListedIs ==
    /\ Listed({}) = <<>>
    /\ \A x : Listed({x}) = <<x>>
BY DEF Listed, None, The

(* An option has nothing, or one thing.                                    *)
LEMMA OptionIs ==
    ASSUME NEW S, NEW option, IsOption(option, S)
    PROVE  option = {} \/ \E x \in S : option = {x}
BY DEF IsOption

(* It is one message, of that text, or none.                               *)
LEMMA SystemMessagesAre ==
    ASSUME NEW words, NEW system, IsOption(system, Seq(words))
    PROVE  /\ SystemMessages(system) \in Seq(Plain(words))
           /\ SystemTexts(SystemMessages(system)) = system
           /\ system = {} => SystemMessages(system) = <<>>
           /\ \A s \in system : SystemMessages(system) = <<Message("system", s)>>
<1>1. CASE system = {}
  <2>1. SystemMessages(system) = <<>>
    <3>1. {Message("system", s) : s \in system} = {}
      BY <1>1
    <3> QED BY <3>1, ListedIs DEF SystemMessages
  <2>2. SystemTexts(<<>>) = {}
    BY DEF SystemTexts
  <2>3. <<>> \in Seq(Plain(words))
    OBVIOUS
  <2> QED BY <1>1, <2>1, <2>2, <2>3
<1>2. ASSUME NEW s \in Seq(words), system = {s} PROVE
        /\ SystemMessages(system) = <<Message("system", s)>>
        /\ SystemMessages(system) \in Seq(Plain(words))
        /\ SystemTexts(SystemMessages(system)) = system
  <2> DEFINE x == Message("system", s)  m == <<x>>
  <2>1. SystemMessages(system) = m
    <3>1. {Message("system", z) : z \in system} = {x}
      BY <1>2
    <3> QED BY <3>1, ListedIs DEF SystemMessages
  <2>2. x \in Plain(words) /\ x.role = "system" /\ x.content = s
    BY DEF Message, Plain
  <2>3. m \in Seq(Plain(words)) /\ DOMAIN m = {1} /\ m[1] = x
    <3> DEFINE P == Plain(words)
    <3>1. x \in P
      BY <2>2
    <3> HIDE DEF P, x
    <3>2. m \in Seq(P) /\ DOMAIN m = {1} /\ m[1] = x
      BY <3>1
    <3> QED BY <3>2 DEF P
  <2> HIDE DEF x, m
  <2>4. SystemTexts(m) = {s}
    BY <2>2, <2>3 DEF SystemTexts
  <2> QED BY <1>2, <2>1, <2>3, <2>4 DEF x, m
<1> QED BY <1>1, <1>2, OptionIs

(* A message of another role carries no system text.                       *)
LEMMA TextsAppended ==
    ASSUME NEW words, NEW m \in Seq(Plain(words)), NEW x \in Plain(words), x.role # "system"
    PROVE  SystemTexts(Append(m, x)) = SystemTexts(m)
<1> DEFINE P == Plain(words)  n == Append(m, x)  k == Len(m) + 1
<1>1. m \in Seq(P) /\ x \in P
  OBVIOUS
<1>2. /\ Len(m) \in Nat /\ DOMAIN m = 1..Len(m) /\ DOMAIN n = 1..k /\ n[k] = x
      /\ \A i \in 1..Len(m) : n[i] = m[i]
  <2> HIDE DEF P
  <2> QED BY ONLY <1>1
<1> HIDE DEF n
<1>3. {j \in DOMAIN n : n[j].role = "system"} = {j \in DOMAIN m : m[j].role = "system"}
  BY <1>2
<1>4. \A i \in {j \in DOMAIN m : m[j].role = "system"} : n[i].content = m[i].content
  BY <1>2
<1>5. SystemTexts(n) = SystemTexts(m)
  BY <1>3, <1>4 DEF SystemTexts
<1> QED BY <1>5 DEF n

(* Append is to concatenate one more.                                      *)
LEMMA AppendOne ==
    ASSUME NEW S, NEW s \in Seq(S), NEW x \in S
    PROVE  s \o <<x>> = Append(s, x) /\ Append(s, x) \in Seq(S)
OBVIOUS

(* System text and a first message.                                        *)
FirstTurn(system, content) == SystemMessages(system) \o <<Message("user", content)>>

(* The template writes them so.                                            *)
LEMMA FirstTurnIs ==
    ASSUME NEW words, Marks \subseteq words, NEW t \in Templates(words),
           NEW system, IsOption(system, Seq(words)), NEW content \in Seq(words), NEW tools
    PROVE  /\ FirstTurn(system, content) \in Seq(Plain(words))
           /\ SystemTexts(FirstTurn(system, content)) = system
           /\ Whole(t, FirstTurn(system, content), tools) =
              Heading(t, system, tools) \o UserTurn(t, content)
<1> DEFINE sm == SystemMessages(system)  x == Message("user", content)
           m == FirstTurn(system, content)
<1>1. x \in Plain(words) /\ x.role = "user" /\ x.content = content
  BY DEF Message, Plain
<1>2. sm \in Seq(Plain(words)) /\ SystemTexts(sm) = system
  BY SystemMessagesAre
<1>3. t.lead \in Seq(words)
  BY DEF Templates
<1>4. Body(t, sm) = <<>>
  <2>1. Body(t, <<>>) = <<>> /\ \A z \in Plain(words) : z.role = "system" => Body(t, <<z>>) = <<>>
    BY <1>3, NoTurns
  <2>2. CASE system = {}
    BY <2>1, <2>2, SystemMessagesAre
  <2>3. ASSUME NEW s \in Seq(words), system = {s} PROVE Body(t, sm) = <<>>
    <3>1. sm = <<Message("system", s)>>
      BY <2>3, SystemMessagesAre
    <3>2. Message("system", s) \in Plain(words) /\ Message("system", s).role = "system"
      BY DEF Message, Plain
    <3> HIDE DEF sm
    <3> QED BY ONLY <2>1, <3>1, <3>2
  <2> QED BY <2>2, <2>3, OptionIs
<1> HIDE DEF sm, x
<1>5. m = Append(sm, x) /\ m \in Seq(Plain(words))
  <2> DEFINE P == Plain(words)
  <2>1. sm \in Seq(P) /\ x \in P
    BY <1>1, <1>2
  <2> HIDE DEF P
  <2>2. sm \o <<x>> = Append(sm, x) /\ Append(sm, x) \in Seq(P)
    BY ONLY <2>1, AppendOne
  <2> QED BY <2>2 DEF P, FirstTurn, sm, x
<1>6. SystemTexts(m) = system
  <2>1. SystemTexts(Append(sm, x)) = SystemTexts(sm)
    <3>1. x.role # "system"
      BY <1>1
    <3> QED BY ONLY <1>1, <1>2, <3>1, TextsAppended
  <2> QED BY ONLY <1>2, <1>5, <2>1
<1>7. Body(t, m) = UserTurn(t, content)
  <2>1. Body(t, Append(sm, x)) = Body(t, sm) \o UserTurn(t, x.content)
    <3>1. Marks \subseteq words
      OBVIOUS
    <3> QED BY ONLY <1>1, <1>2, <1>3, <3>1, UserAppended
  <2>2. UserTurn(t, content) \in Seq(words)
    BY UserTurnType
  <2>3. <<>> \o UserTurn(t, content) = UserTurn(t, content)
    BY <2>2, ConcatEmptySeq
  <2> QED BY ONLY <1>1, <1>4, <1>5, <2>1, <2>3
<1> QED BY <1>5, <1>6, <1>7 DEF Whole

(* What is rendered of it.                                                 *)
LEMMA FirstTurnRendered ==
    ASSUME NEW words, Marks \subseteq words, NEW t \in Templates(words),
           NEW system, IsOption(system, Seq(words)), NEW content \in Seq(words),
           NEW tools \in Lists(words)
    PROVE  Rendered(t, FirstTurn(system, content), tools) =
           IF Renders(t, system) THEN {Heading(t, system, tools) \o UserTurn(t, content)}
           ELSE {}
<1> DEFINE m == FirstTurn(system, content)
<1>1. /\ m \in Seq(Plain(words)) /\ SystemTexts(m) = system
      /\ Whole(t, m, tools) = Heading(t, system, tools) \o UserTurn(t, content)
  BY FirstTurnIs
<1>2. Rendered(t, m, tools) =
      IF Renders(t, SystemTexts(m)) THEN {Whole(t, m, tools)} ELSE {}
  <2> HIDE DEF m
  <2> QED BY <1>1, RenderIs
<1> HIDE DEF m
<1>3. Rendered(t, m, tools) =
      IF Renders(t, system) THEN {Heading(t, system, tools) \o UserTurn(t, content)} ELSE {}
  BY ONLY <1>1, <1>2
<1> QED BY <1>3 DEF m

(* The words of a text that is probed, and of those with sentinels.        *)
LEMMA WiderIs ==
    ASSUME NEW words, Probeable(words)
    PROVE  /\ Marks \subseteq Wider(words) /\ Marks \subseteq words
           /\ words \subseteq Wider(words)
           /\ Templates(words) \subseteq Templates(Wider(words))
           /\ \A w \in ProbeWords : words \subseteq Wider(words) \ {w}
<1>1. /\ Marks \subseteq words /\ words \subseteq Wider(words)
      /\ \A w \in ProbeWords : words \subseteq Wider(words) \ {w}
  BY DEF Probeable, Wider
<1>2. Marks \subseteq Wider(words)
  BY <1>1
<1> QED BY ONLY <1>1, <1>2, TemplatesWiden

(* Markup, of a text with sentinels or without.                            *)
LEMMA UserTurnOf ==
    ASSUME NEW t, t.quirk # "escape", NEW content
    PROVE  UserTurn(t, content) = Cat(Cat(Opened("user"), content), Closed)
BY DEF UserTurn, Escaped, Cat

(* A text in five parts, in which the second and the fourth are looked for.*)
FivePartsOf(S, a, b, c, d, e, f) ==
    a \in Seq(S) /\ b \in Seq(S) /\ c \in Seq(S) /\ d \in Seq(S) /\ e \in Seq(S) /\ f \in Seq(S)

(* A heading and a first turn, by their parts.                             *)
FiveParts(a, b, c, d, e, f) ==
    Cat(Cat(Cat(a, b), c), Cat(Cat(d, e), f)) = Cat(a, Cat(b, Cat(Cat(c, d), Cat(e, f))))

(* They can be regrouped so.                                               *)
LEMMA FiveRegrouped ==
    ASSUME NEW S, NEW a, NEW b, NEW c, NEW d, NEW e, NEW f, FivePartsOf(S, a, b, c, d, e, f)
    PROVE  FiveParts(a, b, c, d, e, f)
<1>0. a \in Seq(S) /\ b \in Seq(S) /\ c \in Seq(S) /\ d \in Seq(S) /\ e \in Seq(S) /\ f \in Seq(S)
  BY DEF FivePartsOf
<1> DEFINE ef == Cat(e, f)  ab == Cat(a, b)  cd == Cat(c, d)  de == Cat(d, e)
           def == Cat(d, ef)  w == Cat(cd, ef)
<1>1. ef \in Seq(S) /\ ab \in Seq(S) /\ cd \in Seq(S)
  BY ONLY <1>0, CatLaws
<1>2. def \in Seq(S) /\ w \in Seq(S)
  <2> HIDE DEF ef, cd
  <2> QED BY ONLY <1>0, <1>1, CatLaws DEF def, w
<1>3. Cat(de, f) = def
  BY ONLY <1>0, Shift DEF de, def, ef
<1>4. Cat(Cat(ab, c), def) = Cat(ab, Cat(c, def))
  <2> HIDE DEF ab, def
  <2> QED BY ONLY <1>0, <1>1, <1>2, Shift
<1>5. Cat(c, def) = w
  <2> HIDE DEF ef
  <2> QED BY ONLY <1>0, <1>1, Shift DEF def, w, cd
<1>6. Cat(ab, w) = Cat(a, Cat(b, w))
  <2> HIDE DEF w
  <2> QED BY ONLY <1>0, <1>2, Shift DEF ab
<1>7. Cat(Cat(ab, c), Cat(de, f)) = Cat(a, Cat(b, w))
  <2> HIDE DEF ef, ab, cd, de, def, w
  <2> QED BY ONLY <1>3, <1>4, <1>5, <1>6
<1> QED BY ONLY <1>7 DEF FiveParts, ab, de, w, cd, ef

(* Two in a row.                                                           *)
LEMMA PairIs ==
    ASSUME NEW x, NEW y
    PROVE  <<x>> \o <<y>> = <<x, y>>
<1> DEFINE T == {x, y}  s == <<x>>
<1>1. x \in T /\ y \in T
  OBVIOUS
<1> HIDE DEF T
<1>2. s \in Seq(T) /\ Append(s, y) = <<x, y>>
  <2>1. <<x>> \in Seq(T) /\ <<x, y>> = Append(<<x>>, y) /\ <<x, y>> \in Seq(T)
    BY ONLY <1>1
  <2> QED BY ONLY <2>1
<1> HIDE DEF s
<1>3. s \o <<y>> = Append(s, y)
  BY ONLY <1>1, <1>2, AppendOne
<1> QED BY <1>2, <1>3 DEF s

(* probe_system: a template takes system text exactly when it has a block  *)
(* for it.                                                                 *)
THEOREM SystemProbed ==
    ASSUME NEW words, Probeable(words), NEW t \in Templates(words), t.quirk = "none"
    PROVE  ProbeSystem(t) <=> t.system = "block"
<1> DEFINE S == Wider(words)  text == Heading(t, {PLAIN}, <<>>) \o UserTurn(t, USER)
<1>1. Marks \subseteq S /\ t \in Templates(S) /\ t.system \in {"block", "drop", "raise"}
  BY WiderIs DEF Templates
<1>2. IsOption({PLAIN}, Seq(S)) /\ USER \in Seq(S) /\ <<>> \in Lists(S)
  <2>1. {"pua", "aup", "PLAIN", "USER"} \subseteq S
    BY DEF Wider, ProbeWords
  <2>2. PLAIN \in Seq(S) /\ USER \in Seq(S)
    <3> HIDE DEF S
    <3> QED BY <2>1, SentinelsAre
  <2>3. <<>> \in Lists(S)
    BY DEF Lists
  <2> HIDE DEF S
  <2> QED BY ONLY <2>2, <2>3 DEF IsOption
<1>3. FirstTurn({PLAIN}, USER) = <<Message("system", PLAIN), Message("user", USER)>>
  <2>1. {Message("system", s) : s \in {PLAIN}} = {Message("system", PLAIN)}
    OBVIOUS
  <2>2. \A x, y : <<x>> \o <<y>> = <<x, y>>
    BY PairIs, Zenon
  <2> QED BY <2>1, <2>2, ListedIs DEF FirstTurn, SystemMessages
<1>4. Rendered(t, FirstTurn({PLAIN}, USER), <<>>) =
      IF Renders(t, {PLAIN}) THEN {text} ELSE {}
  <2> HIDE DEF S
  <2> QED BY ONLY <1>1, <1>2, FirstTurnRendered
<1>5. ProbeSystem(t) <=> Renders(t, {PLAIN}) /\ InOrder(<<Find(text, PLAIN), Find(text, USER)>>)
  <2> HIDE DEF text
  <2> QED BY <1>3, <1>4 DEF ProbeSystem
<1>6. Renders(t, {PLAIN}) <=> t.system # "raise"
  BY DEF Renders
<1>7. CASE t.system = "block"
  <2> DEFINE a == Opened("system")  c == Closed  o == Opened("user")
  <2>1. Heading(t, {PLAIN}, <<>>) = Cat(Cat(a, PLAIN), c)
    <3>1. SystemPart(t, {PLAIN}) = PLAIN /\ ToolsPart(t, <<>>) = <<>>
      BY <1>7 DEF SystemPart, ToolsPart, The
    <3>2. PLAIN \o <<>> = PLAIN /\ PLAIN # <<>>
      BY DEF PLAIN, Sentinel
    <3>3. Opened("system") \o PLAIN \o <<>> = Opened("system") \o PLAIN
      <4>1. Opened("system") \in Seq(S)
        BY <1>1, MarkTypes
      <4>2. PLAIN \in Seq(S)
        BY <1>2 DEF IsOption
      <4>3. Opened("system") \o PLAIN \in Seq(S)
        BY ONLY <4>1, <4>2, ConcatProperties
      <4> QED BY ONLY <4>3, ConcatEmptySeq
    <3>4. Heading(t, {PLAIN}, <<>>) = Opened("system") \o PLAIN \o <<>> \o Closed
      BY <3>1, <3>2 DEF Heading
    <3> QED BY ONLY <3>3, <3>4 DEF Cat
  <2>2. UserTurn(t, USER) = Cat(Cat(o, USER), c)
    BY <1>7, UserTurnOf
  <2>3. FivePartsOf(S, a, PLAIN, c, o, USER, c)
    <3>1. a \in Seq(S) /\ c \in Seq(S) /\ o \in Seq(S) /\ PLAIN \in Seq(S) /\ USER \in Seq(S)
      BY <1>1, <1>2, MarkTypes DEF IsOption
    <3> QED BY ONLY <3>1 DEF FivePartsOf
  <2>4. text = Cat(a, Cat(PLAIN, Cat(Cat(c, o), Cat(USER, c))))
    <3>1. FiveParts(a, PLAIN, c, o, USER, c)
      BY ONLY <2>3, FiveRegrouped
    <3>2. text = Cat(Cat(Cat(a, PLAIN), c), Cat(Cat(o, USER), c))
      BY ONLY <2>1, <2>2 DEF Cat
    <3> QED BY ONLY <3>1, <3>2 DEF FiveParts
  <2>5. Around(S, "PLAIN", "USER", a, PLAIN, Cat(c, o), USER, c)
    <3>1. a \in Seq(words) /\ c \in Seq(words) /\ o \in Seq(words)
      BY MarkTypes DEF Probeable
    <3>2. Cat(c, o) \in Seq(words)
      BY ONLY <3>1, CatLaws
    <3>3. words \subseteq S \ {"PLAIN", "USER"}
      BY DEF Wider, Probeable, ProbeWords
    <3>4. /\ a \in Seq(S \ {"PLAIN", "USER"}) /\ c \in Seq(S \ {"PLAIN", "USER"})
          /\ Cat(c, o) \in Seq(S \ {"PLAIN", "USER"})
      BY ONLY <3>1, <3>2, <3>3, SeqMonotonic
    <3>5. PLAIN \in Seq(S \ {"USER"}) /\ USER \in Seq(S \ {"PLAIN"})
      <4>1. /\ {"pua", "aup", "PLAIN"} \subseteq S \ {"USER"}
            /\ {"pua", "aup", "USER"} \subseteq S \ {"PLAIN"}
        BY DEF Wider, ProbeWords
      <4> HIDE DEF S
      <4> QED BY ONLY <4>1, SentinelsAre
    <3>6. Sole(PLAIN, "PLAIN") /\ Sole(USER, "USER") /\ "PLAIN" # "USER"
      BY SentinelsAre
    <3> HIDE DEF S, a, c, o
    <3> QED BY ONLY <3>4, <3>5, <3>6 DEF Around
  <2>6. Found(text, a, PLAIN, Cat(c, o), USER)
    <3> HIDE DEF S, a, c, o, text
    <3> QED BY ONLY <2>4, <2>5, GapFound
  <2>7. InOrder(<<Find(text, PLAIN), Find(text, USER)>>)
    <3> DEFINE fa == Find(text, PLAIN)  fb == Find(text, USER)
    <3>1. fa # 0 /\ fb # 0 /\ fa < fb
      BY ONLY <2>6 DEF Found
    <3> HIDE DEF fa, fb
    <3>2. InOrder(<<fa, fb>>)
      BY ONLY <3>1 DEF InOrder
    <3> QED BY ONLY <3>2 DEF fa, fb
  <2> QED BY <1>5, <1>6, <1>7, <2>7
<1>8. CASE t.system = "drop"
  <2>1. Heading(t, {PLAIN}, <<>>) \in Seq(S \ {"PLAIN"})
    <3>1. Heading(t, {PLAIN}, <<>>) = Heading(t, {}, <<>>)
      BY <1>8 DEF Heading, SystemPart
    <3>2. Heading(t, {}, <<>>) \in Seq(words)
      <4>1. {} \in SUBSET Seq(words) /\ <<>> \in Lists(words) /\ Marks \subseteq words
        BY DEF Lists, Probeable
      <4> QED BY <4>1, HeadingType
    <3>3. words \subseteq S \ {"PLAIN"}
      BY DEF Wider, Probeable, ProbeWords
    <3> HIDE DEF S
    <3> QED BY ONLY <3>1, <3>2, <3>3, SeqMonotonic
  <2>2. UserTurn(t, USER) \in Seq(S \ {"PLAIN"})
    <3>1. Marks \subseteq S \ {"PLAIN"} /\ {"pua", "aup", "USER"} \subseteq S \ {"PLAIN"}
      BY DEF Wider, Probeable, ProbeWords
    <3>2. USER \in Seq(S \ {"PLAIN"})
      BY ONLY <3>1, SentinelsAre
    <3> HIDE DEF S
    <3> QED BY ONLY <3>1, <3>2, UserTurnType
  <2>3. text \in Seq(S \ {"PLAIN"})
    BY ONLY <2>1, <2>2, ConcatProperties
  <2>4. Find(text, PLAIN) = 0
    <3>1. PLAIN \in Seq(S) /\ Sole(PLAIN, "PLAIN")
      BY <1>2, SentinelsAre DEF IsOption
    <3> HIDE DEF S, text
    <3> QED BY ONLY <2>3, <3>1, FindNone
  <2>5. ~InOrder(<<Find(text, PLAIN), Find(text, USER)>>)
    <3> DEFINE z == <<Find(text, PLAIN), Find(text, USER)>>
    <3>1. 1 \in DOMAIN z /\ z[1] = 0
      BY <2>4
    <3> HIDE DEF z
    <3>2. ~InOrder(z)
      BY <3>1 DEF InOrder
    <3> QED BY <3>2 DEF z
  <2> QED BY <1>5, <1>8, <2>5
<1>9. CASE t.system = "raise"
  BY <1>5, <1>6, <1>9
<1> QED BY <1>1, <1>7, <1>8, <1>9

(* What of a text is not a sentinel, without its word.                     *)
LEMMA UserTurnOfUser ==
    ASSUME NEW words, Probeable(words), NEW t, NEW w \in ProbeWords, w # "USER"
    PROVE  UserTurn(t, USER) \in Seq(Wider(words) \ {w})
<1> DEFINE S == Wider(words) \ {w}
<1>1. Marks \subseteq S /\ {"pua", "aup", "USER"} \subseteq S
  <2>1. Marks \subseteq S
    BY DEF Wider, Probeable
  <2>2. "USER" \in ProbeWords /\ "pua" \notin ProbeWords /\ "aup" \notin ProbeWords
    BY DEF ProbeWords
  <2>3. {"pua", "aup", "USER"} \subseteq S
    BY <2>2 DEF Wider
  <2> QED BY <2>1, <2>3
<1> HIDE DEF S
<1>2. USER \in Seq(S)
  BY ONLY <1>1, SentinelsAre
<1>3. UserTurn(t, USER) \in Seq(S)
  BY ONLY <1>1, <1>2, UserTurnType
<1> QED BY <1>3 DEF S

(* A template that lists tools is found to.                                *)
THEOREM ToolsProbed ==
    ASSUME NEW words, Probeable(words), NEW t \in Templates(words), t.quirk = "none", t.lists
    PROVE  ProbeTools(t)
<1> DEFINE S == Wider(words)  turn == UserTurn(t, USER)
           with == Heading(t, {}, <<NAME>>) \o turn  without == Heading(t, {}, <<>>) \o turn
<1>1. Marks \subseteq S /\ Marks \subseteq words /\ t \in Templates(S) /\ "NAME" \in ProbeWords
  BY WiderIs DEF ProbeWords
<1>2. {"pua", "aup", "NAME", "USER"} \subseteq S
  BY DEF Wider, ProbeWords
<1>3. NAME \in Seq(S) /\ USER \in Seq(S) /\ <<NAME>> \in Lists(S) /\ <<>> \in Lists(S)
  <2> HIDE DEF S
  <2>1. NAME \in Seq(S) /\ USER \in Seq(S)
    BY <1>2, SentinelsAre
  <2> QED BY <2>1 DEF Lists
<1>4. FirstTurn({}, USER) = <<Message("user", USER)>>
  <2>1. {Message("system", s) : s \in {}} = {}
    OBVIOUS
  <2>2. \A x : <<>> \o <<x>> = <<x>>
    OBVIOUS
  <2> QED BY <2>1, <2>2, ListedIs DEF FirstTurn, SystemMessages
<1>5. Renders(t, {}) /\ IsOption({}, Seq(S))
  BY DEF Renders, IsOption
<1>6. /\ Rendered(t, FirstTurn({}, USER), <<NAME>>) = {with}
      /\ Rendered(t, FirstTurn({}, USER), <<>>) = {without}
  <2> HIDE DEF S
  <2>1. Rendered(t, FirstTurn({}, USER), <<NAME>>) =
        IF Renders(t, {}) THEN {with} ELSE {}
    BY ONLY <1>1, <1>3, <1>5, FirstTurnRendered
  <2>2. Rendered(t, FirstTurn({}, USER), <<>>) =
        IF Renders(t, {}) THEN {without} ELSE {}
    BY ONLY <1>1, <1>3, <1>5, FirstTurnRendered
  <2> QED BY <1>5, <2>1, <2>2
<1>7. turn \in Seq(S \ {"NAME"})
  BY ONLY <1>1, Probeable(words), UserTurnOfUser, "NAME" # "USER"
<1>8. Has(with, NAME)
  <2> DEFINE a == Opened("system")  p == t.preamble  o == Tag("tools")  e == Tag("/tools")
             c == Closed  x == Cat(Cat(a, p), o)  y == Cat(Cat(e, c), turn)
  <2>1. a \in Seq(words) /\ p \in Seq(words) /\ o \in Seq(words) /\ e \in Seq(words) /\ c \in Seq(words)
    BY <1>1, MarkTypes DEF Templates
  <2>2. /\ a \in Seq(S) /\ p \in Seq(S) /\ o \in Seq(S) /\ e \in Seq(S) /\ c \in Seq(S)
        /\ turn \in Seq(S)
    <3>1. words \subseteq S /\ S \ {"NAME"} \subseteq S
      BY WiderIs
    <3> HIDE DEF a, p, o, e, c, S, turn
    <3> QED BY ONLY <1>7, <2>1, <3>1, SeqMonotonic
  <2>3. x \in Seq(S \ {"NAME"}) /\ y \in Seq(S \ {"NAME"})
    <3>1. words \subseteq S \ {"NAME"}
      BY <1>1, WiderIs
    <3>2. Cat(Cat(a, p), o) \in Seq(words) /\ Cat(e, c) \in Seq(words)
      BY ONLY <2>1, CatLaws
    <3>3. x \in Seq(S \ {"NAME"}) /\ Cat(e, c) \in Seq(S \ {"NAME"})
      BY ONLY <3>1, <3>2, SeqMonotonic
    <3> HIDE DEF a, p, o, e, c, S, turn
    <3> QED BY ONLY <1>7, <3>3, CatLaws
  <2>4. with = Cat(Cat(Cat(Cat(a, p), Cat(Cat(o, NAME), e)), c), turn)
    <3>1. SystemPart(t, {}) = p /\ ToolsPart(t, <<NAME>>) = Cat(Cat(o, NAME), e)
      <4>1. FlattenSeq(<<NAME>>) = NAME
        <5>1. FewOf(S, NAME, NAME, NAME, NAME)
          BY ONLY <1>3 DEF FewOf
        <5>2. FewFlat(NAME, NAME, NAME, NAME)
          BY ONLY <5>1, FlattenFew
        <5> QED BY ONLY <5>2 DEF FewFlat
      <4>2. <<NAME>> # <<>>
        OBVIOUS
      <4> QED BY <4>1, <4>2 DEF SystemPart, ToolsPart, Cat
    <3>2. p \o Cat(Cat(o, NAME), e) # <<>>
      <4>1. Cat(Cat(o, NAME), e) \in Seq(S) /\ Cat(o, NAME) \in Seq(S)
        BY ONLY <1>3, <2>2, CatLaws
      <4>2. Len(Cat(Cat(o, NAME), e)) = Len(o) + Len(NAME) + Len(e)
        <5>1. Len(Cat(o, NAME)) = Len(o) + Len(NAME)
          BY ONLY <1>3, <2>2, Halves DEF Cat
        <5> DEFINE q == Cat(o, NAME)
        <5>2. q \in Seq(S)
          BY <4>1
        <5> HIDE DEF q
        <5>3. Len(Cat(q, e)) = Len(q) + Len(e)
          BY ONLY <5>2, <2>2, Halves DEF Cat
        <5> QED BY ONLY <5>1, <5>3 DEF q
      <4>3. Len(o) = 3 /\ Len(e) = 3 /\ Len(NAME) = 3
        BY DEF Tag, NAME, Sentinel
      <4> DEFINE q == Cat(Cat(o, NAME), e)
      <4>4. Len(q) = 9
        <5> DEFINE l == Len(q)  lo == Len(o)  ln == Len(NAME)  le == Len(e)
        <5>1. l = lo + ln + le /\ lo = 3 /\ ln = 3 /\ le = 3
          BY ONLY <4>2, <4>3
        <5> HIDE DEF l, lo, ln, le
        <5>2. l = 9
          BY ONLY <5>1
        <5> QED BY <5>2 DEF l
      <4>8. q \in Seq(S) /\ p \in Seq(S)
        BY ONLY <2>2, <4>1
      <4> HIDE DEF p, q, S
      <4>5. Len(p \o q) = Len(p) + Len(q) /\ Len(p) \in Nat
        BY ONLY <4>8, Halves
      <4>6. Len(p \o q) # 0
        BY ONLY <4>4, <4>5
      <4>7. p \o q # <<>>
        BY ONLY <4>6
      <4> QED BY <4>7 DEF q
    <3>3. Heading(t, {}, <<NAME>>) = Opened("system") \o p \o Cat(Cat(o, NAME), e) \o Closed
      BY ONLY <3>1, <3>2 DEF Heading
    <3> QED BY ONLY <3>3 DEF Cat
  <2>5. with = Cat(x, Cat(NAME, y))
    <3> DEFINE ap == Cat(a, p)  on == Cat(o, NAME)  ct == Cat(c, turn)  ect == Cat(e, ct)
               one == Cat(on, e)
    <3>1. ap \in Seq(S) /\ on \in Seq(S) /\ ct \in Seq(S)
      BY ONLY <1>3, <2>2, CatLaws
    <3>2. one \in Seq(S) /\ ect \in Seq(S)
      <4> HIDE DEF on, ct
      <4> QED BY ONLY <2>2, <3>1, CatLaws DEF one, ect
    <3>3. Cat(Cat(Cat(ap, one), c), turn) = Cat(Cat(ap, one), ct)
      <4> DEFINE q == Cat(ap, one)
      <4>1. q \in Seq(S)
        <5> HIDE DEF ap, one
        <5> QED BY ONLY <3>1, <3>2, CatLaws DEF q
      <4> HIDE DEF q, a, p, o, e, c, S, turn
      <4>2. Cat(Cat(q, c), turn) = Cat(q, Cat(c, turn))
        BY ONLY <4>1, <2>2, Shift
      <4> QED BY ONLY <4>2 DEF q, ct
    <3>4. Cat(Cat(ap, one), ct) = Cat(ap, Cat(one, ct))
      <4> HIDE DEF ap, one, ct
      <4> QED BY ONLY <3>1, <3>2, Shift
    <3>5. Cat(one, ct) = Cat(on, ect)
      <4> HIDE DEF on, ct, e, S
      <4> QED BY ONLY <2>2, <3>1, Shift DEF one, ect
    <3>6. Cat(on, ect) = Cat(o, Cat(NAME, ect))
      <4> HIDE DEF ect, o, S
      <4> QED BY ONLY <1>3, <2>2, <3>2, Shift DEF on
    <3>7. Cat(ap, Cat(o, Cat(NAME, ect))) = Cat(x, Cat(NAME, ect))
      <4> DEFINE q == Cat(NAME, ect)
      <4>1. q \in Seq(S)
        <5> HIDE DEF ect
        <5> QED BY ONLY <1>3, <3>2, CatLaws DEF q
      <4> HIDE DEF q, ap, o, S
      <4>2. Cat(Cat(ap, o), q) = Cat(ap, Cat(o, q))
        BY ONLY <2>2, <3>1, <4>1, Shift
      <4> QED BY ONLY <4>2 DEF q, x, ap
    <3>8. ect = y
      <4> HIDE DEF e, c, turn, S
      <4>1. Cat(Cat(e, c), turn) = Cat(e, Cat(c, turn))
        BY ONLY <2>2, Shift
      <4> QED BY ONLY <4>1 DEF ect, ct, y
    <3>9. with = Cat(Cat(Cat(ap, one), c), turn)
      BY ONLY <2>4 DEF ap, one, on
    <3> HIDE DEF ap, on, ct, ect, one, x, y, with, turn, a, p, o, e, c
    <3> QED BY ONLY <3>3, <3>4, <3>5, <3>6, <3>7, <3>8, <3>9
  <2>6. Sole(NAME, "NAME")
    BY SentinelsAre
  <2> HIDE DEF x, y, with, S
  <2>7. Has(x \o (NAME \o y), NAME)
    BY ONLY <1>3, <2>3, <2>6, FindSole
  <2> QED BY ONLY <2>5, <2>7 DEF Cat
<1>9. ~Has(without, NAME)
  <2>1. Heading(t, {}, <<>>) \in Seq(S \ {"NAME"})
    <3>1. {} \in SUBSET Seq(words) /\ <<>> \in Lists(words) /\ Marks \subseteq words
      BY <1>1 DEF Lists
    <3>2. Heading(t, {}, <<>>) \in Seq(words)
      BY <3>1, HeadingType
    <3>3. words \subseteq S \ {"NAME"}
      BY <1>1, WiderIs
    <3> HIDE DEF S
    <3> QED BY ONLY <3>2, <3>3, SeqMonotonic
  <2>2. without \in Seq(S \ {"NAME"})
    <3> HIDE DEF S, turn
    <3> QED BY ONLY <1>7, <2>1, ConcatProperties DEF without
  <2>3. Sole(NAME, "NAME")
    BY SentinelsAre
  <2> HIDE DEF S, without
  <2> QED BY ONLY <1>3, <2>2, <2>3, FindNone
<1> HIDE DEF with, without
<1>10. with # without
  BY <1>8, <1>9
<1> QED BY <1>4, <1>6, <1>8, <1>10 DEF ProbeTools

(* A template that drops tool messages is found to.                        *)
LEMMA ResultsProbed ==
    ASSUME NEW words, Probeable(words), NEW t \in Templates(words), t.quirk = "none",
           t.results # "role"
    PROVE  ~ProbeToolResults(t)
<1> DEFINE S == Wider(words)  A == S \ {"RESULT"}
           M1 == Message("user", USER)  M2 == Message("assistant", PLAIN)
           M3 == Message("tool", RESULT)  m == <<M1, M2, M3>>
<1>1. Marks \subseteq S /\ t \in Templates(S) /\ t.lead \in Seq(words) /\ Marks \subseteq A
      /\ words \subseteq A
  BY WiderIs DEF Templates, Wider, Probeable, ProbeWords
<1>2. {"pua", "aup", "USER", "PLAIN"} \subseteq A
      /\ {"pua", "aup", "USER", "PLAIN", "RESULT"} \subseteq S
  BY DEF Wider, ProbeWords
<1>3. USER \in Seq(A) /\ PLAIN \in Seq(A) /\ USER \in Seq(S) /\ PLAIN \in Seq(S) /\ RESULT \in Seq(S)
  <2> HIDE DEF S, A
  <2> QED BY ONLY <1>2, SentinelsAre
<1>4. M1 \in Plain(S) /\ M2 \in Plain(S) /\ M3 \in Plain(S)
  <2> HIDE DEF S, A
  <2> QED BY ONLY <1>3 DEF Message, Plain
<1>5. /\ m \in Seq(Plain(S)) /\ DOMAIN m = 1..3 /\ m[1] = M1 /\ m[2] = M2 /\ m[3] = M3
  <2> DEFINE P == Plain(S)
  <2>1. M1 \in P /\ M2 \in P /\ M3 \in P
    BY <1>4
  <2> HIDE DEF P, M1, M2, M3
  <2>2. m \in Seq(P) /\ DOMAIN m = 1..3 /\ m[1] = M1 /\ m[2] = M2 /\ m[3] = M3
    BY ONLY <2>1
  <2> QED BY ONLY <2>2 DEF P
<1>6. /\ m[1].role = "user" /\ m[2].role = "assistant" /\ m[3].role = "tool"
      /\ m[1].content = USER /\ m[2].content = PLAIN
  <2> HIDE DEF m
  <2> QED BY <1>5 DEF Message
<1> HIDE DEF m, M1, M2, M3
<1>7. \A i \in DOMAIN m : Turn(t, m, i) \in Seq(A)
  <2> HIDE DEF S, A
  <2>1. Turn(t, m, 1) \in Seq(A)
    <3>1. Turn(t, m, 1) = UserTurn(t, USER)
      BY <1>6, UserTurnIs
    <3> QED BY ONLY <1>1, <1>3, <3>1, UserTurnType
  <2>2. Turn(t, m, 2) \in Seq(A)
    <3>1. 2 \in DOMAIN m
      BY <1>5
    <3>2. t.lead \in Seq(S) /\ t.lead \in Seq(A)
      BY <1>1, SeqMonotonic DEF Templates
    <3>3. Turn(t, m, 2) = TurnText(t, m[2], RoleAt(m, 2 - 1), RoleAt(m, 2 + 1), LastAnswer(m, 2))
      BY ONLY <1>1, <1>5, <3>1, <3>2, TurnIs
    <3>4. Turn(t, m, 2) = AnswerTurn(t, PLAIN, RoleAt(m, 2 - 1), RoleAt(m, 2 + 1), LastAnswer(m, 2))
      BY ONLY <1>6, <3>3 DEF TurnText
    <3> QED BY ONLY <1>1, <1>3, <3>2, <3>4, AnswerTurnType
  <2>3. Turn(t, m, 3) \in Seq(A)
    <3>1. Turn(t, m, 3) = ToolTurn(t, m[3].content, RoleAt(m, 3 - 1), RoleAt(m, 3 + 1))
      BY <1>6, ToolTurnIs
    <3>2. Turn(t, m, 3) = <<>>
      BY <3>1 DEF ToolTurn
    <3>3. <<>> \in Seq(A)
      OBVIOUS
    <3> QED BY ONLY <3>2, <3>3
  <2> QED BY <1>5, <2>1, <2>2, <2>3
<1>8. Body(t, m) \in Seq(A)
  <2> HIDE DEF S, A
  <2>1. Turns(t, m) \in [1..3 -> Seq(A)]
    BY <1>5, <1>7 DEF Turns
  <2>2. Turns(t, m) \in Seq(Seq(A))
    <3> DEFINE f == Turns(t, m)  T == Seq(A)  n == 3
    <3>1. f \in [1..n -> T] /\ n \in Nat
      BY <2>1
    <3> HIDE DEF f, T, n
    <3>2. f \in Seq(T)
      BY ONLY <3>1
    <3> QED BY ONLY <3>2 DEF f, T
  <2> QED BY ONLY <2>2, FlattenType DEF Body
<1>9. SystemTexts(m) = {}
  BY <1>5, <1>6 DEF SystemTexts
<1>10. Heading(t, {}, <<>>) \in Seq(A)
  <2>1. {} \in SUBSET Seq(words) /\ <<>> \in Lists(words) /\ Marks \subseteq words
    BY DEF Lists, Probeable
  <2>2. Heading(t, {}, <<>>) \in Seq(words)
    BY <2>1, HeadingType
  <2> HIDE DEF A
  <2> QED BY ONLY <1>1, <2>2, SeqMonotonic
<1>11. Whole(t, m, <<>>) \in Seq(A)
  <2> HIDE DEF A
  <2>1. Heading(t, {}, <<>>) \o Body(t, m) \in Seq(A)
    BY ONLY <1>8, <1>10, ConcatProperties
  <2> QED BY <1>9, <2>1 DEF Whole
<1>12. Rendered(t, m, <<>>) \subseteq {Whole(t, m, <<>>)}
  <2>1. <<>> \in Lists(S)
    BY DEF Lists
  <2>2. Rendered(t, m, <<>>) =
        IF Renders(t, SystemTexts(m)) THEN {Whole(t, m, <<>>)} ELSE {}
    BY ONLY <1>1, <1>5, <2>1, RenderIs
  <2> QED BY <2>2
<1>13. Find(Whole(t, m, <<>>), RESULT) = 0
  <2> HIDE DEF S
  <2>1. Sole(RESULT, "RESULT")
    BY SentinelsAre
  <2> QED BY ONLY <1>3, <1>11, <2>1, FindNone
<1>14. ASSUME NEW text \in Rendered(t, m, <<>>)
       PROVE  ~InOrder(<<Find(text, PLAIN), Find(text, RESULT)>>)
  <2> DEFINE z == <<Find(text, PLAIN), Find(text, RESULT)>>
  <2>1. 2 \in DOMAIN z /\ z[2] = 0
    BY <1>12, <1>13
  <2> HIDE DEF z
  <2>2. ~InOrder(z)
    BY <2>1 DEF InOrder
  <2> QED BY <2>2 DEF z
<1> QED BY <1>14 DEF ProbeToolResults, m, M1, M2, M3

(* A probe of results, by its parts. *)
SpansOf(S, h, u, b, p, c, f, r, s, q, e, y) ==
    /\ h \in Seq(S) /\ u \in Seq(S) /\ b \in Seq(S) /\ p \in Seq(S)
    /\ c \in Seq(S) /\ f \in Seq(S) /\ r \in Seq(S) /\ s \in Seq(S)
    /\ q \in Seq(S) /\ e \in Seq(S) /\ y \in Seq(S)

(* The transcript of the probe for results, by its parts.                  *)
SpansSame(h, u, b, p, c, f, r, s, q, e, y) ==
    Cat(h, Cat(Cat(Cat(u, Cat(Cat(b, p), c)), Cat(Cat(Cat(f, Cat(r, Cat(s, q))), e), c)),
           Cat(Cat(b, y), c))) =
    Cat(Cat(Cat(h, u), b), Cat(p, Cat(Cat(c, f),
                                Cat(r, Cat(s, Cat(q, Cat(Cat(e, Cat(c, b)), Cat(y, c))))))))

(* They can be regrouped so.                                               *)
LEMMA SpansRegrouped ==
    ASSUME NEW S, NEW h, NEW u, NEW b, NEW p, NEW c, NEW f, NEW r, NEW s, NEW q, NEW e, NEW y,
           SpansOf(S, h, u, b, p, c, f, r, s, q, e, y)
    PROVE  SpansSame(h, u, b, p, c, f, r, s, q, e, y)
<1>0. /\ h \in Seq(S) /\ u \in Seq(S) /\ b \in Seq(S) /\ p \in Seq(S)
      /\ c \in Seq(S) /\ f \in Seq(S) /\ r \in Seq(S) /\ s \in Seq(S)
      /\ q \in Seq(S) /\ e \in Seq(S) /\ y \in Seq(S)
  BY DEF SpansOf
<1> DEFINE n1 == Cat(b, p)  n2 == Cat(n1, c)  n3 == Cat(u, n2)  n4 == Cat(s, q)
           n5 == Cat(r, n4)  n6 == Cat(f, n5)  n7 == Cat(n6, e)  n8 == Cat(n7, c)
           n9 == Cat(n3, n8)  n10 == Cat(b, y)  n11 == Cat(n10, c)  n12 == Cat(n9, n11)
           n13 == Cat(h, n12)  n14 == Cat(y, c)  n15 == Cat(b, n14)  n16 == Cat(c, n15)
           n17 == Cat(e, n16)  n18 == Cat(q, n17)  n19 == Cat(s, n18)  n20 == Cat(r, n19)
           n21 == Cat(f, n20)  n22 == Cat(c, n21)  n23 == Cat(p, n22)  n24 == Cat(b, n23)
           n25 == Cat(u, n24)  n26 == Cat(h, n25)  n27 == Cat(h, u)  n28 == Cat(n27, b)
           n29 == Cat(c, f)  n30 == Cat(c, b)  n31 == Cat(e, n30)  n32 == Cat(n31, n14)
           n33 == Cat(q, n32)  n34 == Cat(s, n33)  n35 == Cat(r, n34)  n36 == Cat(n29, n35)
           n37 == Cat(p, n36)  n38 == Cat(n28, n37)
<1>1. /\ n1 = Cat(b, p) /\ n2 = Cat(n1, c) /\ n3 = Cat(u, n2)
      /\ n4 = Cat(s, q) /\ n5 = Cat(r, n4) /\ n6 = Cat(f, n5)
      /\ n7 = Cat(n6, e) /\ n8 = Cat(n7, c) /\ n9 = Cat(n3, n8)
      /\ n10 = Cat(b, y) /\ n11 = Cat(n10, c) /\ n12 = Cat(n9, n11)
      /\ n13 = Cat(h, n12) /\ n14 = Cat(y, c) /\ n15 = Cat(b, n14)
      /\ n16 = Cat(c, n15) /\ n17 = Cat(e, n16) /\ n18 = Cat(q, n17)
      /\ n19 = Cat(s, n18) /\ n20 = Cat(r, n19) /\ n21 = Cat(f, n20)
      /\ n22 = Cat(c, n21) /\ n23 = Cat(p, n22) /\ n24 = Cat(b, n23)
      /\ n25 = Cat(u, n24) /\ n26 = Cat(h, n25) /\ n27 = Cat(h, u)
      /\ n28 = Cat(n27, b) /\ n29 = Cat(c, f) /\ n30 = Cat(c, b)
      /\ n31 = Cat(e, n30) /\ n32 = Cat(n31, n14) /\ n33 = Cat(q, n32)
      /\ n34 = Cat(s, n33) /\ n35 = Cat(r, n34) /\ n36 = Cat(n29, n35)
      /\ n37 = Cat(p, n36) /\ n38 = Cat(n28, n37)
  OBVIOUS
<1> HIDE DEF n1, n2, n3, n4, n5, n6, n7, n8, n9, n10, n11, n12, n13, n14, n15, n16, n17, n18,
             n19, n20, n21,
             n22, n23, n24, n25, n26, n27, n28, n29, n30, n31, n32, n33, n34, n35, n36, n37, n38
<1>2. /\ n1 \in Seq(S) /\ n4 \in Seq(S) /\ n10 \in Seq(S) /\ n14 \in Seq(S) /\ n27 \in Seq(S)
       /\ n29 \in Seq(S) /\ n30 \in Seq(S)
  BY ONLY <1>1, <1>0, CatLaws
<1>3. /\ n2 \in Seq(S) /\ n5 \in Seq(S) /\ n11 \in Seq(S) /\ n15 \in Seq(S) /\ n28 \in Seq(S)
       /\ n31 \in Seq(S)
  BY ONLY <1>1, <1>0, <1>2, CatLaws
<1>4. /\ n3 \in Seq(S) /\ n6 \in Seq(S) /\ n16 \in Seq(S) /\ n32 \in Seq(S)
  BY ONLY <1>1, <1>0, <1>2, <1>3, CatLaws
<1>5. /\ n7 \in Seq(S) /\ n17 \in Seq(S) /\ n33 \in Seq(S)
  BY ONLY <1>1, <1>0, <1>4, CatLaws
<1>6. /\ n8 \in Seq(S) /\ n18 \in Seq(S) /\ n34 \in Seq(S)
  BY ONLY <1>1, <1>0, <1>5, CatLaws
<1>7. /\ n9 \in Seq(S) /\ n19 \in Seq(S) /\ n35 \in Seq(S)
  BY ONLY <1>1, <1>0, <1>4, <1>6, CatLaws
<1>8. /\ n12 \in Seq(S) /\ n20 \in Seq(S) /\ n36 \in Seq(S)
  BY ONLY <1>1, <1>0, <1>2, <1>3, <1>7, CatLaws
<1>9. /\ n13 \in Seq(S) /\ n21 \in Seq(S) /\ n37 \in Seq(S)
  BY ONLY <1>1, <1>0, <1>8, CatLaws
<1>10. /\ n22 \in Seq(S) /\ n38 \in Seq(S)
  BY ONLY <1>1, <1>0, <1>3, <1>9, CatLaws
<1>11. /\ n23 \in Seq(S)
  BY ONLY <1>1, <1>0, <1>10, CatLaws
<1>12. /\ n24 \in Seq(S)
  BY ONLY <1>1, <1>0, <1>11, CatLaws
<1>13. /\ n25 \in Seq(S)
  BY ONLY <1>1, <1>0, <1>12, CatLaws
<1>14. /\ n26 \in Seq(S)
  BY ONLY <1>1, <1>0, <1>13, CatLaws
<1>15. Cat(Cat(b, y), c) = Cat(b, Cat(y, c))
  <2>1. b \in Seq(S) /\ y \in Seq(S) /\ c \in Seq(S)
    BY ONLY <1>0
  <2> QED BY ONLY <2>1, Shift
<1>16. Cat(Cat(n3, n8), n15) = Cat(n3, Cat(n8, n15))
  <2>1. n3 \in Seq(S) /\ n8 \in Seq(S) /\ n15 \in Seq(S)
    BY ONLY <1>0, <1>4, <1>6, <1>3
  <2> QED BY ONLY <2>1, Shift
<1>17. Cat(Cat(n7, c), n15) = Cat(n7, Cat(c, n15))
  <2>1. n7 \in Seq(S) /\ c \in Seq(S) /\ n15 \in Seq(S)
    BY ONLY <1>0, <1>5, <1>3
  <2> QED BY ONLY <2>1, Shift
<1>18. Cat(Cat(n6, e), n16) = Cat(n6, Cat(e, n16))
  <2>1. n6 \in Seq(S) /\ e \in Seq(S) /\ n16 \in Seq(S)
    BY ONLY <1>0, <1>4, <1>4
  <2> QED BY ONLY <2>1, Shift
<1>19. Cat(Cat(f, n5), n17) = Cat(f, Cat(n5, n17))
  <2>1. f \in Seq(S) /\ n5 \in Seq(S) /\ n17 \in Seq(S)
    BY ONLY <1>0, <1>3, <1>5
  <2> QED BY ONLY <2>1, Shift
<1>20. Cat(Cat(r, n4), n17) = Cat(r, Cat(n4, n17))
  <2>1. r \in Seq(S) /\ n4 \in Seq(S) /\ n17 \in Seq(S)
    BY ONLY <1>0, <1>2, <1>5
  <2> QED BY ONLY <2>1, Shift
<1>21. Cat(Cat(s, q), n17) = Cat(s, Cat(q, n17))
  <2>1. s \in Seq(S) /\ q \in Seq(S) /\ n17 \in Seq(S)
    BY ONLY <1>0, <1>5
  <2> QED BY ONLY <2>1, Shift
<1>22. Cat(Cat(u, n2), n21) = Cat(u, Cat(n2, n21))
  <2>1. u \in Seq(S) /\ n2 \in Seq(S) /\ n21 \in Seq(S)
    BY ONLY <1>0, <1>3, <1>9
  <2> QED BY ONLY <2>1, Shift
<1>23. Cat(Cat(n1, c), n21) = Cat(n1, Cat(c, n21))
  <2>1. n1 \in Seq(S) /\ c \in Seq(S) /\ n21 \in Seq(S)
    BY ONLY <1>0, <1>2, <1>9
  <2> QED BY ONLY <2>1, Shift
<1>24. Cat(Cat(b, p), n22) = Cat(b, Cat(p, n22))
  <2>1. b \in Seq(S) /\ p \in Seq(S) /\ n22 \in Seq(S)
    BY ONLY <1>0, <1>10
  <2> QED BY ONLY <2>1, Shift
<1>25. Cat(Cat(e, n30), n14) = Cat(e, Cat(n30, n14))
  <2>1. e \in Seq(S) /\ n30 \in Seq(S) /\ n14 \in Seq(S)
    BY ONLY <1>0, <1>2, <1>2
  <2> QED BY ONLY <2>1, Shift
<1>26. Cat(Cat(c, b), n14) = Cat(c, Cat(b, n14))
  <2>1. c \in Seq(S) /\ b \in Seq(S) /\ n14 \in Seq(S)
    BY ONLY <1>0, <1>2
  <2> QED BY ONLY <2>1, Shift
<1>27. Cat(Cat(c, f), n20) = Cat(c, Cat(f, n20))
  <2>1. c \in Seq(S) /\ f \in Seq(S) /\ n20 \in Seq(S)
    BY ONLY <1>0, <1>8
  <2> QED BY ONLY <2>1, Shift
<1>28. Cat(Cat(n27, b), n23) = Cat(n27, Cat(b, n23))
  <2>1. n27 \in Seq(S) /\ b \in Seq(S) /\ n23 \in Seq(S)
    BY ONLY <1>0, <1>2, <1>11
  <2> QED BY ONLY <2>1, Shift
<1>29. Cat(Cat(h, u), n24) = Cat(h, Cat(u, n24))
  <2>1. h \in Seq(S) /\ u \in Seq(S) /\ n24 \in Seq(S)
    BY ONLY <1>0, <1>12
  <2> QED BY ONLY <2>1, Shift
<1> QED BY ONLY <1>1, <1>15, <1>16, <1>17, <1>18, <1>19, <1>20, <1>21, <1>22, <1>23, <1>24,
                   <1>25, <1>26, <1>27,
                <1>28, <1>29 DEF SpansSame

(* Five messages, one by one.                                              *)
LEMMA FiveAre ==
    ASSUME NEW T, NEW a \in T, NEW b \in T, NEW c \in T, NEW d \in T, NEW e \in T
    PROVE  /\ <<a, b, c, d, e>> = Append(<<a, b>> \o <<c, d>>, e)
           /\ <<a, b>> = Append(Append(<<>>, a), b)
           /\ <<a, b>> \in Seq(T) /\ <<c, d>> \in Seq(T)
<1>1. <<a, b>> \in Seq(T) /\ Len(<<a, b>>) = 2 /\ <<a, b>>[1] = a /\ <<a, b>>[2] = b
  OBVIOUS
<1>2. <<c, d>> \in Seq(T) /\ Len(<<c, d>>) = 2 /\ <<c, d>>[1] = c /\ <<c, d>>[2] = d
  OBVIOUS
<1>3. <<a, b>> = Append(Append(<<>>, a), b)
  OBVIOUS
<1>4. /\ <<a, b, c, d, e>> \in Seq(T) /\ Len(<<a, b, c, d, e>>) = 5
      /\ <<a, b, c, d, e>>[1] = a /\ <<a, b, c, d, e>>[2] = b /\ <<a, b, c, d, e>>[3] = c
      /\ <<a, b, c, d, e>>[4] = d /\ <<a, b, c, d, e>>[5] = e
  OBVIOUS
<1> DEFINE p == <<a, b>>  q == <<c, d>>  five == <<a, b, c, d, e>>  pq == p \o q  n == Append(pq, e)
<1> HIDE DEF p, q, five
<1>5. pq \in Seq(T) /\ Len(pq) = 4 /\ pq[1] = a /\ pq[2] = b /\ pq[3] = c /\ pq[4] = d
  <2>1. p \in Seq(T) /\ q \in Seq(T) /\ Len(p) = 2 /\ Len(q) = 2
    BY <1>1, <1>2 DEF p, q
  <2>6. p \in Seq(T) /\ q \in Seq(T)
    BY ONLY <2>1
  <2>2. /\ p \o q \in Seq(T) /\ Len(p \o q) = Len(p) + Len(q)
        /\ \A i \in 1..Len(p) : (p \o q)[i] = p[i]
        /\ \A i \in 1..Len(q) : (p \o q)[Len(p) + i] = q[i]
    BY ONLY <2>6, Halves
  <2>3. p[1] = a /\ p[2] = b /\ q[1] = c /\ q[2] = d
    BY <1>1, <1>2 DEF p, q
  <2> HIDE DEF pq
  <2>4. Len(pq) = 4 /\ pq[1] = p[1] /\ pq[2] = p[2] /\ pq[2 + 1] = q[1] /\ pq[2 + 2] = q[2]
    <3>1. 1 \in 1..Len(p) /\ 2 \in 1..Len(p) /\ 1 \in 1..Len(q) /\ 2 \in 1..Len(q)
      BY ONLY <2>1
    <3> QED BY ONLY <2>1, <2>2, <3>1 DEF pq
  <2>5. pq \in Seq(T)
    BY ONLY <2>2 DEF pq
  <2> QED BY ONLY <2>3, <2>4, <2>5
<1> HIDE DEF pq
<1>6. n \in Seq(T) /\ Len(n) = 5 /\ n[5] = e /\ \A i \in 1..4 : n[i] = pq[i]
  <2>1. pq \in Seq(T)
    BY ONLY <1>5
  <2>2. /\ n \in Seq(T) /\ Len(n) = Len(pq) + 1 /\ n[Len(pq) + 1] = e
        /\ \A i \in 1..Len(pq) : n[i] = pq[i]
    BY ONLY <2>1, e \in T
  <2> HIDE DEF n
  <2> QED BY ONLY <1>5, <2>2
<1> HIDE DEF n
<1>7. five = n
  <2>1. \A i \in 1..5 : five[i] = n[i]
    <3> TAKE i \in 1..5
    <3>1. i = 1 \/ i = 2 \/ i = 3 \/ i = 4 \/ i = 5
      OBVIOUS
    <3>2. n[1] = a /\ n[2] = b /\ n[3] = c /\ n[4] = d /\ n[5] = e
      <4>1. 1 \in 1..4 /\ 2 \in 1..4 /\ 3 \in 1..4 /\ 4 \in 1..4
        OBVIOUS
      <4> QED BY ONLY <1>5, <1>6, <4>1
    <3> QED BY <1>4, <3>1, <3>2 DEF five
  <2>2. five \in Seq(T) /\ Len(five) = 5
    BY <1>4 DEF five
  <2> QED BY ONLY <1>6, <2>1, <2>2, SeqEqual
<1> QED BY <1>1, <1>2, <1>3, <1>7 DEF n, pq, p, q, five

(* The messages of two results, and the text they are joined to.           *)
LEMMA TwoResults ==
    ASSUME NEW S, NEW r \in Seq(S), NEW q \in Seq(S), NEW s \in Seq(S)
    PROVE  /\ ToolMessages(<<r, q>>) = <<Message("tool", r), Message("tool", q)>>
           /\ <<r, q>> \in Lists(S) /\ Len(<<r, q>>) = 2
           /\ Join(<<r, q>>, s) = Cat(r, Cat(s, q))
<1> DEFINE x == Message("tool", r)  y == Message("tool", q)  l == <<r, q>>  sq == s \o q
<1>1. l \in Lists(S) /\ Len(l) = 2 /\ DOMAIN l = 1..2 /\ l[1] = r /\ l[2] = q
  BY DEF Lists
<1> HIDE DEF l
<1>2. ToolMessages(l) = <<x, y>>
  <2> DEFINE f == ToolMessages(l)
  <2>1. DOMAIN f = 1..2 /\ f[1] = x /\ f[2] = y /\ f = [i \in 1..2 |-> f[i]]
    BY <1>1 DEF ToolMessages
  <2> HIDE DEF f, x, y
  <2>2. f = <<x, y>>
    <3>1. <<x, y>> = [i \in 1..2 |-> <<x, y>>[i]] /\ <<x, y>>[1] = x /\ <<x, y>>[2] = y
      OBVIOUS
    <3> DEFINE g == <<x, y>>
    <3>2. \A i \in 1..2 : f[i] = g[i]
      BY <2>1, <3>1
    <3> HIDE DEF g
    <3>3. f = g
      BY <2>1, <3>1, <3>2 DEF g
    <3> QED BY <3>3 DEF g
  <2> QED BY <2>2 DEF f
<1>3. sq \in Seq(S)
  BY ConcatProperties
<1> HIDE DEF sq
<1>4. Separated(l, s) = <<r, sq>>
  <2> DEFINE f == Separated(l, s)
  <2>1. f = [i \in 1..2 |-> f[i]] /\ f[1] = r /\ f[2] = sq
    BY <1>1 DEF Separated, sq
  <2> HIDE DEF f
  <2> DEFINE g == <<r, sq>>
  <2>2. g = [i \in 1..2 |-> g[i]] /\ g[1] = r /\ g[2] = sq
    OBVIOUS
  <2> HIDE DEF g
  <2>3. \A i \in 1..2 : f[i] = g[i]
    BY <2>1, <2>2
  <2>4. f = g
    BY <2>1, <2>2, <2>3
  <2> QED BY <2>4 DEF f, g
<1>5. Join(l, s) = FlattenSeq(<<r, sq>>)
  <2>1. Join(l, s) = FlattenSeq(Separated(l, s))
    BY <1>1, SeparatedType DEF Lists
  <2> QED BY <1>4, <2>1
<1>6. FlattenSeq(<<r, sq>>) = r \o sq
  <2>1. FewOf(S, r, sq, r, r)
    BY <1>3 DEF FewOf
  <2>2. FewFlat(r, sq, r, r)
    BY ONLY <2>1, FlattenFew
  <2> QED BY <2>2 DEF FewFlat, Cat
<1> QED BY <1>1, <1>2, <1>5, <1>6 DEF l, sq, Cat

(* The spans a template with results by role puts around results.          *)
RoleSpans(t) ==
    [open |-> Closed \o BeforeResults, separator |-> BetweenResults,
     close |-> Ended \o (Closed \o Begun(t))]

(* A conversation in which two results are given.                          *)
ResultProbe ==
    <<Message("user", USER), Message("assistant", PLAIN), Message("tool", RESULT),
      Message("tool", RESULT2), Message("assistant", REPLY)>>

(* What it is rendered as.                                                 *)
ResultProbed(t) ==
    Cat(Heading(t, {}, <<>>),
        Cat(Cat(Cat(UserTurn(t, USER), Answered(t, PLAIN)),
                ResultsTurn(<<RESULT, RESULT2>>)), Answered(t, REPLY)))

(* The template writes the transcript of the probe for results so.         *)
LEMMA ResultProbeIs ==
    ASSUME NEW S, Marks \subseteq S, NEW t \in Templates(S), t.quirk = "none",
           t.results = "role",
           USER \in Seq(S), PLAIN \in Seq(S), RESULT \in Seq(S), RESULT2 \in Seq(S),
           REPLY \in Seq(S)
    PROVE  Rendered(t, ResultProbe, <<>>) = {ResultProbed(t)}
<1> DEFINE P == Plain(S)  M1 == Message("user", USER)  M2 == Message("assistant", PLAIN)
           M3 == Message("tool", RESULT)  M4 == Message("tool", RESULT2)
           M5 == Message("assistant", REPLY)  rs == <<RESULT, RESULT2>>
           m0 == <<>>  m1 == Append(m0, M1)  m2 == Append(m1, M2)  m4 == m2 \o ToolMessages(rs)
           m == Append(m4, M5)
<1>0. Marks \subseteq S /\ t.lead \in Seq(S) /\ t.quirk = "none" /\ t.results = "role"
  BY DEF Templates
<1>1. /\ M1 \in P /\ M2 \in P /\ M3 \in P /\ M4 \in P /\ M5 \in P
      /\ M1.role = "user" /\ M2.role = "assistant" /\ M5.role = "assistant"
      /\ M1.content = USER /\ M2.content = PLAIN /\ M5.content = REPLY
      /\ M3.role = "tool" /\ M4.role = "tool"
  BY DEF Message, Plain
<1>2. /\ ToolMessages(rs) = <<M3, M4>> /\ rs \in Lists(S) /\ Len(rs) = 2
  BY TwoResults
<1>3. ResultProbe = m /\ m2 = <<M1, M2>>
  <2> HIDE DEF P, M1, M2, M3, M4, M5, rs
  <2>1. M1 \in P /\ M2 \in P /\ M3 \in P /\ M4 \in P /\ M5 \in P
    BY <1>1
  <2>2. /\ <<M1, M2, M3, M4, M5>> = Append(<<M1, M2>> \o <<M3, M4>>, M5)
        /\ <<M1, M2>> = Append(Append(<<>>, M1), M2)
    BY ONLY <2>1, FiveAre
  <2> QED BY ONLY <1>2, <2>2 DEF ResultProbe, m, m4, m2, m1, m0, M1, M2, M3, M4, M5
<1> HIDE DEF M1, M2, M3, M4, M5, rs
<1>4. m0 \in Seq(P) /\ Body(t, m0) = <<>> /\ SystemTexts(m0) = {} /\ RoleAt(m0, Len(m0)) = "none"
  <2>1. Body(t, m0) = <<>>
    BY <1>0, NoTurns
  <2>2. SystemTexts(m0) = {} /\ RoleAt(m0, Len(m0)) = "none"
    BY DEF SystemTexts, RoleAt
  <2> QED BY <2>1, <2>2
<1> HIDE DEF m0
<1>5. /\ m1 \in Seq(P) /\ Body(t, m1) = UserTurn(t, USER)
      /\ SystemTexts(m1) = {} /\ RoleAt(m1, Len(m1)) = "user"
  <2>1. Body(t, m1) = Body(t, m0) \o UserTurn(t, USER)
    <3>1. Body(t, m1) = Body(t, m0) \o UserTurn(t, M1.content)
      BY ONLY <1>0, <1>1, <1>4, UserAppended
    <3> QED BY ONLY <1>1, <3>1
  <2>2. m1 \in Seq(P) /\ RoleAt(m1, Len(m1)) = M1.role
    BY ONLY <1>1, <1>4, LastRole
  <2>3. SystemTexts(m1) = SystemTexts(m0)
    <3>1. M1.role # "system"
      BY <1>1
    <3> QED BY ONLY <1>1, <1>4, <3>1, TextsAppended
  <2>4. UserTurn(t, USER) \in Seq(S)
    BY ONLY <1>0, USER \in Seq(S), UserTurnType
  <2>5. <<>> \o UserTurn(t, USER) = UserTurn(t, USER)
    BY ONLY <2>4, ConcatEmptySeq
  <2> QED BY ONLY <1>1, <1>4, <2>1, <2>2, <2>3, <2>5
<1> HIDE DEF m1
<1>6. /\ m2 \in Seq(P) /\ Body(t, m2) = UserTurn(t, USER) \o Answered(t, PLAIN)
      /\ SystemTexts(m2) = {} /\ RoleAt(m2, Len(m2)) = "assistant"
  <2>1. Body(t, m2) = Body(t, m1) \o Answered(t, PLAIN)
    <3>1. RoleAt(m1, Len(m1)) # "assistant"
      BY <1>5
    <3>2. Body(t, m2) = Body(t, m1) \o Answered(t, M2.content)
      BY ONLY <1>0, <1>1, <1>5, <3>1, AnswerAppended
    <3> QED BY ONLY <1>1, <3>2
  <2>2. m2 \in Seq(P) /\ RoleAt(m2, Len(m2)) = M2.role
    BY ONLY <1>1, <1>5, LastRole
  <2>3. SystemTexts(m2) = SystemTexts(m1)
    <3>1. M2.role # "system"
      BY <1>1
    <3> QED BY ONLY <1>1, <1>5, <3>1, TextsAppended
  <2> QED BY ONLY <1>1, <1>5, <2>1, <2>2, <2>3
<1> HIDE DEF m2
<1>7. m4 = Append(Append(m2, M3), M4)
  <2>1. ASSUME NEW T, NEW z \in Seq(T), NEW x \in T, NEW y \in T
        PROVE  z \o <<x, y>> = Append(Append(z, x), y)
    BY <2>1
  <2>2. m2 \in Seq(P) /\ M3 \in P /\ M4 \in P
    BY <1>1, <1>6
  <2> HIDE DEF P
  <2>3. m2 \o <<M3, M4>> = Append(Append(m2, M3), M4)
    BY ONLY <2>1, <2>2
  <2> QED BY ONLY <1>2, <2>3 DEF m4
<1>8. /\ m4 \in Seq(P) /\ SystemTexts(m4) = {} /\ RoleAt(m4, Len(m4)) = "tool"
  <2> DEFINE m3 == Append(m2, M3)
  <2>1. m3 \in Seq(P)
    BY ONLY <1>1, <1>6, LastRole
  <2>2. SystemTexts(m3) = SystemTexts(m2)
    <3>1. M3.role # "system"
      BY <1>1
    <3> QED BY ONLY <1>1, <1>6, <3>1, TextsAppended
  <2> HIDE DEF m3
  <2> DEFINE n == Append(m3, M4)
  <2>3. n \in Seq(P) /\ RoleAt(n, Len(n)) = M4.role
    BY ONLY <1>1, <2>1, LastRole
  <2>4. SystemTexts(n) = SystemTexts(m3)
    <3>1. M4.role # "system"
      BY <1>1
    <3> QED BY ONLY <1>1, <2>1, <3>1, TextsAppended
  <2> HIDE DEF n
  <2>5. m4 = n
    BY ONLY <1>7 DEF n, m3
  <2> HIDE DEF m4
  <2> QED BY ONLY <1>1, <1>6, <2>2, <2>3, <2>4, <2>5
<1>9. Body(t, m4) = Body(t, m2) \o ResultsTurn(rs)
  <2>1. RoleAt(m2, Len(m2)) # "tool" /\ Len(rs) # 0
    BY <1>2, <1>6
  <2>2. rs \in Lists(S) /\ m2 \in Seq(Plain(S))
    BY ONLY <1>2, <1>6
  <2>3. Body(t, m2 \o ToolMessages(rs)) = Body(t, m2) \o ResultsTurn(rs)
    BY ONLY <1>0, <2>1, <2>2, ResultsAppended
  <2> QED BY ONLY <2>3 DEF m4
<1> HIDE DEF m4
<1>10. /\ m \in Seq(P) /\ SystemTexts(m) = {}
       /\ Body(t, m) = ((UserTurn(t, USER) \o Answered(t, PLAIN)) \o ResultsTurn(rs)) \o
                       Answered(t, REPLY)
  <2>1. Body(t, m) = Body(t, m4) \o Answered(t, REPLY)
    <3>1. RoleAt(m4, Len(m4)) # "assistant"
      BY <1>8
    <3>2. Body(t, m) = Body(t, m4) \o Answered(t, M5.content)
      BY ONLY <1>0, <1>1, <1>8, <3>1, AnswerAppended
    <3> QED BY ONLY <1>1, <3>2
  <2>2. m \in Seq(P)
    BY ONLY <1>1, <1>8, LastRole
  <2>3. SystemTexts(m) = SystemTexts(m4)
    <3>1. M5.role # "system"
      BY <1>1
    <3> QED BY ONLY <1>1, <1>8, <3>1, TextsAppended
  <2> QED BY ONLY <1>6, <1>8, <1>9, <2>1, <2>2, <2>3
<1> HIDE DEF m
<1>11. Whole(t, m, <<>>) = ResultProbed(t)
  <2>1. Whole(t, m, <<>>) = Heading(t, {}, <<>>) \o Body(t, m)
    BY <1>10 DEF Whole
  <2> QED BY ONLY <1>10, <2>1 DEF ResultProbed, Cat, rs
<1>12. Rendered(t, m, <<>>) = IF Renders(t, {}) THEN {Whole(t, m, <<>>)} ELSE {}
  <2>1. <<>> \in Lists(S) /\ t \in Templates(S)
    BY DEF Lists
  <2>2. Rendered(t, m, <<>>) = IF Renders(t, SystemTexts(m)) THEN {Whole(t, m, <<>>)} ELSE {}
    BY ONLY <1>0, <1>10, <2>1, RenderIs
  <2> QED BY ONLY <1>10, <2>2
<1>13. Renders(t, {})
  BY DEF Renders
<1> QED BY ONLY <1>3, <1>11, <1>12, <1>13

(* derive_tool_result_spans finds what the template writes around results. *)
THEOREM SpansIs ==
    ASSUME NEW words, Probeable(words), NEW t \in Templates(words), t.quirk = "none",
           t.results = "role"
    PROVE  DeriveToolResultSpans(t) = {RoleSpans(t)}
<1> DEFINE S == Wider(words)  N == {"PLAIN", "RESULT", "RESULTB", "REPLY"}
           text == ResultProbed(t)
           h == Heading(t, {}, <<>>)  u == UserTurn(t, USER)  b == Begun(t)  c == Closed
           f == BeforeResults  s == BetweenResults  e == Ended
           x == Cat(Cat(h, u), b)  g == Cat(c, f)  k == Cat(e, Cat(c, b))
<1>1. Marks \subseteq S /\ t \in Templates(S) /\ Marks \subseteq words
  BY WiderIs
<1>2. /\ {"pua", "aup", "PLAIN", "USER", "RESULT", "RESULTB", "REPLY"} \subseteq S
      /\ words \subseteq S \ N /\ {"pua", "aup", "USER"} \subseteq S \ N
      /\ {"pua", "aup", "PLAIN"} \subseteq S \ {"RESULT", "RESULTB", "REPLY"}
      /\ {"pua", "aup", "RESULT"} \subseteq S \ {"PLAIN", "RESULTB", "REPLY"}
      /\ {"pua", "aup", "RESULTB"} \subseteq S \ {"PLAIN", "RESULT", "REPLY"}
      /\ {"pua", "aup", "REPLY"} \subseteq S \ {"PLAIN", "RESULT", "RESULTB"}
  BY DEF Wider, ProbeWords, Probeable
<1>3. /\ USER \in Seq(S) /\ PLAIN \in Seq(S) /\ RESULT \in Seq(S) /\ RESULT2 \in Seq(S)
      /\ REPLY \in Seq(S)
      /\ USER \in Seq(S \ N)
      /\ PLAIN \in Seq(S \ {"RESULT", "RESULTB", "REPLY"})
      /\ RESULT \in Seq(S \ {"PLAIN", "RESULTB", "REPLY"})
      /\ RESULT2 \in Seq(S \ {"PLAIN", "RESULT", "REPLY"})
      /\ REPLY \in Seq(S \ {"PLAIN", "RESULT", "RESULTB"})
  <2>1. /\ {"pua", "aup", "PLAIN"} \subseteq S /\ {"pua", "aup", "USER"} \subseteq S
        /\ {"pua", "aup", "RESULT"} \subseteq S /\ {"pua", "aup", "RESULTB"} \subseteq S
        /\ {"pua", "aup", "REPLY"} \subseteq S
    BY ONLY <1>2
  <2> HIDE DEF S, N
  <2> QED BY ONLY <1>2, <2>1, SentinelsAre
<1>4. Rendered(t, ResultProbe, <<>>) = {text}
  <2> HIDE DEF S
  <2>1. t.quirk = "none" /\ t.results = "role"
    OBVIOUS
  <2> QED BY ONLY <1>1, <1>3, <2>1, ResultProbeIs
<1>5. /\ h \in Seq(words) /\ b \in Seq(words) /\ c \in Seq(words) /\ f \in Seq(words)
      /\ s \in Seq(words) /\ e \in Seq(words)
  <2>1. {} \in SUBSET Seq(words) /\ <<>> \in Lists(words) /\ t.lead \in Seq(words)
    BY DEF Lists, Templates
  <2>2. t \in Templates(words)
    OBVIOUS
  <2>3. h \in Seq(words)
    BY ONLY <1>1, <2>1, <2>2, HeadingType
  <2>4. b \in Seq(words)
    <3>1. \A z \in Seq(words) : b \in Seq(words)
      BY ONLY <1>1, <2>1, AnsweredType
    <3>2. c \in Seq(words)
      BY ONLY <1>1, MarkTypes
    <3> QED BY ONLY <3>1, <3>2
  <2> QED BY ONLY <1>1, <2>3, <2>4, MarkTypes, ResultMarks
<1>6. u \in Seq(S \ N)
  <2>1. Marks \subseteq S \ N
    BY <1>1, <1>2
  <2> HIDE DEF S, N
  <2> QED BY ONLY <1>3, <2>1, UserTurnType
<1>7. /\ h \in Seq(S \ N) /\ b \in Seq(S \ N) /\ c \in Seq(S \ N) /\ f \in Seq(S \ N)
      /\ s \in Seq(S \ N) /\ e \in Seq(S \ N)
  <2> HIDE DEF S, N, h, b, c, f, s, e
  <2> QED BY ONLY <1>2, <1>5, SeqMonotonic
<1>8. /\ x \in Seq(S \ N) /\ g \in Seq(S \ N) /\ k \in Seq(S \ N)
  <2> HIDE DEF S, N, h, b, c, f, s, e, u
  <2>1. Cat(h, u) \in Seq(S \ N) /\ Cat(c, b) \in Seq(S \ N) /\ g \in Seq(S \ N)
    BY ONLY <1>6, <1>7, CatLaws
  <2> DEFINE hu == Cat(h, u)  cb == Cat(c, b)
  <2>2. hu \in Seq(S \ N) /\ cb \in Seq(S \ N)
    BY <2>1
  <2> HIDE DEF hu, cb
  <2>3. Cat(hu, b) \in Seq(S \ N) /\ Cat(e, cb) \in Seq(S \ N)
    BY ONLY <1>7, <2>2, CatLaws
  <2> QED BY ONLY <2>1, <2>3 DEF hu, cb
<1>9. text = FourParts(x, PLAIN, g, RESULT, s, RESULT2, k, REPLY, c)
  <2>1. SpansOf(S, h, u, b, PLAIN, c, f, RESULT, s, RESULT2, e, REPLY)
    <3>1. /\ h \in Seq(S) /\ u \in Seq(S) /\ b \in Seq(S) /\ c \in Seq(S) /\ f \in Seq(S)
          /\ s \in Seq(S) /\ e \in Seq(S)
      <4>1. S \ N \subseteq S
        OBVIOUS
      <4> HIDE DEF S, N, h, b, c, f, s, e, u
      <4> QED BY ONLY <1>6, <1>7, <4>1, SeqMonotonic
    <3> HIDE DEF S, h, b, c, f, s, e, u
    <3> QED BY ONLY <1>3, <3>1 DEF SpansOf
  <2>2. SpansSame(h, u, b, PLAIN, c, f, RESULT, s, RESULT2, e, REPLY)
    <3> HIDE DEF S, h, b, c, f, s, e, u
    <3> QED BY ONLY <2>1, SpansRegrouped
  <2>3. text = Cat(h, Cat(Cat(Cat(u, Cat(Cat(b, PLAIN), c)),
                              Cat(Cat(Cat(f, Cat(RESULT, Cat(s, RESULT2))), e), c)),
                          Cat(Cat(b, REPLY), c)))
    <3>1. Answered(t, PLAIN) = Cat(Cat(b, PLAIN), c) /\ Answered(t, REPLY) = Cat(Cat(b, REPLY), c)
      BY DEF Answered, Cat
    <3>2. Join(<<RESULT, RESULT2>>, s) = Cat(RESULT, Cat(s, RESULT2))
      <4>1. s \in Seq(S)
        <5>1. S \ N \subseteq S
          OBVIOUS
        <5> HIDE DEF S, N, s
        <5> QED BY ONLY <1>7, <5>1, SeqMonotonic
      <4> HIDE DEF S, s
      <4> QED BY ONLY <1>3, <4>1, TwoResults
    <3>3. ResultsTurn(<<RESULT, RESULT2>>) =
          Cat(Cat(Cat(f, Cat(RESULT, Cat(s, RESULT2))), e), c)
      BY ONLY <3>2 DEF ResultsTurn, Cat
    <3> QED BY ONLY <3>1, <3>3 DEF ResultProbed
  <2> HIDE DEF text, h, b, c, f, s, e, u
  <2>4. text = Cat(x, Cat(PLAIN, Cat(g, Cat(RESULT, Cat(s, Cat(RESULT2, Cat(k, Cat(REPLY, c))))))))
    BY ONLY <2>2, <2>3 DEF SpansSame, x, g, k
  <2> HIDE DEF x, g, k
  <2> QED BY ONLY <2>4 DEF FourParts, Cat
<1>10. AroundFour(S, "PLAIN", "RESULT", "RESULTB", "REPLY", x, PLAIN, g, RESULT, s, RESULT2, k,
                  REPLY, c)
  <2>1. /\ Sole(PLAIN, "PLAIN") /\ Sole(RESULT, "RESULT") /\ Sole(RESULT2, "RESULTB")
        /\ Sole(REPLY, "REPLY")
    BY SentinelsAre
  <2>2. /\ "PLAIN" # "RESULT" /\ "PLAIN" # "RESULTB" /\ "PLAIN" # "REPLY"
        /\ "RESULT" # "RESULTB" /\ "RESULT" # "REPLY" /\ "RESULTB" # "REPLY"
    OBVIOUS
  <2> HIDE DEF S, x, g, k, s, c
  <2> QED BY ONLY <1>3, <1>7, <1>8, <2>1, <2>2 DEF AroundFour, N
<1>11. FoundFour(text, x, PLAIN, g, RESULT, s, RESULT2, k, REPLY)
  <2> HIDE DEF S, x, g, k, s, c, text
  <2>1. FoundFour(FourParts(x, PLAIN, g, RESULT, s, RESULT2, k, REPLY, c),
                  x, PLAIN, g, RESULT, s, RESULT2, k, REPLY)
    BY ONLY <1>10, FourFound
  <2> QED BY ONLY <1>9, <2>1
<1>12. ResultSpans(text, PLAIN) = {RoleSpans(t)}
  <2>1. ResultSpans(text, PLAIN) =
        {[open |-> Gap(text, PLAIN, RESULT), separator |-> Gap(text, RESULT, RESULT2),
          close |-> Gap(text, RESULT2, REPLY)]}
    <3> HIDE DEF x, g, k, s, c, text
    <3>1. InOrder(<<Find(text, PLAIN), Find(text, RESULT), Find(text, RESULT2), Find(text, REPLY)>>)
      BY ONLY <1>11 DEF FoundFour
    <3> QED BY ONLY <3>1 DEF ResultSpans, Gap, Some
  <2>2. RoleSpans(t) = [open |-> g, separator |-> s, close |-> k]
    BY DEF RoleSpans, Cat
  <2> HIDE DEF x, g, k, s, c, text
  <2>3. Gap(text, PLAIN, RESULT) = g /\ Gap(text, RESULT, RESULT2) = s /\ Gap(text, RESULT2, REPLY) = k
    BY ONLY <1>11 DEF FoundFour
  <2> QED BY ONLY <2>1, <2>2, <2>3
<1>13. DeriveToolResultSpansByRole(t) = {RoleSpans(t)}
  <2> HIDE DEF text
  <2>1. DeriveToolResultSpansByRole(t) =
        UNION {ResultSpans(z, PLAIN) : z \in Rendered(t, ResultProbe, <<>>)}
    BY DEF DeriveToolResultSpansByRole, ResultProbe
  <2>2. UNION {ResultSpans(z, PLAIN) : z \in {text}} = ResultSpans(text, PLAIN)
    OBVIOUS
  <2> QED BY ONLY <1>4, <1>12, <2>1, <2>2
<1> QED BY <1>13 DEF DeriveToolResultSpans, OrElse, None

(* What precedes the content of a first turn.                              *)
OpeningOf(t, system, tools) == Heading(t, system, tools) \o Opened("user")

(* render_opening returns what the template writes before the first        *)
(* message, with system text and tools, or nothing when it raises.         *)
THEOREM OpeningIs ==
    ASSUME NEW words, Probeable(words), NEW t \in Templates(words), t.quirk = "none",
           NEW system, IsOption(system, Seq(words)), NEW tools \in Lists(words)
    PROVE  RenderOpening(system, tools, t) =
           IF Renders(t, system) THEN {OpeningOf(t, system, tools)} ELSE {}
<1> DEFINE S == Wider(words)  h == Heading(t, system, tools)  o == Opened("user")  c == Closed
           x == h \o o  text == h \o UserTurn(t, USER)
<1>1. /\ Marks \subseteq S /\ Marks \subseteq words /\ t \in Templates(S)
      /\ words \subseteq S /\ words \subseteq S \ {"USER"}
  <2>1. "USER" \in ProbeWords
    BY DEF ProbeWords
  <2> QED BY ONLY Probeable(words), t \in Templates(words), <2>1, WiderIs
<1>2. USER \in Seq(S) /\ Sole(USER, "USER")
  <2>1. {"pua", "aup", "USER"} \subseteq S
    BY DEF Wider, ProbeWords
  <2> HIDE DEF S
  <2> QED BY ONLY <2>1, SentinelsAre
<1>3. IsOption(system, Seq(S)) /\ tools \in Lists(S)
  <2>1. Seq(words) \subseteq Seq(S)
    <3> HIDE DEF S
    <3> QED BY ONLY <1>1, SeqMonotonic
  <2>2. Seq(Seq(words)) \subseteq Seq(Seq(S))
    <3> HIDE DEF S
    <3> DEFINE A == Seq(words)  B == Seq(S)
    <3>1. A \subseteq B
      BY <2>1
    <3> HIDE DEF A, B
    <3>2. Seq(A) \subseteq Seq(B)
      BY ONLY <3>1, SeqMonotonic
    <3> QED BY <3>2 DEF A, B
  <2> HIDE DEF S
  <2> QED BY <2>1, <2>2 DEF IsOption, Lists
<1>4. Rendered(t, FirstTurn(system, USER), tools) =
      IF Renders(t, system) THEN {text} ELSE {}
  <2> HIDE DEF S
  <2> QED BY ONLY <1>1, <1>2, <1>3, FirstTurnRendered
<1>5. h \in Seq(words) /\ o \in Seq(words) /\ c \in Seq(words)
  <2>1. system \in SUBSET Seq(words)
    BY DEF IsOption
  <2>2. t \in Templates(words) /\ tools \in Lists(words)
    OBVIOUS
  <2> QED BY ONLY <1>1, <2>1, <2>2, HeadingType, MarkTypes
<1>6. x \in Seq(words)
  BY ONLY <1>5, ConcatProperties
<1>7. text = x \o (USER \o c)
  <2>1. UserTurn(t, USER) = Cat(Cat(o, USER), c)
    BY UserTurnOf
  <2>2. h \in Seq(S) /\ o \in Seq(S) /\ c \in Seq(S)
    <3> HIDE DEF h, o, c, S
    <3> QED BY ONLY <1>1, <1>5, SeqMonotonic
  <2>3. Cat(h, Cat(Cat(o, USER), c)) = Cat(Cat(h, o), Cat(USER, c))
    <3> HIDE DEF h, o, c, S
    <3> QED BY ONLY <1>2, <2>2, CatLaws
  <2> QED BY ONLY <2>1, <2>3 DEF Cat
<1>8. Find(text, USER) = Len(x) + 1 /\ Has(text, USER)
  <2>1. x \in Seq(S \ {"USER"}) /\ c \in Seq(S \ {"USER"})
    <3> HIDE DEF x, c, S
    <3> QED BY ONLY <1>1, <1>5, <1>6, SeqMonotonic
  <2> HIDE DEF x, c, S, text
  <2>2. Find(x \o (USER \o c), USER) = Len(x) + 1 /\ Has(x \o (USER \o c), USER)
    BY ONLY <1>2, <2>1, FindSole
  <2> QED BY ONLY <1>7, <2>2
<1>9. Before(text, Find(text, USER)) = x
  <2>1. x \in Seq(S) /\ c \in Seq(S)
    <3> HIDE DEF x, c, S
    <3> QED BY ONLY <1>1, <1>5, <1>6, SeqMonotonic
  <2> HIDE DEF x, c, S, text
  <2>2. SubSeq(x \o (USER \o c), 1, Len(x)) = x
    BY ONLY <1>2, <2>1, Parts
  <2>3. (Len(x) + 1) - 1 = Len(x)
    BY ONLY <2>1
  <2> QED BY ONLY <1>7, <1>8, <2>2, <2>3 DEF Before
<1>10. RenderOpening(system, tools, t) =
       {Before(z, Find(z, USER)) :
          z \in {r \in Rendered(t, FirstTurn(system, USER), tools) : Has(r, USER)}}
  BY DEF RenderOpening, FirstTurn, SystemMessages
<1> HIDE DEF text, x
<1>11. RenderOpening(system, tools, t) = IF Renders(t, system) THEN {x} ELSE {}
  BY ONLY <1>4, <1>8, <1>9, <1>10
<1> QED BY ONLY <1>11 DEF x, OpeningOf

(* What a conversation is opened with.                                     *)
Block(t, system) == IF t.system = "block" THEN system ELSE None

(* What prepare_tools returns for a template, as this module has it.       *)
Prepared(t, system, tools, setup) ==
    /\ setup.opening = OpeningOf(t, Block(t, system), tools)
    /\ setup.system_for_first_turn = IF t.system = "block" THEN None ELSE system
    /\ setup.tool_result_spans \in {None, {RoleSpans(t)}}
    /\ setup.tool_result_spans # None => t.results = "role"

(* System text and tools reach the model by what the template has for      *)
(* them: the opening is rendered with them, and system text without a      *)
(* block is left for the first turn.                                       *)
THEOREM PreparedIs ==
    ASSUME NEW words, Probeable(words), NEW t \in Templates(words), t.quirk = "none",
           NEW system, IsOption(system, Seq(words)), NEW tools \in Lists(words), NEW configured
    PROVE  Prepared(t, system, tools, PrepareTools(t, Shape(t), system, tools, configured))
<1> DEFINE cs == ProbeSystem(t)  ct == ProbeTools(t)  cr == ProbeToolResults(t)
           offered == IF tools # <<>> /\ ct THEN tools ELSE <<>>
           block == IF cs THEN system ELSE None
           rendered == IF block # None \/ offered # <<>>
                       THEN RenderOpening(block, offered, t) ELSE None
           carried == block # None /\ rendered # None
           setup == PrepareTools(t, Shape(t), system, tools, configured)
<1>1. block = Block(t, system)
  <2>1. cs <=> t.system = "block"
    BY SystemProbed
  <2> QED BY <2>1 DEF Block
<1>2. offered \in Lists(words) /\ ToolsPart(t, offered) = ToolsPart(t, tools)
  <2>1. CASE t.lists
    <3>1. ct
      BY <2>1, ToolsProbed
    <3>2. offered = tools
      BY <3>1
    <3> QED BY <3>2
  <2>2. CASE ~t.lists
    <3>1. ToolsPart(t, offered) = <<>> /\ ToolsPart(t, tools) = <<>>
      BY <2>2, Zenon DEF ToolsPart
    <3>2. <<>> \in Lists(words)
      BY DEF Lists
    <3>3. offered \in Lists(words)
      BY <3>2
    <3> QED BY ONLY <3>1, <3>3
  <2> QED BY <2>1, <2>2
<1>3. /\ setup.opening = The(OrElse(rendered, Some(Shape(t).first_turn_open)))
      /\ setup.system_for_first_turn = FoldedSystem(system, carried)
      /\ setup.tool_result_spans = IF offered # <<>> /\ cr THEN DeriveToolResultSpans(t) ELSE None
  BY DEF PrepareTools, DeriveCapabilities
<1> HIDE DEF setup, offered
<1>4. IsOption(block, Seq(words))
  BY DEF IsOption, None
<1>5. Renders(t, block)
  <2>1. t.system = "raise" => block = {}
    BY <1>1 DEF Block, None
  <2> HIDE DEF block
  <2> QED BY <2>1 DEF Renders
<1>6. RenderOpening(block, offered, t) = {OpeningOf(t, block, offered)}
  <2> HIDE DEF block
  <2>1. RenderOpening(block, offered, t) =
        IF Renders(t, block) THEN {OpeningOf(t, block, offered)} ELSE {}
    BY <1>2, <1>4, OpeningIs
  <2> QED BY ONLY <1>5, <2>1
<1> HIDE DEF block
<1>7. OpeningOf(t, block, offered) = OpeningOf(t, Block(t, system), tools)
  BY <1>1, <1>2, Zenon DEF OpeningOf, Heading
<1>8. \A z : The({z}) = z
  BY DEF The
<1>9. setup.opening = OpeningOf(t, block, offered)
  <2>1. CASE block # None \/ offered # <<>>
    <3>1. rendered = {OpeningOf(t, block, offered)}
      BY <1>6, <2>1
    <3> HIDE DEF rendered
    <3>2. OrElse(rendered, Some(Shape(t).first_turn_open)) = {OpeningOf(t, block, offered)}
      BY <3>1 DEF OrElse, None
    <3> QED BY ONLY <1>3, <1>8, <3>2
  <2>2. CASE ~(block # None \/ offered # <<>>)
    <3>1. rendered = None /\ block = {} /\ offered = <<>>
      BY <2>2 DEF None
    <3> HIDE DEF rendered
    <3>2. OrElse(rendered, Some(Shape(t).first_turn_open)) = {Shape(t).first_turn_open}
      BY <3>1 DEF OrElse, Some
    <3>3. Shape(t).first_turn_open = OpeningOf(t, block, offered)
      BY <3>1 DEF Shape, OpeningOf
    <3> QED BY ONLY <1>3, <1>8, <3>2, <3>3
  <2> QED BY <2>1, <2>2
<1>10. setup.system_for_first_turn = IF t.system = "block" THEN None ELSE system
  <2>1. CASE t.system = "block" /\ system # None
    <3>1. block # None
      BY <1>1, <2>1 DEF Block
    <3>2. carried
      BY <1>6, <3>1 DEF None
    <3> QED BY <1>3, <2>1, <3>2 DEF FoldedSystem
  <2>2. CASE t.system = "block" /\ system = None
    <3>1. FoldedSystem(system, carried) = None
      BY <2>2, Zenon DEF FoldedSystem
    <3> QED BY <1>3, <2>2, <3>1
  <2>3. CASE t.system # "block"
    <3>1. block = None
      BY <1>1, <2>3 DEF Block
    <3>2. ~carried
      BY <3>1
    <3> QED BY <1>3, <2>3, <3>2 DEF FoldedSystem
  <2> QED BY <2>1, <2>2, <2>3
<1>11. cr => t.results = "role"
  BY ResultsProbed
<1>12. cr => DeriveToolResultSpans(t) = {RoleSpans(t)}
  BY <1>11, SpansIs
<1> HIDE DEF cr
<1>13. /\ setup.tool_result_spans \in {None, {RoleSpans(t)}}
       /\ setup.tool_result_spans # None => t.results = "role"
  BY <1>3, <1>11, <1>12
<1> QED BY <1>7, <1>9, <1>10, <1>13 DEF Prepared, setup

(* The first turn, and what is said of the answer, by their parts.         *)
FirstSaidOf(S, h, o, m, c, b, p) ==
    /\ h \in Seq(S) /\ o \in Seq(S) /\ m \in Seq(S) /\ c \in Seq(S)
    /\ b \in Seq(S) /\ p \in Seq(S)

(* A first turn, as it is decoded and as it is rendered.                   *)
FirstSaidSame(h, o, m, c, b, p) ==
    Cat(Cat(Cat(Cat(h, o), m), Cat(c, b)), p) =
    Cat(Cat(h, Cat(Cat(o, m), c)), Cat(b, p))

(* They are the same text.                                                 *)
LEMMA FirstSaidRegrouped ==
    ASSUME NEW S, NEW h, NEW o, NEW m, NEW c, NEW b, NEW p,
           FirstSaidOf(S, h, o, m, c, b, p)
    PROVE  FirstSaidSame(h, o, m, c, b, p)
<1>0. /\ h \in Seq(S) /\ o \in Seq(S) /\ m \in Seq(S) /\ c \in Seq(S)
      /\ b \in Seq(S) /\ p \in Seq(S)
  BY DEF FirstSaidOf
<1> DEFINE n1 == Cat(h, o)  n2 == Cat(n1, m)  n3 == Cat(c, b)  n4 == Cat(n2, n3)
           n5 == Cat(n4, p)  n6 == Cat(b, p)  n7 == Cat(c, n6)  n8 == Cat(m, n7)
           n9 == Cat(o, n8)  n10 == Cat(h, n9)  n11 == Cat(o, m)  n12 == Cat(n11, c)
           n13 == Cat(h, n12)  n14 == Cat(n13, n6)
<1>1. /\ n1 = Cat(h, o) /\ n2 = Cat(n1, m) /\ n3 = Cat(c, b)
      /\ n4 = Cat(n2, n3) /\ n5 = Cat(n4, p) /\ n6 = Cat(b, p)
      /\ n7 = Cat(c, n6) /\ n8 = Cat(m, n7) /\ n9 = Cat(o, n8)
      /\ n10 = Cat(h, n9) /\ n11 = Cat(o, m) /\ n12 = Cat(n11, c)
      /\ n13 = Cat(h, n12) /\ n14 = Cat(n13, n6)
  OBVIOUS
<1> HIDE DEF n1, n2, n3, n4, n5, n6, n7, n8, n9, n10, n11, n12, n13, n14
<1>2. /\ n1 \in Seq(S) /\ n3 \in Seq(S) /\ n6 \in Seq(S) /\ n11 \in Seq(S)
  BY ONLY <1>1, <1>0, CatLaws
<1>3. /\ n2 \in Seq(S) /\ n7 \in Seq(S) /\ n12 \in Seq(S)
  BY ONLY <1>1, <1>0, <1>2, CatLaws
<1>4. /\ n4 \in Seq(S) /\ n8 \in Seq(S) /\ n13 \in Seq(S)
  BY ONLY <1>1, <1>0, <1>2, <1>3, CatLaws
<1>5. /\ n5 \in Seq(S) /\ n9 \in Seq(S) /\ n14 \in Seq(S)
  BY ONLY <1>1, <1>0, <1>2, <1>4, CatLaws
<1>6. /\ n10 \in Seq(S)
  BY ONLY <1>1, <1>0, <1>5, CatLaws
<1>7. Cat(Cat(n2, n3), p) = Cat(n2, Cat(n3, p))
  <2>1. n2 \in Seq(S) /\ n3 \in Seq(S) /\ p \in Seq(S)
    BY ONLY <1>0, <1>3, <1>2
  <2> QED BY ONLY <2>1, Shift
<1>8. Cat(Cat(c, b), p) = Cat(c, Cat(b, p))
  <2>1. c \in Seq(S) /\ b \in Seq(S) /\ p \in Seq(S)
    BY ONLY <1>0
  <2> QED BY ONLY <2>1, Shift
<1>9. Cat(Cat(n1, m), n7) = Cat(n1, Cat(m, n7))
  <2>1. n1 \in Seq(S) /\ m \in Seq(S) /\ n7 \in Seq(S)
    BY ONLY <1>0, <1>2, <1>3
  <2> QED BY ONLY <2>1, Shift
<1>10. Cat(Cat(h, o), n8) = Cat(h, Cat(o, n8))
  <2>1. h \in Seq(S) /\ o \in Seq(S) /\ n8 \in Seq(S)
    BY ONLY <1>0, <1>4
  <2> QED BY ONLY <2>1, Shift
<1>11. Cat(Cat(h, n12), n6) = Cat(h, Cat(n12, n6))
  <2>1. h \in Seq(S) /\ n12 \in Seq(S) /\ n6 \in Seq(S)
    BY ONLY <1>0, <1>3, <1>2
  <2> QED BY ONLY <2>1, Shift
<1>12. Cat(Cat(n11, c), n6) = Cat(n11, Cat(c, n6))
  <2>1. n11 \in Seq(S) /\ c \in Seq(S) /\ n6 \in Seq(S)
    BY ONLY <1>0, <1>2, <1>2
  <2> QED BY ONLY <2>1, Shift
<1>13. Cat(Cat(o, m), n7) = Cat(o, Cat(m, n7))
  <2>1. o \in Seq(S) /\ m \in Seq(S) /\ n7 \in Seq(S)
    BY ONLY <1>0, <1>3
  <2> QED BY ONLY <2>1, Shift
<1> QED BY ONLY <1>1, <1>7, <1>8, <1>9, <1>10, <1>11, <1>12, <1>13 DEF FirstSaidSame

(* The next turn, after a context that is not closed.                      *)
NextSaidOf(S, k, o, m, c, b, p) ==
    /\ k \in Seq(S) /\ o \in Seq(S) /\ m \in Seq(S) /\ c \in Seq(S)
    /\ b \in Seq(S) /\ p \in Seq(S)

(* A later turn, as it is decoded and as it is rendered.                   *)
NextSaidSame(k, o, m, c, b, p) ==
    Cat(k, Cat(Cat(Cat(Cat(c, o), m), Cat(c, b)), p)) =
    Cat(Cat(Cat(k, c), Cat(Cat(o, m), c)), Cat(b, p))

(* They are the same text.                                                 *)
LEMMA NextSaidRegrouped ==
    ASSUME NEW S, NEW k, NEW o, NEW m, NEW c, NEW b, NEW p,
           NextSaidOf(S, k, o, m, c, b, p)
    PROVE  NextSaidSame(k, o, m, c, b, p)
<1>0. /\ k \in Seq(S) /\ o \in Seq(S) /\ m \in Seq(S) /\ c \in Seq(S)
      /\ b \in Seq(S) /\ p \in Seq(S)
  BY DEF NextSaidOf
<1> DEFINE n1 == Cat(c, o)  n2 == Cat(n1, m)  n3 == Cat(c, b)  n4 == Cat(n2, n3)
           n5 == Cat(n4, p)  n6 == Cat(k, n5)  n7 == Cat(b, p)  n8 == Cat(c, n7)
           n9 == Cat(m, n8)  n10 == Cat(o, n9)  n11 == Cat(c, n10)  n12 == Cat(k, n11)
           n13 == Cat(k, c)  n14 == Cat(o, m)  n15 == Cat(n14, c)  n16 == Cat(n13, n15)
           n17 == Cat(n16, n7)
<1>1. /\ n1 = Cat(c, o) /\ n2 = Cat(n1, m) /\ n3 = Cat(c, b)
      /\ n4 = Cat(n2, n3) /\ n5 = Cat(n4, p) /\ n6 = Cat(k, n5)
      /\ n7 = Cat(b, p) /\ n8 = Cat(c, n7) /\ n9 = Cat(m, n8)
      /\ n10 = Cat(o, n9) /\ n11 = Cat(c, n10) /\ n12 = Cat(k, n11)
      /\ n13 = Cat(k, c) /\ n14 = Cat(o, m) /\ n15 = Cat(n14, c)
      /\ n16 = Cat(n13, n15) /\ n17 = Cat(n16, n7)
  OBVIOUS
<1> HIDE DEF n1, n2, n3, n4, n5, n6, n7, n8, n9, n10, n11, n12, n13, n14, n15, n16, n17
<1>2. /\ n1 \in Seq(S) /\ n3 \in Seq(S) /\ n7 \in Seq(S) /\ n13 \in Seq(S) /\ n14 \in Seq(S)
  BY ONLY <1>1, <1>0, CatLaws
<1>3. /\ n2 \in Seq(S) /\ n8 \in Seq(S) /\ n15 \in Seq(S)
  BY ONLY <1>1, <1>0, <1>2, CatLaws
<1>4. /\ n4 \in Seq(S) /\ n9 \in Seq(S) /\ n16 \in Seq(S)
  BY ONLY <1>1, <1>0, <1>2, <1>3, CatLaws
<1>5. /\ n5 \in Seq(S) /\ n10 \in Seq(S) /\ n17 \in Seq(S)
  BY ONLY <1>1, <1>0, <1>2, <1>4, CatLaws
<1>6. /\ n6 \in Seq(S) /\ n11 \in Seq(S)
  BY ONLY <1>1, <1>0, <1>5, CatLaws
<1>7. /\ n12 \in Seq(S)
  BY ONLY <1>1, <1>0, <1>6, CatLaws
<1>8. Cat(Cat(n2, n3), p) = Cat(n2, Cat(n3, p))
  <2>1. n2 \in Seq(S) /\ n3 \in Seq(S) /\ p \in Seq(S)
    BY ONLY <1>0, <1>3, <1>2
  <2> QED BY ONLY <2>1, Shift
<1>9. Cat(Cat(c, b), p) = Cat(c, Cat(b, p))
  <2>1. c \in Seq(S) /\ b \in Seq(S) /\ p \in Seq(S)
    BY ONLY <1>0
  <2> QED BY ONLY <2>1, Shift
<1>10. Cat(Cat(n1, m), n8) = Cat(n1, Cat(m, n8))
  <2>1. n1 \in Seq(S) /\ m \in Seq(S) /\ n8 \in Seq(S)
    BY ONLY <1>0, <1>2, <1>3
  <2> QED BY ONLY <2>1, Shift
<1>11. Cat(Cat(c, o), n9) = Cat(c, Cat(o, n9))
  <2>1. c \in Seq(S) /\ o \in Seq(S) /\ n9 \in Seq(S)
    BY ONLY <1>0, <1>4
  <2> QED BY ONLY <2>1, Shift
<1>12. Cat(Cat(n13, n15), n7) = Cat(n13, Cat(n15, n7))
  <2>1. n13 \in Seq(S) /\ n15 \in Seq(S) /\ n7 \in Seq(S)
    BY ONLY <1>0, <1>2, <1>3, <1>2
  <2> QED BY ONLY <2>1, Shift
<1>13. Cat(Cat(n14, c), n7) = Cat(n14, Cat(c, n7))
  <2>1. n14 \in Seq(S) /\ c \in Seq(S) /\ n7 \in Seq(S)
    BY ONLY <1>0, <1>2, <1>2
  <2> QED BY ONLY <2>1, Shift
<1>14. Cat(Cat(o, m), n8) = Cat(o, Cat(m, n8))
  <2>1. o \in Seq(S) /\ m \in Seq(S) /\ n8 \in Seq(S)
    BY ONLY <1>0, <1>3
  <2> QED BY ONLY <2>1, Shift
<1>15. Cat(Cat(k, c), n10) = Cat(k, Cat(c, n10))
  <2>1. k \in Seq(S) /\ c \in Seq(S) /\ n10 \in Seq(S)
    BY ONLY <1>0, <1>5
  <2> QED BY ONLY <2>1, Shift
<1> QED BY ONLY <1>1, <1>8, <1>9, <1>10, <1>11, <1>12, <1>13, <1>14, <1>15 DEF NextSaidSame

(* Results, after a context that is not closed.                            *)
ResultsSaidOf(S, k, f, j, e, c, b) ==
    /\ k \in Seq(S) /\ f \in Seq(S) /\ j \in Seq(S) /\ e \in Seq(S)
    /\ c \in Seq(S) /\ b \in Seq(S)

(* Results, as they are decoded and as they are rendered.                  *)
ResultsSaidSame(k, f, j, e, c, b) ==
    Cat(k, Cat(Cat(Cat(c, f), j), Cat(e, Cat(c, b)))) =
    Cat(Cat(Cat(k, c), Cat(Cat(Cat(f, j), e), c)), b)

(* They are the same text.                                                 *)
LEMMA ResultsSaidRegrouped ==
    ASSUME NEW S, NEW k, NEW f, NEW j, NEW e, NEW c, NEW b,
           ResultsSaidOf(S, k, f, j, e, c, b)
    PROVE  ResultsSaidSame(k, f, j, e, c, b)
<1>0. /\ k \in Seq(S) /\ f \in Seq(S) /\ j \in Seq(S) /\ e \in Seq(S)
      /\ c \in Seq(S) /\ b \in Seq(S)
  BY DEF ResultsSaidOf
<1> DEFINE n1 == Cat(c, f)  n2 == Cat(n1, j)  n3 == Cat(c, b)  n4 == Cat(e, n3)
           n5 == Cat(n2, n4)  n6 == Cat(k, n5)  n7 == Cat(j, n4)  n8 == Cat(f, n7)
           n9 == Cat(c, n8)  n10 == Cat(k, n9)  n11 == Cat(k, c)  n12 == Cat(f, j)
           n13 == Cat(n12, e)  n14 == Cat(n13, c)  n15 == Cat(n11, n14)  n16 == Cat(n15, b)
<1>1. /\ n1 = Cat(c, f) /\ n2 = Cat(n1, j) /\ n3 = Cat(c, b)
      /\ n4 = Cat(e, n3) /\ n5 = Cat(n2, n4) /\ n6 = Cat(k, n5)
      /\ n7 = Cat(j, n4) /\ n8 = Cat(f, n7) /\ n9 = Cat(c, n8)
      /\ n10 = Cat(k, n9) /\ n11 = Cat(k, c) /\ n12 = Cat(f, j)
      /\ n13 = Cat(n12, e) /\ n14 = Cat(n13, c) /\ n15 = Cat(n11, n14)
      /\ n16 = Cat(n15, b)
  OBVIOUS
<1> HIDE DEF n1, n2, n3, n4, n5, n6, n7, n8, n9, n10, n11, n12, n13, n14, n15, n16
<1>2. /\ n1 \in Seq(S) /\ n3 \in Seq(S) /\ n11 \in Seq(S) /\ n12 \in Seq(S)
  BY ONLY <1>1, <1>0, CatLaws
<1>3. /\ n2 \in Seq(S) /\ n4 \in Seq(S) /\ n13 \in Seq(S)
  BY ONLY <1>1, <1>0, <1>2, CatLaws
<1>4. /\ n5 \in Seq(S) /\ n7 \in Seq(S) /\ n14 \in Seq(S)
  BY ONLY <1>1, <1>0, <1>3, CatLaws
<1>5. /\ n6 \in Seq(S) /\ n8 \in Seq(S) /\ n15 \in Seq(S)
  BY ONLY <1>1, <1>0, <1>2, <1>4, CatLaws
<1>6. /\ n9 \in Seq(S) /\ n16 \in Seq(S)
  BY ONLY <1>1, <1>0, <1>5, CatLaws
<1>7. /\ n10 \in Seq(S)
  BY ONLY <1>1, <1>0, <1>6, CatLaws
<1>8. Cat(Cat(n1, j), n4) = Cat(n1, Cat(j, n4))
  <2>1. n1 \in Seq(S) /\ j \in Seq(S) /\ n4 \in Seq(S)
    BY ONLY <1>0, <1>2, <1>3
  <2> QED BY ONLY <2>1, Shift
<1>9. Cat(Cat(c, f), n7) = Cat(c, Cat(f, n7))
  <2>1. c \in Seq(S) /\ f \in Seq(S) /\ n7 \in Seq(S)
    BY ONLY <1>0, <1>4
  <2> QED BY ONLY <2>1, Shift
<1>10. Cat(Cat(n11, n14), b) = Cat(n11, Cat(n14, b))
  <2>1. n11 \in Seq(S) /\ n14 \in Seq(S) /\ b \in Seq(S)
    BY ONLY <1>0, <1>2, <1>4
  <2> QED BY ONLY <2>1, Shift
<1>11. Cat(Cat(n13, c), b) = Cat(n13, Cat(c, b))
  <2>1. n13 \in Seq(S) /\ c \in Seq(S) /\ b \in Seq(S)
    BY ONLY <1>0, <1>3
  <2> QED BY ONLY <2>1, Shift
<1>12. Cat(Cat(n12, e), n3) = Cat(n12, Cat(e, n3))
  <2>1. n12 \in Seq(S) /\ e \in Seq(S) /\ n3 \in Seq(S)
    BY ONLY <1>0, <1>2, <1>2
  <2> QED BY ONLY <2>1, Shift
<1>13. Cat(Cat(f, j), n4) = Cat(f, Cat(j, n4))
  <2>1. f \in Seq(S) /\ j \in Seq(S) /\ n4 \in Seq(S)
    BY ONLY <1>0, <1>3
  <2> QED BY ONLY <2>1, Shift
<1>14. Cat(Cat(k, c), n8) = Cat(k, Cat(c, n8))
  <2>1. k \in Seq(S) /\ c \in Seq(S) /\ n8 \in Seq(S)
    BY ONLY <1>0, <1>5
  <2> QED BY ONLY <2>1, Shift
<1> QED BY ONLY <1>1, <1>8, <1>9, <1>10, <1>11, <1>12, <1>13, <1>14 DEF ResultsSaidSame

(* One piece more of an answer.                                            *)
SampledOf(S, w, b, p, f, x) ==
    /\ w \in Seq(S) /\ b \in Seq(S) /\ p \in Seq(S) /\ f \in Seq(S)
    /\ x \in Seq(S)

(* An answer with a piece more, as it is decoded and as it is rendered.    *)
SampledSame(w, b, p, f, x) ==
    Cat(Cat(w, Cat(b, Cat(p, f))), x) =
    Cat(w, Cat(b, Cat(p, Cat(f, x))))

(* They are the same text.                                                 *)
LEMMA SampledRegrouped ==
    ASSUME NEW S, NEW w, NEW b, NEW p, NEW f, NEW x,
           SampledOf(S, w, b, p, f, x)
    PROVE  SampledSame(w, b, p, f, x)
<1>0. /\ w \in Seq(S) /\ b \in Seq(S) /\ p \in Seq(S) /\ f \in Seq(S)
      /\ x \in Seq(S)
  BY DEF SampledOf
<1> DEFINE n1 == Cat(p, f)  n2 == Cat(b, n1)  n3 == Cat(w, n2)  n4 == Cat(n3, x)
           n5 == Cat(f, x)  n6 == Cat(p, n5)  n7 == Cat(b, n6)  n8 == Cat(w, n7)
<1>1. /\ n1 = Cat(p, f) /\ n2 = Cat(b, n1) /\ n3 = Cat(w, n2)
      /\ n4 = Cat(n3, x) /\ n5 = Cat(f, x) /\ n6 = Cat(p, n5)
      /\ n7 = Cat(b, n6) /\ n8 = Cat(w, n7)
  OBVIOUS
<1> HIDE DEF n1, n2, n3, n4, n5, n6, n7, n8
<1>2. /\ n1 \in Seq(S) /\ n5 \in Seq(S)
  BY ONLY <1>1, <1>0, CatLaws
<1>3. /\ n2 \in Seq(S) /\ n6 \in Seq(S)
  BY ONLY <1>1, <1>0, <1>2, CatLaws
<1>4. /\ n3 \in Seq(S) /\ n7 \in Seq(S)
  BY ONLY <1>1, <1>0, <1>3, CatLaws
<1>5. /\ n4 \in Seq(S) /\ n8 \in Seq(S)
  BY ONLY <1>1, <1>0, <1>4, CatLaws
<1>6. Cat(Cat(w, n2), x) = Cat(w, Cat(n2, x))
  <2>1. w \in Seq(S) /\ n2 \in Seq(S) /\ x \in Seq(S)
    BY ONLY <1>0, <1>3
  <2> QED BY ONLY <2>1, Shift
<1>7. Cat(Cat(b, n1), x) = Cat(b, Cat(n1, x))
  <2>1. b \in Seq(S) /\ n1 \in Seq(S) /\ x \in Seq(S)
    BY ONLY <1>0, <1>2
  <2> QED BY ONLY <2>1, Shift
<1>8. Cat(Cat(p, f), x) = Cat(p, Cat(f, x))
  <2>1. p \in Seq(S) /\ f \in Seq(S) /\ x \in Seq(S)
    BY ONLY <1>0
  <2> QED BY ONLY <2>1, Shift
<1> QED BY ONLY <1>1, <1>6, <1>7, <1>8 DEF SampledSame

(* The messages of turns, and a conversation of them as a template is to   *)
(* render it.                                                              *)
Said(words) ==
    [role : {"user", "assistant", "tool"}, content : Seq(words),
     calls : {<<>>}, responses : {<<>>}]

(* System text and turns, as messages.                                     *)
Log(system, turns) == SystemMessages(system) \o turns

(* What the template renders of them.                                      *)
Text(t, system, tools, turns) == Whole(t, Log(system, turns), tools)

(* A conversation of the words, and a template that can be probed.         *)
Conversing(words, t, system, tools, turns) ==
    /\ Marks \subseteq words /\ t \in Templates(words) /\ t.quirk = "none"
    /\ IsOption(system, Seq(words)) /\ tools \in Lists(words)
    /\ turns \in Seq(Said(words))

(* What is known of its messages and of its text.                          *)
LogFacts(words, t, system, tools, turns) ==
    /\ Log(system, turns) \in Seq(Plain(words))
    /\ SystemTexts(Log(system, turns)) = system
    /\ LET last == RoleAt(Log(system, turns), Len(Log(system, turns)))
       IN IF turns = <<>> THEN last \in {"none", "system"}
          ELSE last = RoleAt(turns, Len(turns))
    /\ Text(t, system, tools, turns) \in Seq(words)
    /\ Text(t, system, tools, turns) =
       Heading(t, system, tools) \o Body(t, Log(system, turns))
    /\ \A x \in Said(words) : Log(system, Append(turns, x)) = Append(Log(system, turns), x)
    /\ Rendered(t, Log(system, turns), tools) =
       IF Renders(t, system) THEN {Text(t, system, tools, turns)} ELSE {}

(* Its system text is the conversation's.                                  *)
LEMMA LogIs ==
    ASSUME NEW words, NEW t, NEW system, NEW tools, NEW turns,
           Conversing(words, t, system, tools, turns)
    PROVE  LogFacts(words, t, system, tools, turns)
<1> DEFINE P == Plain(words)  sm == SystemMessages(system)  n == sm \o turns
<1>0. /\ Marks \subseteq words /\ t \in Templates(words) /\ t.quirk = "none"
      /\ IsOption(system, Seq(words)) /\ tools \in Lists(words)
      /\ turns \in Seq(Said(words)) /\ t.lead \in Seq(words)
  BY DEF Conversing, Templates
<1>1. turns \in Seq(P) /\ \A i \in DOMAIN turns : turns[i].role # "system"
  <2>1. Said(words) \subseteq P
    BY DEF Said, Plain
  <2>2. turns \in Seq(P)
    <3> DEFINE A == Said(words)
    <3>1. A \subseteq P /\ turns \in Seq(A)
      BY <1>0, <2>1
    <3> HIDE DEF A, P
    <3> QED BY ONLY <3>1, SeqMonotonic
  <2>3. ASSUME NEW i \in DOMAIN turns PROVE turns[i].role # "system"
    <3>1. turns[i] \in Said(words)
      BY <1>0, <2>3
    <3> QED BY <3>1 DEF Said
  <2> QED BY <2>2, <2>3
<1>2. /\ sm \in Seq(P) /\ SystemTexts(sm) = system /\ Len(sm) \in Nat
      /\ system = {} => sm = <<>>
      /\ \A s \in system : sm = <<Message("system", s)>>
  BY ONLY <1>0, SystemMessagesAre
<1> HIDE DEF sm
<1>3. /\ n \in Seq(P) /\ Len(n) = Len(sm) + Len(turns) /\ Len(turns) \in Nat
      /\ \A i \in 1..Len(sm) : n[i] = sm[i]
      /\ \A i \in 1..Len(turns) : n[Len(sm) + i] = turns[i]
  <2>1. sm \in Seq(P) /\ turns \in Seq(P)
    BY <1>1, <1>2
  <2> HIDE DEF P
  <2>2. Len(turns) \in Nat
    BY ONLY <2>1
  <2> QED BY ONLY <2>1, <2>2, Halves
<1>4. n = Log(system, turns)
  BY DEF Log, sm
<1>5. DOMAIN n = 1..(Len(sm) + Len(turns)) /\ DOMAIN sm = 1..Len(sm) /\ DOMAIN turns = 1..Len(turns)
  <2> HIDE DEF n, P
  <2> QED BY ONLY <1>1, <1>2, <1>3
<1> HIDE DEF n
<1>6. SystemTexts(n) = system
  <2>1. ASSUME NEW i \in DOMAIN n, n[i].role = "system" PROVE i \in DOMAIN sm
    <3> SUFFICES ASSUME i \notin 1..Len(sm) PROVE FALSE
      BY <1>5
    <3>1. i - Len(sm) \in 1..Len(turns) /\ i = Len(sm) + (i - Len(sm))
      BY <1>2, <1>3, <1>5
    <3>2. n[i] = turns[i - Len(sm)]
      BY <1>3, <3>1
    <3> QED BY <1>1, <1>5, <2>1, <3>1, <3>2
  <2>2. \A i \in DOMAIN sm : i \in DOMAIN n /\ n[i] = sm[i]
    BY <1>2, <1>3, <1>5
  <2>3. {j \in DOMAIN n : n[j].role = "system"} = {j \in DOMAIN sm : sm[j].role = "system"}
    BY <2>1, <2>2
  <2>4. SystemTexts(n) = SystemTexts(sm)
    BY <2>2, <2>3 DEF SystemTexts
  <2> QED BY <1>2, <2>4
<1>7. IF turns = <<>> THEN RoleAt(n, Len(n)) \in {"none", "system"}
      ELSE RoleAt(n, Len(n)) = RoleAt(turns, Len(turns))
  <2>1. CASE turns = <<>>
    <3>1. Len(turns) = 0
      BY <2>1
    <3>2. CASE Len(sm) = 0
      <4>1. Len(n) \notin DOMAIN n
        BY <1>3, <1>5, <3>1, <3>2
      <4> QED BY <2>1, <4>1 DEF RoleAt
    <3>3. CASE Len(sm) # 0
      <4>1. \E s \in system : TRUE
        <5>1. system # {}
          BY <1>2, <3>3
        <5> QED BY <5>1
      <4>2. PICK s \in system : sm = <<Message("system", s)>>
        BY <1>2, <4>1
      <4>3. Len(sm) = 1 /\ sm[1].role = "system"
        BY <4>2 DEF Message
      <4>4. Len(n) = 1 /\ 1 \in DOMAIN n /\ n[1] = sm[1]
        BY <1>3, <1>5, <3>1, <4>3
      <4> QED BY <2>1, <4>3, <4>4 DEF RoleAt
    <3> QED BY <3>2, <3>3
  <2>2. CASE turns # <<>>
    <3>1. Len(turns) # 0
      <4> HIDE DEF P
      <4> QED BY <1>1, <2>2
    <3>2. /\ Len(turns) \in 1..Len(turns) /\ Len(n) = Len(sm) + Len(turns)
          /\ Len(n) \in DOMAIN n
      BY <1>2, <1>3, <1>5, <3>1
    <3>3. n[Len(n)] = turns[Len(turns)]
      BY ONLY <1>3, <3>2
    <3> QED BY <1>5, <2>2, <3>2, <3>3 DEF RoleAt
  <2> QED BY <2>1, <2>2
<1>8. \A x \in Said(words) : sm \o Append(turns, x) = Append(sm \o turns, x)
  <2> TAKE x \in Said(words)
  <2>1. x \in P /\ sm \in Seq(P) /\ turns \in Seq(P)
    BY <1>1, <1>2 DEF Said, Plain
  <2> HIDE DEF P
  <2>2. Append(turns, x) = turns \o <<x>> /\ <<x>> \in Seq(P)
    BY ONLY <2>1, AppendOne, SMTT(30)
  <2>3. Append(sm \o turns, x) = (sm \o turns) \o <<x>>
    <3> DEFINE y == sm \o turns
    <3>1. y \in Seq(P)
      BY ONLY <2>1, ConcatProperties
    <3> HIDE DEF y
    <3>2. Append(y, x) = y \o <<x>>
      BY ONLY <2>1, <3>1, AppendOne
    <3> QED BY ONLY <3>2 DEF y
  <2>4. (sm \o turns) \o <<x>> = sm \o (turns \o <<x>>)
    BY ONLY <2>1, <2>2, ConcatAssociative, SMTT(30)
  <2> QED BY ONLY <2>2, <2>3, <2>4
<1>9. /\ Whole(t, n, tools) \in Seq(words)
      /\ Rendered(t, n, tools) = IF Renders(t, SystemTexts(n)) THEN {Whole(t, n, tools)} ELSE {}
  <2>1. n \in Seq(Plain(words))
    BY <1>3
  <2> QED BY ONLY <1>0, <2>1, RenderIs
<1>10. Whole(t, n, tools) = Heading(t, system, tools) \o Body(t, n)
  BY <1>6 DEF Whole
<1>11. \A x \in Said(words) : Log(system, Append(turns, x)) = Append(Log(system, turns), x)
  BY ONLY <1>8 DEF Log, sm
<1> HIDE DEF P
<1>12. n \in Seq(Plain(words))
  BY <1>3 DEF P
<1> QED BY ONLY <1>4, <1>6, <1>7, <1>9, <1>10, <1>11, <1>12 DEF LogFacts, Text

(* What a turn adds to the rendered conversation.                          *)
Grows(words, t, system, tools, turns) ==
    /\ \A x \in Said(words) : x.role = "user" =>
         Text(t, system, tools, Append(turns, x)) =
         Text(t, system, tools, turns) \o UserTurn(t, x.content)
    /\ \A x \in Said(words) :
         (x.role = "assistant" /\ RoleAt(turns, Len(turns)) # "assistant") =>
         Text(t, system, tools, Append(turns, x)) =
         Text(t, system, tools, turns) \o Answered(t, x.content)
    /\ \A results \in Lists(words) :
         (/\ turns # <<>> /\ t.results = "role" /\ RoleAt(turns, Len(turns)) # "tool"
          /\ Len(results) # 0) =>
         /\ ResultsTurn(results) \in Seq(words)
         /\ Text(t, system, tools, turns \o ToolMessages(results)) =
            Text(t, system, tools, turns) \o ResultsTurn(results)
    /\ turns = <<>> => Text(t, system, tools, turns) = Heading(t, system, tools)

(* A turn more is rendered after the turns so far.                         *)
LEMMA GrowsIs ==
    ASSUME NEW words, NEW t, NEW system, NEW tools, NEW turns,
           Conversing(words, t, system, tools, turns)
    PROVE  Grows(words, t, system, tools, turns)
<1> DEFINE n == Log(system, turns)  h == Heading(t, system, tools)  b == Body(t, n)
<1>0. /\ Marks \subseteq words /\ t \in Templates(words) /\ t.quirk = "none"
      /\ IsOption(system, Seq(words)) /\ tools \in Lists(words)
      /\ turns \in Seq(Said(words)) /\ t.lead \in Seq(words)
  BY DEF Conversing, Templates
<1>1. LogFacts(words, t, system, tools, turns)
  BY LogIs
<1>2. /\ n \in Seq(Plain(words)) /\ SystemTexts(n) = system
      /\ IF turns = <<>> THEN RoleAt(n, Len(n)) \in {"none", "system"}
         ELSE RoleAt(n, Len(n)) = RoleAt(turns, Len(turns))
      /\ Text(t, system, tools, turns) = h \o b
      /\ \A x \in Said(words) : Log(system, Append(turns, x)) = Append(n, x)
  BY ONLY <1>1 DEF LogFacts
<1>3. h \in Seq(words) /\ b \in Seq(words)
  <2>1. system \in SUBSET Seq(words)
    BY <1>0 DEF IsOption
  <2> QED BY ONLY <1>0, <1>2, <2>1, HeadingType, BodyType
<1> HIDE DEF h, n
<1>4. ASSUME NEW x \in Said(words)
      PROVE  Text(t, system, tools, Append(turns, x)) = h \o Body(t, Append(n, x))
  <2>1. Append(turns, x) \in Seq(Said(words))
    <3> DEFINE A == Said(words)
    <3>1. turns \in Seq(A) /\ x \in A
      BY <1>0
    <3> HIDE DEF A
    <3>2. Append(turns, x) \in Seq(A)
      BY ONLY <3>1
    <3> QED BY <3>2 DEF A
  <2>2. Conversing(words, t, system, tools, Append(turns, x))
    BY ONLY <1>0, <2>1 DEF Conversing
  <2>3. LogFacts(words, t, system, tools, Append(turns, x))
    BY ONLY <2>2, LogIs
  <2>4. Text(t, system, tools, Append(turns, x)) = h \o Body(t, Log(system, Append(turns, x)))
    BY ONLY <2>3 DEF LogFacts, h
  <2> QED BY <1>2, <2>4
<1>5. ASSUME NEW x \in Said(words) PROVE x \in Plain(words) /\ x.content \in Seq(words)
  BY DEF Said, Plain
<1>6. ASSUME NEW x \in Said(words), x.role = "user"
      PROVE  Text(t, system, tools, Append(turns, x)) =
             Text(t, system, tools, turns) \o UserTurn(t, x.content)
  <2>1. Body(t, Append(n, x)) = b \o UserTurn(t, x.content)
    BY ONLY <1>0, <1>2, <1>5, <1>6, UserAppended
  <2>2. UserTurn(t, x.content) \in Seq(words)
    BY ONLY <1>0, <1>5, <1>6, UserTurnType
  <2> HIDE DEF b
  <2>3. (h \o b) \o UserTurn(t, x.content) = h \o (b \o UserTurn(t, x.content))
    BY ONLY <1>3, <2>2, ConcatAssociative
  <2> QED BY ONLY <1>2, <1>4, <1>6, <2>1, <2>3
<1>7. ASSUME NEW x \in Said(words), x.role = "assistant", RoleAt(turns, Len(turns)) # "assistant"
      PROVE  Text(t, system, tools, Append(turns, x)) =
             Text(t, system, tools, turns) \o Answered(t, x.content)
  <2>0. RoleAt(n, Len(n)) # "assistant"
    BY <1>2, <1>7
  <2>1. Body(t, Append(n, x)) = b \o Answered(t, x.content)
    BY ONLY <1>0, <1>2, <1>5, <1>7, <2>0, AnswerAppended
  <2>2. Answered(t, x.content) \in Seq(words)
    BY ONLY <1>0, <1>5, <1>7, AnsweredType
  <2> HIDE DEF b
  <2>3. (h \o b) \o Answered(t, x.content) = h \o (b \o Answered(t, x.content))
    BY ONLY <1>3, <2>2, ConcatAssociative
  <2> QED BY ONLY <1>2, <1>4, <1>7, <2>1, <2>3
<1>8. ASSUME NEW results \in Lists(words), turns # <<>>, t.results = "role",
             RoleAt(turns, Len(turns)) # "tool", Len(results) # 0
      PROVE  /\ ResultsTurn(results) \in Seq(words)
             /\ Text(t, system, tools, turns \o ToolMessages(results)) =
                Text(t, system, tools, turns) \o ResultsTurn(results)
  <2> DEFINE tm == ToolMessages(results)
  <2>0. RoleAt(n, Len(n)) # "tool"
    BY <1>2, <1>8
  <2>1. /\ ResultsTurn(results) \in Seq(words)
        /\ Body(t, n \o tm) = b \o ResultsTurn(results)
    BY ONLY <1>0, <1>2, <1>8, <2>0, ResultsAppended, SMTT(30)
  <2>2. tm \in Seq(Said(words))
    <3>1. Len(results) \in Nat /\ DOMAIN results = 1..Len(results) /\
          \A j \in 1..Len(results) : results[j] \in Seq(words)
      BY <1>8 DEF Lists
    <3> DEFINE k == Len(results)  A == Said(words)
    <3>2. tm \in [1..k -> A] /\ k \in Nat
      BY <3>1 DEF ToolMessages, Message, Said
    <3> HIDE DEF tm, k, A
    <3>3. tm \in Seq(A)
      BY ONLY <3>2
    <3> QED BY <3>3 DEF A
  <2> HIDE DEF tm
  <2>3. turns \o tm \in Seq(Said(words)) /\ Log(system, turns \o tm) = n \o tm
    <3> DEFINE A == Said(words)  P == Plain(words)  sm == SystemMessages(system)
    <3>1. turns \in Seq(A) /\ tm \in Seq(A) /\ A \subseteq P
      BY <1>0, <2>2 DEF Said, Plain
    <3>2. sm \in Seq(P)
      BY ONLY <1>0, SystemMessagesAre
    <3> HIDE DEF A, P, sm
    <3>3. turns \o tm \in Seq(A)
      BY ONLY <3>1, ConcatProperties
    <3>4. turns \in Seq(P) /\ tm \in Seq(P)
      BY ONLY <3>1, SeqMonotonic
    <3>5. sm \o (turns \o tm) = (sm \o turns) \o tm
      BY ONLY <3>2, <3>4, ConcatAssociative, SMTT(30)
    <3> QED BY <3>3, <3>5 DEF A, sm, Log, n
  <2>4. Conversing(words, t, system, tools, turns \o tm)
    BY ONLY <1>0, <2>3 DEF Conversing
  <2>5. LogFacts(words, t, system, tools, turns \o tm)
    BY ONLY <2>4, LogIs
  <2>6. Text(t, system, tools, turns \o tm) = h \o Body(t, Log(system, turns \o tm))
    BY ONLY <2>5 DEF LogFacts, h
  <2> HIDE DEF b
  <2>7. (h \o b) \o ResultsTurn(results) = h \o (b \o ResultsTurn(results))
    BY ONLY <1>3, <2>1, ConcatAssociative, SMTT(30)
  <2> QED BY ONLY <1>2, <2>1, <2>3, <2>6, <2>7 DEF tm
<1>9. ASSUME turns = <<>> PROVE Text(t, system, tools, turns) = h
  <2>1. n = SystemMessages(system)
    <3>1. SystemMessages(system) \in Seq(Plain(words))
      BY ONLY <1>0, SystemMessagesAre
    <3>2. SystemMessages(system) \o <<>> = SystemMessages(system)
      BY ONLY <3>1, ConcatEmptySeq
    <3> QED BY <1>9, <3>2 DEF n, Log
  <2>2. b = <<>>
    <3>1. Body(t, <<>>) = <<>> /\ \A z \in Plain(words) : z.role = "system" => Body(t, <<z>>) = <<>>
      BY ONLY <1>0, NoTurns
    <3>2. CASE system = {}
      <4>1. n = <<>>
        BY ONLY <1>0, <2>1, <3>2, SystemMessagesAre
      <4> QED BY <3>1, <4>1
    <3>3. ASSUME NEW s \in Seq(words), system = {s} PROVE b = <<>>
      <4>1. s \in system
        BY <3>3
      <4>2. n = <<Message("system", s)>>
        BY ONLY <1>0, <2>1, <4>1, SystemMessagesAre
      <4>3. Message("system", s) \in Plain(words) /\ Message("system", s).role = "system"
        BY DEF Message, Plain
      <4> QED BY ONLY <3>1, <4>2, <4>3
    <3> HIDE DEF b
    <3> QED BY <1>0, <3>2, <3>3, OptionIs
  <2>3. h \o <<>> = h
    BY ONLY <1>3, ConcatEmptySeq
  <2> QED BY ONLY <1>2, <2>2, <2>3
<1> QED BY ONLY <1>6, <1>7, <1>8, <1>9 DEF Grows, h

(* A text that begins with one that is not empty is not empty.             *)
LEMMA Fuller ==
    ASSUME NEW S
    PROVE  \A x \in Seq(S) \ {<<>>}, y \in Seq(S) : x \o y \in Seq(S) \ {<<>>}
<1> SUFFICES ASSUME NEW x \in Seq(S), x # <<>>, NEW y \in Seq(S)
             PROVE  x \o y \in Seq(S) /\ x \o y # <<>>
  OBVIOUS
<1>1. Len(x) # 0 /\ Len(x) \in Nat /\ Len(y) \in Nat
  OBVIOUS
<1>2. x \o y \in Seq(S) /\ Len(x \o y) = Len(x) + Len(y)
  BY Halves
<1>3. Len(x \o y) # 0
  BY <1>1, <1>2
<1> DEFINE z == x \o y
<1>4. ASSUME z = <<>> PROVE FALSE
  BY <1>3, <1>4
<1> QED BY <1>2, <1>4

(* Flattening keeps what comes first.                                      *)
LEMMA FlattenNonEmpty ==
    ASSUME NEW S, NEW seqs \in Seq(Seq(S)), Len(seqs) # 0, seqs[1] # <<>>
    PROVE  FlattenSeq(seqs) \in Seq(S) \ {<<>>}
<1> DEFINE n == Len(seqs)  F(j) == FlattenSeq(SubSeq(seqs, 1, j))
           Bad == {j \in 1..n : F(j) \notin Seq(S) \ {<<>>}}
<1>1. n \in Nat /\ n # 0 /\ \A i \in 1..n : seqs[i] \in Seq(S)
  OBVIOUS
<1>2. ASSUME NEW j \in 1..n PROVE F(j) = F(j - 1) \o seqs[j]
  BY FlattenUpTo
<1>3. SubSeq(seqs, 1, n) = seqs
  BY <1>1
<1>4. F(0) = <<>>
  <2>1. SubSeq(seqs, 1, 0) = <<>>
    OBVIOUS
  <2> QED BY <2>1, FlattenEmpty
<1>5. F(n) = FlattenSeq(seqs)
  BY <1>3
<1>6. seqs[1] \in Seq(S) \ {<<>>}
  BY <1>1
<1> HIDE DEF n, F
<1>7. Bad = {}
  <2> SUFFICES ASSUME Bad # {} PROVE FALSE
    OBVIOUS
  <2>1. PICK k \in Bad : \A j \in Bad : k <= j
    <3>1. Bad \subseteq Nat
      OBVIOUS
    <3> HIDE DEF Bad
    <3> QED BY <3>1, LeastOf
  <2>2. k \in 1..n /\ F(k) \notin Seq(S) \ {<<>>}
    BY <2>1
  <2>3. CASE k = 1
    <3>1. F(1) = F(0) \o seqs[1]
      <4>1. 1 \in 1..n /\ 1 - 1 = 0
        BY <1>1
      <4>2. F(1) = F(1 - 1) \o seqs[1]
        BY <1>2, <4>1
      <4> QED BY ONLY <4>1, <4>2
    <3>2. <<>> \o seqs[1] = seqs[1]
      BY <1>6
    <3> QED BY ONLY <1>4, <1>6, <2>2, <2>3, <3>1, <3>2
  <2>4. CASE k # 1
    <3>1. ~(k <= k - 1) /\ k - 1 \in 1..n
      BY <1>1, <2>2, <2>4
    <3>2. F(k - 1) \in Seq(S) \ {<<>>}
      <4>1. k - 1 \notin Bad
        <5> HIDE DEF Bad
        <5> QED BY <2>1, <3>1
      <4> QED BY <3>1, <4>1
    <3>3. F(k) = F(k - 1) \o seqs[k] /\ seqs[k] \in Seq(S)
      BY <1>1, <1>2, <2>2
    <3> QED BY ONLY <2>2, <3>2, <3>3, Fuller
  <2> QED BY <2>3, <2>4
<1>8. F(n) \in Seq(S) \ {<<>>}
  <2>1. n \in 1..n
    BY <1>1
  <2> QED BY <1>7, <2>1
<1> QED BY <1>5, <1>8

(* A text is in another once, when the rest has none of its words.         *)
LEMMA PlacesOnce ==
    ASSUME NEW A, NEW B, A \cap B = {}, NEW x \in Seq(A), NEW y \in Seq(A),
           NEW s \in Seq(B), s # <<>>
    PROVE  Places(x \o (s \o y), s) = {Len(x) + 1}
<1> DEFINE T == A \cup B  text == x \o (s \o y)  n == Len(x)  m == Len(s)  k == Len(y)
<1>1. /\ n \in Nat /\ m \in Nat \ {0} /\ k \in Nat
      /\ \A i \in 1..n : x[i] \in A
      /\ \A i \in 1..m : s[i] \in B
      /\ \A i \in 1..k : y[i] \in A
  OBVIOUS
<1>2. x \in Seq(T) /\ y \in Seq(T) /\ s \in Seq(T)
  <2>1. A \subseteq T /\ B \subseteq T
    OBVIOUS
  <2> HIDE DEF T
  <2> QED BY ONLY <2>1, SeqMonotonic, x \in Seq(A), y \in Seq(A), s \in Seq(B)
<1>3. /\ text \in Seq(T) /\ Len(text) = (n + m) + k
      /\ \A i \in 1..n : text[i] = x[i]
      /\ \A i \in 1..m : text[n + i] = s[i]
      /\ \A i \in 1..k : text[(n + m) + i] = y[i]
      /\ SubSeq(text, n + 1, n + m) = s
  <2> HIDE DEF T
  <2>1. /\ text \in Seq(T) /\ Len(text) = Len(x) + Len(s) + Len(y)
        /\ \A i \in 1..Len(x) : text[i] = x[i]
        /\ \A i \in 1..Len(s) : text[Len(x) + i] = s[i]
        /\ \A i \in 1..Len(y) : text[Len(x) + Len(s) + i] = y[i]
        /\ SubSeq(text, Len(x) + 1, Len(x) + Len(s)) = s
    <3>1. Placed(T, x, s, y, text)
      BY ONLY <1>2, PartsPlaced
    <3> HIDE DEF text
    <3> QED BY ONLY <3>1 DEF Placed
  <2> HIDE DEF text
  <2> QED BY ONLY <2>1
<1> HIDE DEF text
<1>4. Places(text, s) = {i \in 1..(((n + m) + k) + 1 - m) : SubSeq(text, i, i + m - 1) = s}
  BY <1>3 DEF Places
<1>5. n + 1 \in Places(text, s)
  <2>1. n + 1 \in 1..(((n + m) + k) + 1 - m) /\ (n + 1) + m - 1 = n + m
    BY ONLY <1>1
  <2> QED BY ONLY <1>3, <1>4, <2>1
<1>6. ASSUME NEW i \in Places(text, s) PROVE i = n + 1
  <2>1. /\ i \in 1..(((n + m) + k) + 1 - m) /\ SubSeq(text, i, i + m - 1) = s
    BY <1>4
  <2>2. i \in Nat /\ i >= 1 /\ i + m - 1 <= (n + m) + k
    BY ONLY <1>1, <2>1
  <2>3. ASSUME NEW j \in 1..m PROVE text[(i - 1) + j] = s[j]
    <3>1. SubSeq(text, i, i + m - 1)[j] = text[i + j - 1]
      <4>1. text \in Seq(T) /\ i \in 1..((n + m) + k) /\ i + m - 1 \in 1..((n + m) + k)
            /\ j \in 1..((i + m - 1) - i + 1)
        BY ONLY <1>1, <1>3, <2>2, <2>3
      <4> HIDE DEF T
      <4> QED BY ONLY <1>1, <1>3, <4>1
    <3>2. i + j - 1 = (i - 1) + j
      BY ONLY <1>1, <2>2, <2>3
    <3> QED BY ONLY <2>1, <3>1, <3>2
  <2>4. ASSUME i < n + 1 PROVE FALSE
    <3>1. 1 \in 1..m /\ (i - 1) + 1 = i /\ i \in 1..n
      BY ONLY <1>1, <2>2, <2>4
    <3>2. text[i] = s[1] /\ text[i] = x[i]
      <4>1. text[(i - 1) + 1] = s[1]
        BY ONLY <2>3, <3>1
      <4> QED BY ONLY <1>3, <3>1, <4>1
    <3>3. x[i] \in A /\ s[1] \in B
      BY ONLY <1>1, <3>1
    <3> QED BY ONLY <3>2, <3>3, A \cap B = {}
  <2>5. ASSUME i > n + 1 PROVE FALSE
    <3> DEFINE d == i - (n + 1)
    <3>1. /\ m \in 1..m /\ (i - 1) + m = (n + m) + d /\ d \in 1..k
      BY ONLY <1>1, <2>2, <2>5
    <3> HIDE DEF d
    <3>2. text[(n + m) + d] = s[m] /\ text[(n + m) + d] = y[d]
      <4>1. text[(i - 1) + m] = s[m]
        BY ONLY <2>3, <3>1
      <4> QED BY ONLY <1>3, <3>1, <4>1
    <3>3. y[d] \in A /\ s[m] \in B
      BY ONLY <1>1, <3>1
    <3> QED BY ONLY <3>2, <3>3, A \cap B = {}
  <2> QED BY ONLY <1>1, <2>2, <2>4, <2>5
<1> QED BY <1>5, <1>6 DEF text

(* Calls of the words.                                                     *)
CallsOf(words) == [name : Seq(words), args : Seq(Seq(words) \X Seq(words))]

(* The markup of calls.                                                    *)
LEMMA CallMarks ==
    ASSUME NEW words, Marks \subseteq words
    PROVE  /\ Tag("tool_call") \in Seq(words) \ {<<>>} /\ Tag("/tool_call") \in Seq(words)
           /\ Tag("|tool_call") \in Seq(words) \ {<<>>} /\ Tag("tool_call|") \in Seq(words)
           /\ Tag("/function") \in Seq(words) /\ Tag("/parameter") \in Seq(words)
           /\ <<"<", "parameter=">> \in Seq(words) /\ <<">", "nl">> \in Seq(words)
           /\ <<"nl">> \in Seq(words) /\ <<"nl", "<", "function=">> \in Seq(words)
           /\ <<"nl", "{">> \in Seq(words) /\ <<":", "{">> \in Seq(words)
           /\ <<"}", ",">> \in Seq(words) /\ <<":">> \in Seq(words) /\ <<",">> \in Seq(words)
           /\ <<"}", "nl">> \in Seq(words) /\ <<"q">> \in Seq(words)
           /\ <<"arguments">> \in Seq(words) /\ <<"name">> \in Seq(words)
           /\ <<"call:">> \in Seq(words) /\ <<"{">> \in Seq(words) /\ <<"}">> \in Seq(words)
           /\ <<"<|q|>">> \in Seq(words)
<1>1. {"<", ">", "q", ":", ",", "{", "}", "call:", "<|q|>", "nl", "tool_call", "/tool_call",
       "|tool_call", "tool_call|", "function=", "/function", "parameter=", "/parameter",
       "arguments", "name"} \subseteq words
  BY Zenon DEF Marks
<1>2. Tag("tool_call") # <<>> /\ Tag("|tool_call") # <<>>
  BY DEF Tag
<1>3. \A a, b, c \in words : <<a>> \in Seq(words) /\ <<a, b>> \in Seq(words) /\
                             <<a, b, c>> \in Seq(words)
  OBVIOUS
<1>4. \A w \in words : Tag(w) \in Seq(words)
  <2>1. "<" \in words /\ ">" \in words
    BY <1>1, Zenon
  <2> QED BY ONLY <1>3, <2>1 DEF Tag
<1> QED BY ONLY <1>1, <1>2, <1>3, <1>4, Zenon

(* A quoted text has its words and those of the markup.                    *)
LEMMA QuotedType ==
    ASSUME NEW words, Marks \subseteq words, NEW text \in Seq(words)
    PROVE  Quoted(text) \in Seq(words)
<1>1. <<"q">> \in Seq(words)
  BY CallMarks, Zenon
<1>2. (<<"q">> \o text) \o <<"q">> \in Seq(words)
  BY ONLY <1>1, text \in Seq(words), ConcatProperties
<1> QED BY <1>2 DEF Quoted

(* A text for every argument of a call.                                    *)
LEMMA ArgsType ==
    ASSUME NEW words, NEW call \in CallsOf(words),
           NEW f, f = [i \in DOMAIN call.args |-> f[i]],
           \A i \in DOMAIN call.args : f[i] \in Seq(words)
    PROVE  f \in Seq(Seq(words))
<1> DEFINE n == Len(call.args)  A == Seq(words)
<1>1. n \in Nat /\ DOMAIN call.args = 1..n
  BY DEF CallsOf
<1>2. f \in [1..n -> A]
  BY <1>1
<1> HIDE DEF n, A
<1>3. f \in Seq(A)
  BY ONLY <1>1, <1>2
<1> QED BY <1>3 DEF A

(* The key and the value of an argument are texts.                         *)
LEMMA CallIs ==
    ASSUME NEW words, NEW call \in CallsOf(words), NEW i \in DOMAIN call.args
    PROVE  call.args[i][1] \in Seq(words) /\ call.args[i][2] \in Seq(words)
<1>1. call.args \in Seq(Seq(words) \X Seq(words))
  BY DEF CallsOf
<1>2. call.args[i] \in Seq(words) \X Seq(words)
  <2> DEFINE P == Seq(words) \X Seq(words)
  <2>1. call.args \in Seq(P)
    BY <1>1
  <2> HIDE DEF P
  <2>2. call.args[i] \in P
    BY <2>1
  <2> QED BY <2>2 DEF P
<1> QED BY <1>2

(* A call as XML is never nothing.                                         *)
LEMMA XmlCallType ==
    ASSUME NEW words, Marks \subseteq words, NEW call \in CallsOf(words)
    PROVE  XmlCall(call) \in Seq(words) \ {<<>>}
<1> DEFINE arg(a) == <<"<", "parameter=">> \o a[1] \o <<">", "nl">> \o a[2] \o
                     <<"nl">> \o Tag("/parameter") \o <<"nl">>
           f == [i \in DOMAIN call.args |-> arg(call.args[i])]
           T == Seq(words)  F == T \ {<<>>}
<1>1. \A x, y \in T : x \o y \in T
  BY ConcatProperties
<1>2. \A x \in F, y \in T : x \o y \in F
  BY Fuller
<1>3. /\ Tag("tool_call") \in F /\ Tag("/tool_call") \in T
      /\ Tag("/function") \in T /\ Tag("/parameter") \in T
      /\ <<"<", "parameter=">> \in T /\ <<">", "nl">> \in T
      /\ <<"nl">> \in T /\ <<"nl", "<", "function=">> \in T
  BY CallMarks, Zenon
<1>4. call.name \in T
  BY DEF CallsOf
<1>5. \A i \in DOMAIN call.args : call.args[i][1] \in T /\ call.args[i][2] \in T
  BY CallIs
<1>6. FlattenSeq(f) \in T
  <2>1. ASSUME NEW i \in DOMAIN call.args PROVE f[i] \in T
    <3>1. call.args[i][1] \in T /\ call.args[i][2] \in T
      BY <1>5
    <3> DEFINE a == call.args[i][1]  b == call.args[i][2]
    <3>2. f[i] = <<"<", "parameter=">> \o a \o <<">", "nl">> \o b \o
                 <<"nl">> \o Tag("/parameter") \o <<"nl">>
      BY Zenon
    <3>3. a \in T /\ b \in T
      BY <3>1
    <3> HIDE DEF T, a, b, f
    <3>4. <<"<", "parameter=">> \o a \in T
      BY ONLY <1>1, <1>3, <3>3
    <3>5. <<"<", "parameter=">> \o a \o <<">", "nl">> \in T
      BY ONLY <1>1, <1>3, <3>4
    <3>6. <<"<", "parameter=">> \o a \o <<">", "nl">> \o b \in T
      BY ONLY <1>1, <3>3, <3>5
    <3>7. <<"<", "parameter=">> \o a \o <<">", "nl">> \o b \o <<"nl">> \in T
      BY ONLY <1>1, <1>3, <3>6
    <3>8. <<"<", "parameter=">> \o a \o <<">", "nl">> \o b \o <<"nl">> \o Tag("/parameter") \in T
      BY ONLY <1>1, <1>3, <3>7
    <3> QED BY ONLY <1>1, <1>3, <3>2, <3>8
  <2>2. f = [i \in DOMAIN call.args |-> f[i]]
    BY Zenon
  <2>3. f \in Seq(Seq(words))
    <3> HIDE DEF f
    <3> QED BY <2>1, <2>2, ArgsType
  <2> QED BY <2>3, FlattenType
<1>7. XmlCall(call) =
      Tag("tool_call") \o <<"nl", "<", "function=">> \o call.name \o <<">", "nl">> \o
      FlattenSeq(f) \o Tag("/function") \o <<"nl">> \o Tag("/tool_call")
  BY DEF XmlCall
<1> HIDE DEF f, T, F
<1>8. Tag("tool_call") \o <<"nl", "<", "function=">> \in F
  BY ONLY <1>2, <1>3
<1>9. Tag("tool_call") \o <<"nl", "<", "function=">> \o call.name \in F
  BY ONLY <1>2, <1>4, <1>8
<1>10. Tag("tool_call") \o <<"nl", "<", "function=">> \o call.name \o <<">", "nl">> \in F
  BY ONLY <1>2, <1>3, <1>9
<1>11. Tag("tool_call") \o <<"nl", "<", "function=">> \o call.name \o <<">", "nl">> \o
       FlattenSeq(f) \in F
  BY ONLY <1>2, <1>6, <1>10
<1>12. Tag("tool_call") \o <<"nl", "<", "function=">> \o call.name \o <<">", "nl">> \o
       FlattenSeq(f) \o Tag("/function") \in F
  BY ONLY <1>2, <1>3, <1>11
<1>13. Tag("tool_call") \o <<"nl", "<", "function=">> \o call.name \o <<">", "nl">> \o
       FlattenSeq(f) \o Tag("/function") \o <<"nl">> \in F
  BY ONLY <1>2, <1>3, <1>12
<1>14. XmlCall(call) \in F
  BY ONLY <1>2, <1>3, <1>7, <1>13
<1> QED BY <1>14 DEF F, T

(* A call as JSON is never nothing.                                        *)
LEMMA JsonCallType ==
    ASSUME NEW words, Marks \subseteq words, NEW call \in CallsOf(words)
    PROVE  JsonCall(call) \in Seq(words) \ {<<>>}
<1> DEFINE arg(a) == Quoted(a[1]) \o <<":">> \o Quoted(a[2])
           f == [i \in DOMAIN call.args |-> arg(call.args[i])]
           T == Seq(words)  F == T \ {<<>>}  args == Join(f, <<",">>)
<1>1. \A x, y \in T : x \o y \in T
  BY ConcatProperties
<1>2. \A x \in F, y \in T : x \o y \in F
  BY Fuller
<1>3. /\ Tag("tool_call") \in F /\ Tag("/tool_call") \in T
      /\ <<"nl", "{">> \in T /\ <<":", "{">> \in T /\ <<"}", ",">> \in T
      /\ <<":">> \in T /\ <<",">> \in T /\ <<"}", "nl">> \in T
      /\ Quoted(<<"arguments">>) \in T /\ Quoted(<<"name">>) \in T
  <2>1. <<"arguments">> \in T /\ <<"name">> \in T
    BY CallMarks, Zenon
  <2> QED BY <2>1, CallMarks, QuotedType, Zenon
<1>4. Quoted(call.name) \in T
  <2>1. call.name \in T
    BY DEF CallsOf
  <2> QED BY <2>1, QuotedType
<1>5. args \in T
  <2>1. ASSUME NEW i \in DOMAIN call.args PROVE f[i] \in T
    <3>1. Quoted(call.args[i][1]) \in T /\ Quoted(call.args[i][2]) \in T
      BY CallIs, QuotedType, SMTT(30)
    <3> DEFINE a == Quoted(call.args[i][1])  b == Quoted(call.args[i][2])
    <3>2. f[i] = a \o <<":">> \o b
      OBVIOUS
    <3>3. a \in T /\ b \in T
      BY <3>1
    <3> HIDE DEF T, a, b, f
    <3>4. a \o <<":">> \in T
      BY ONLY <1>1, <1>3, <3>3, Zenon
    <3> QED BY ONLY <1>1, <3>2, <3>3, <3>4
  <2>2. f = [i \in DOMAIN call.args |-> f[i]]
    OBVIOUS
  <2>3. f \in Seq(Seq(words))
    <3> HIDE DEF f
    <3> QED BY <2>1, <2>2, ArgsType
  <2> HIDE DEF f
  <2> QED BY <1>3, <2>3, SeparatedType, Zenon
<1>6. JsonCall(call) =
      Tag("tool_call") \o <<"nl", "{">> \o Quoted(<<"arguments">>) \o <<":", "{">> \o args \o
      <<"}", ",">> \o Quoted(<<"name">>) \o <<":">> \o Quoted(call.name) \o
      <<"}", "nl">> \o Tag("/tool_call")
  BY DEF JsonCall
<1> HIDE DEF args, T, F
<1>7. Tag("tool_call") \o <<"nl", "{">> \in F
  BY ONLY <1>2, <1>3, Zenon
<1>8. Tag("tool_call") \o <<"nl", "{">> \o Quoted(<<"arguments">>) \in F
  BY ONLY <1>2, <1>3, <1>7, Zenon
<1>9. Tag("tool_call") \o <<"nl", "{">> \o Quoted(<<"arguments">>) \o <<":", "{">> \in F
  BY ONLY <1>2, <1>3, <1>8, Zenon
<1>10. Tag("tool_call") \o <<"nl", "{">> \o Quoted(<<"arguments">>) \o <<":", "{">> \o args \in F
  BY ONLY <1>2, <1>5, <1>9, Zenon
<1> DEFINE k == Tag("tool_call") \o <<"nl", "{">> \o Quoted(<<"arguments">>) \o
                <<":", "{">> \o args
<1> HIDE DEF k
<1>11. k \in F
  BY ONLY <1>10, Zenon DEF k
<1>12. k \o <<"}", ",">> \in F
  BY ONLY <1>2, <1>3, <1>11, Zenon
<1>13. k \o <<"}", ",">> \o Quoted(<<"name">>) \in F
  BY ONLY <1>2, <1>3, <1>12, Zenon
<1>14. k \o <<"}", ",">> \o Quoted(<<"name">>) \o <<":">> \in F
  BY ONLY <1>2, <1>3, <1>13, Zenon
<1>15. k \o <<"}", ",">> \o Quoted(<<"name">>) \o <<":">> \o Quoted(call.name) \in F
  BY ONLY <1>2, <1>4, <1>14, Zenon
<1>16. k \o <<"}", ",">> \o Quoted(<<"name">>) \o <<":">> \o Quoted(call.name) \o <<"}", "nl">> \in F
  BY ONLY <1>2, <1>3, <1>15, Zenon
<1>17. k \o <<"}", ",">> \o Quoted(<<"name">>) \o <<":">> \o Quoted(call.name) \o
       <<"}", "nl">> \o Tag("/tool_call") \in F
  BY ONLY <1>2, <1>3, <1>16, Zenon
<1> QED BY ONLY <1>6, <1>17, Zenon DEF F, T, k

(* A call of the Gemma family is never nothing.                            *)
LEMMA GemmaCallType ==
    ASSUME NEW words, Marks \subseteq words, NEW call \in CallsOf(words)
    PROVE  GemmaCall(call) \in Seq(words) \ {<<>>}
<1> DEFINE value(v) == IF Numeric(v) THEN v ELSE <<"<|q|>">> \o v \o <<"<|q|>">>
           arg(a) == a[1] \o <<":">> \o value(a[2])
           f == [i \in DOMAIN call.args |-> arg(call.args[i])]
           T == Seq(words)  F == T \ {<<>>}  args == Join(f, <<",">>)
<1>1. \A x, y \in T : x \o y \in T
  BY ConcatProperties
<1>2. \A x \in F, y \in T : x \o y \in F
  BY Fuller
<1>3. /\ Tag("|tool_call") \in F /\ Tag("tool_call|") \in T
      /\ <<"call:">> \in T /\ <<"{">> \in T /\ <<"}">> \in T
      /\ <<":">> \in T /\ <<",">> \in T /\ <<"<|q|>">> \in T
  BY CallMarks, Zenon
<1>4. call.name \in T
  BY DEF CallsOf
<1>5. args \in T
  <2>0. ASSUME NEW v \in T PROVE value(v) \in T
    <3>1. <<"<|q|>">> \o v \o <<"<|q|>">> \in T
      <4> HIDE DEF T
      <4>1. <<"<|q|>">> \o v \in T
        BY ONLY <1>1, <1>3, <2>0, Zenon
      <4> QED BY ONLY <1>1, <1>3, <4>1, Zenon
    <3> HIDE DEF T
    <3> QED BY <2>0, <3>1
  <2>1. ASSUME NEW i \in DOMAIN call.args PROVE f[i] \in T
    <3>1. call.args[i][1] \in T /\ value(call.args[i][2]) \in T
      <4>1. call.args[i][1] \in T /\ call.args[i][2] \in T
        BY CallIs
      <4> HIDE DEF T, value
      <4> QED BY <2>0, <4>1
    <3> DEFINE a == call.args[i][1]  b == value(call.args[i][2])
    <3>2. f[i] = a \o <<":">> \o b
      BY Zenon
    <3>3. a \in T /\ b \in T
      BY <3>1
    <3> HIDE DEF T, a, b, f
    <3>4. a \o <<":">> \in T
      BY ONLY <1>1, <1>3, <3>3, Zenon
    <3> QED BY ONLY <1>1, <3>2, <3>3, <3>4
  <2>2. f = [i \in DOMAIN call.args |-> f[i]]
    BY Zenon
  <2>3. f \in Seq(Seq(words))
    <3> HIDE DEF f
    <3> QED BY <2>1, <2>2, ArgsType
  <2> HIDE DEF f
  <2> QED BY <1>3, <2>3, SeparatedType, Zenon
<1>6. GemmaCall(call) =
      Tag("|tool_call") \o <<"call:">> \o call.name \o <<"{">> \o args \o <<"}">> \o
      Tag("tool_call|")
  BY DEF GemmaCall
<1> HIDE DEF args, T, F
<1>7. Tag("|tool_call") \o <<"call:">> \in F
  BY ONLY <1>2, <1>3, Zenon
<1>8. Tag("|tool_call") \o <<"call:">> \o call.name \in F
  BY ONLY <1>2, <1>4, <1>7
<1>9. Tag("|tool_call") \o <<"call:">> \o call.name \o <<"{">> \in F
  BY ONLY <1>2, <1>3, <1>8, Zenon
<1>10. Tag("|tool_call") \o <<"call:">> \o call.name \o <<"{">> \o args \in F
  BY ONLY <1>2, <1>5, <1>9, Zenon
<1>11. Tag("|tool_call") \o <<"call:">> \o call.name \o <<"{">> \o args \o <<"}">> \in F
  BY ONLY <1>2, <1>3, <1>10, Zenon
<1>12. Tag("|tool_call") \o <<"call:">> \o call.name \o <<"{">> \o args \o <<"}">> \o
       Tag("tool_call|") \in F
  BY ONLY <1>2, <1>3, <1>11, Zenon
<1> QED BY ONLY <1>6, <1>12, Zenon DEF F, T

(* A call that is written is written in the words of the call and of the   *)
(* markup around it.                                                       *)
LEMMA WrittenType ==
    ASSUME NEW words, Marks \subseteq words, NEW call \in CallsOf(words),
           NEW family \in {"xml", "json", "gemma"}
    PROVE  Written(family, call) \in Seq(words) \ {<<>>}
<1>1. CASE family = "xml"
  <2>1. Written(family, call) = XmlCall(call)
    BY <1>1 DEF Written
  <2> QED BY ONLY <2>1, XmlCallType, Marks \subseteq words, call \in CallsOf(words)
<1>2. CASE family = "json"
  <2>1. Written(family, call) = JsonCall(call)
    BY <1>2 DEF Written
  <2> QED BY ONLY <2>1, JsonCallType, Marks \subseteq words, call \in CallsOf(words)
<1>3. CASE family = "gemma"
  <2>1. Written(family, call) = GemmaCall(call)
    BY <1>3 DEF Written
  <2> QED BY ONLY <2>1, GemmaCallType, Marks \subseteq words, call \in CallsOf(words)
<1> QED BY <1>1, <1>2, <1>3

(* The prompt of a one-shot generation is text.                            *)
LEMMA FormattedType ==
    ASSUME NEW words, Marks \subseteq words, NEW template, IsOption(template, Templates(words)),
           NEW native, NEW wrap, IsOption(wrap, [prefix : Seq(words), suffix : Seq(words)]),
           NEW prompt \in Seq(words)
    PROVE  FormattedPrompt(template, native, wrap, prompt) \in Seq(words)
<1> DEFINE message == <<Message("user", prompt)>>
           rendered == UNION {Render(t, message, <<>>, TRUE) : t \in template}
           applied == IF native
                      THEN UNION {Render([t EXCEPT !.quirk = "none"], message, <<>>, TRUE) :
                                     t \in template}
                      ELSE None
           wrapped == {w.prefix \o prompt \o w.suffix : w \in wrap}
<1>1. message \in Seq(Plain(words)) /\ <<>> \in Lists(words)
  <2>1. Message("user", prompt) \in Plain(words)
    BY DEF Message, Plain
  <2>2. \A P : \A x \in P : <<x>> \in Seq(P)
    OBVIOUS
  <2>3. <<>> \in Lists(words)
    BY DEF Lists
  <2> QED BY ONLY <2>1, <2>2, <2>3
<1> HIDE DEF message
<1>2. ASSUME NEW t \in Templates(words)
      PROVE  Render(t, message, <<>>, TRUE) \subseteq Seq(words)
  <2>1. /\ Whole(t, message, <<>>) \in Seq(words)
        /\ Render(t, message, <<>>, TRUE) =
           IF Renders(t, SystemTexts(message))
           THEN {Whole(t, message, <<>>) \o Opened("assistant")} ELSE {}
    BY ONLY <1>1, <1>2, Marks \subseteq words, RenderIs
  <2>2. Whole(t, message, <<>>) \o Opened("assistant") \in Seq(words)
    <3>1. Opened("assistant") \in Seq(words)
      BY MarkTypes
    <3> QED BY ONLY <2>1, <3>1, ConcatProperties
  <2> QED BY ONLY <2>1, <2>2
<1>3. template \subseteq Templates(words)
  BY DEF IsOption
<1>4. rendered \subseteq Seq(words)
  BY <1>2, <1>3
<1>5. applied \subseteq Seq(words)
  <2>1. \A t \in template : [t EXCEPT !.quirk = "none"] \in Templates(words)
    BY <1>3 DEF Templates
  <2> QED BY <1>2, <2>1 DEF None
<1>6. wrapped \subseteq Seq(words)
  <2> SUFFICES ASSUME NEW w \in wrap PROVE (w.prefix \o prompt) \o w.suffix \in Seq(words)
    OBVIOUS
  <2>1. w.prefix \in Seq(words) /\ w.suffix \in Seq(words)
    BY DEF IsOption
  <2> QED BY ONLY <2>1, prompt \in Seq(words), ConcatProperties
<1>7. \A S, a, b : (a \subseteq S /\ b \subseteq S) => OrElse(a, b) \subseteq S
  BY DEF OrElse
<1>8. \A S, o : o \subseteq S /\ o # {} => The(o) \in S
  BY DEF The
<1>9. FormattedPrompt(template, native, wrap, prompt) =
      IF template = None THEN prompt
      ELSE The(OrElse(rendered, OrElse(applied, OrElse(wrapped, Some(prompt)))))
  BY DEF FormattedPrompt, message
<1> HIDE DEF rendered, applied, wrapped
<1> DEFINE T == Seq(words)
           all == OrElse(rendered, OrElse(applied, OrElse(wrapped, Some(prompt))))
<1>10. all \subseteq T /\ all # {}
  <2>1. Some(prompt) \subseteq T
    BY DEF Some
  <2>2. all \subseteq T
    BY <1>4, <1>5, <1>6, <1>7, <2>1
  <2>3. all # {}
    BY DEF OrElse, Some, None
  <2> QED BY <2>2, <2>3
<1> HIDE DEF all
<1>11. The(all) \in T
  BY <1>8, <1>10
<1> QED BY <1>9, <1>11 DEF all

(* What a conversation's texts are made of.                                *)
LEMMA ConversedTypes ==
    ASSUME NEW words, NEW t, NEW system, NEW tools, NEW turns,
           Conversing(words, t, system, tools, turns)
    PROVE  /\ Text(t, system, tools, turns) \in Seq(words)
           /\ Heading(t, system, tools) \in Seq(words)
           /\ Begun(t) \in Seq(words) /\ Closed \in Seq(words) /\ Opened("user") \in Seq(words)
           /\ t.quirk # "escape"
<1>1. LogFacts(words, t, system, tools, turns)
  BY LogIs
<1>2. /\ Marks \subseteq words /\ t \in Templates(words) /\ t.quirk = "none"
      /\ IsOption(system, Seq(words)) /\ tools \in Lists(words)
  BY DEF Conversing
<1>3. t.lead \in Seq(words)
  BY <1>2 DEF Templates
<1>4. Text(t, system, tools, turns) \in Seq(words)
  BY ONLY <1>1 DEF LogFacts
<1>5. Heading(t, system, tools) \in Seq(words)
  <2>1. system \in SUBSET Seq(words)
    BY <1>2 DEF IsOption
  <2> QED BY ONLY <1>2, <2>1, HeadingType
<1>6. Begun(t) \in Seq(words)
  <2>1. <<>> \in Seq(words)
    OBVIOUS
  <2> QED BY ONLY <1>2, <1>3, <2>1, AnsweredType
<1>7. Closed \in Seq(words) /\ Opened("user") \in Seq(words)
  BY ONLY <1>2, MarkTypes
<1> QED BY ONLY <1>2, <1>4, <1>5, <1>6, <1>7

(* The message of a turn.                                                  *)
LEMMA MessageIs ==
    ASSUME NEW words, NEW text \in Seq(words), NEW role \in {"user", "assistant", "tool"}
    PROVE  /\ Message(role, text) \in Said(words)
           /\ Message(role, text).role = role /\ Message(role, text).content = text
BY DEF Message, Said

(* What is said of a turn, as it is decoded and as the template renders it. *)
SaidFirst(t, system, tools, m, p) ==
    ((OpeningOf(t, system, tools) \o m) \o Shape(t).generation_open) \o p =
    Text(t, system, tools, Append(<<>>, Message("user", m))) \o (Begun(t) \o p)

(* So a later message,                                                     *)
SaidNext(t, system, tools, turns, k, m, p) ==
    k \o (((Shape(t).turn_transition \o m) \o Shape(t).generation_open) \o p) =
    Text(t, system, tools, Append(turns, Message("user", m))) \o (Begun(t) \o p)

(* so results,                                                             *)
SaidResults(t, system, tools, turns, k, results) ==
    k \o RenderResults(RoleSpans(t), results) =
    Text(t, system, tools, turns \o ToolMessages(results)) \o Begun(t)

(* and so an answer that is closed.                                        *)
SaidAnswer(t, system, tools, turns, m) ==
    (Text(t, system, tools, turns) \o (Begun(t) \o m)) \o Closed =
    Text(t, system, tools, Append(turns, Message("assistant", m)))

(* What was decoded closed is what the template renders.                   *)
Stands(t, system, tools, turns, k) == k \o Closed = Text(t, system, tools, turns)

(* A first message is decoded after the opening as the template renders it,*)
(* and the answer is begun.                                                *)
LEMMA FirstSaid ==
    ASSUME NEW words, NEW t, NEW system, NEW tools, Conversing(words, t, system, tools, <<>>),
           NEW m \in Seq(words), NEW p \in Seq(words)
    PROVE  SaidFirst(t, system, tools, m, p)
<1> DEFINE h == Heading(t, system, tools)  o == Opened("user")  c == Closed  b == Begun(t)
           x == Message("user", m)
<1>1. h \in Seq(words) /\ b \in Seq(words) /\ c \in Seq(words) /\ o \in Seq(words)
  BY ConversedTypes
<1>2. x \in Said(words) /\ x.role = "user" /\ x.content = m
  BY MessageIs
<1>3. Grows(words, t, system, tools, <<>>)
  BY GrowsIs
<1> HIDE DEF x
<1>4. Text(t, system, tools, Append(<<>>, x)) = h \o UserTurn(t, m)
  BY ONLY <1>2, <1>3 DEF Grows, h
<1>5. UserTurn(t, m) = Cat(Cat(o, m), c)
  BY ConversedTypes, UserTurnOf
<1>6. FirstSaidOf(words, h, o, m, c, b, p)
  BY ONLY <1>1, m \in Seq(words), p \in Seq(words) DEF FirstSaidOf
<1>7. FirstSaidSame(h, o, m, c, b, p)
  BY ONLY <1>6, FirstSaidRegrouped
<1>8. OpeningOf(t, system, tools) = h \o o /\ Shape(t).generation_open = c \o b
  BY DEF OpeningOf, Shape
<1> HIDE DEF h, o, c, b
<1>9. (((h \o o) \o m) \o (c \o b)) \o p = (h \o UserTurn(t, m)) \o (b \o p)
  BY ONLY <1>5, <1>7 DEF FirstSaidSame, Cat
<1>10. ((OpeningOf(t, system, tools) \o m) \o Shape(t).generation_open) \o p =
       Text(t, system, tools, Append(<<>>, x)) \o (b \o p)
  BY ONLY <1>4, <1>8, <1>9
<1> QED BY ONLY <1>10 DEF x, b, SaidFirst

(* So is a later one, after the transition that closes the answer.         *)
LEMMA NextSaid ==
    ASSUME NEW words, NEW t, NEW system, NEW tools, NEW turns,
           Conversing(words, t, system, tools, turns),
           NEW k \in Seq(words), Stands(t, system, tools, turns, k),
           NEW m \in Seq(words), NEW p \in Seq(words)
    PROVE  SaidNext(t, system, tools, turns, k, m, p)
<1> DEFINE w == Text(t, system, tools, turns)  o == Opened("user")  c == Closed  b == Begun(t)
           x == Message("user", m)
<1>1. b \in Seq(words) /\ c \in Seq(words) /\ o \in Seq(words)
  BY ConversedTypes
<1>2. x \in Said(words) /\ x.role = "user" /\ x.content = m
  BY MessageIs
<1>3. Grows(words, t, system, tools, turns)
  BY GrowsIs
<1> HIDE DEF x
<1>4. Text(t, system, tools, Append(turns, x)) = w \o UserTurn(t, m)
  BY ONLY <1>2, <1>3 DEF Grows, w
<1>5. UserTurn(t, m) = Cat(Cat(o, m), c)
  BY ConversedTypes, UserTurnOf
<1>6. NextSaidOf(words, k, o, m, c, b, p)
  BY ONLY <1>1, m \in Seq(words), p \in Seq(words), k \in Seq(words) DEF NextSaidOf
<1>7. NextSaidSame(k, o, m, c, b, p)
  BY ONLY <1>6, NextSaidRegrouped
<1>8. Shape(t).turn_transition = c \o o /\ Shape(t).generation_open = c \o b
  BY DEF Shape
<1>9. k \o c = w
  BY DEF Stands
<1> HIDE DEF w, o, c, b
<1>10. k \o ((((c \o o) \o m) \o (c \o b)) \o p) = (w \o UserTurn(t, m)) \o (b \o p)
  BY ONLY <1>5, <1>7, <1>9 DEF NextSaidSame, Cat
<1>11. k \o (((Shape(t).turn_transition \o m) \o Shape(t).generation_open) \o p) =
       Text(t, system, tools, Append(turns, x)) \o (b \o p)
  BY ONLY <1>4, <1>8, <1>10
<1> QED BY ONLY <1>11 DEF x, b, SaidNext

(* So are results, between the spans that were found.                      *)
LEMMA ResultsSaid ==
    ASSUME NEW words, NEW t, NEW system, NEW tools, NEW turns,
           Conversing(words, t, system, tools, turns), turns # <<>>, t.results = "role",
           RoleAt(turns, Len(turns)) # "tool",
           NEW k \in Seq(words), Stands(t, system, tools, turns, k),
           NEW results \in Lists(words), Len(results) # 0
    PROVE  SaidResults(t, system, tools, turns, k, results)
<1> DEFINE w == Text(t, system, tools, turns)  c == Closed  b == Begun(t)
           f == BeforeResults  e == Ended  j == Join(results, BetweenResults)
<1>1. b \in Seq(words) /\ c \in Seq(words)
  BY ConversedTypes
<1>2. f \in Seq(words) /\ e \in Seq(words) /\ j \in Seq(words)
  <2>1. Marks \subseteq words
    BY DEF Conversing
  <2>2. results \in Seq(Seq(words))
    BY DEF Lists
  <2> QED BY ONLY <2>1, <2>2, ResultMarks, SeparatedType
<1>3. Grows(words, t, system, tools, turns)
  BY GrowsIs
<1>4. Text(t, system, tools, turns \o ToolMessages(results)) = w \o ResultsTurn(results)
  BY ONLY <1>3, turns # <<>>, t.results = "role", RoleAt(turns, Len(turns)) # "tool",
          results \in Lists(words), Len(results) # 0 DEF Grows, w
<1>5. ResultsTurn(results) = ((f \o j) \o e) \o c
  BY DEF ResultsTurn
<1>6. ResultsSaidOf(words, k, f, j, e, c, b)
  BY ONLY <1>1, <1>2, k \in Seq(words) DEF ResultsSaidOf
<1>7. ResultsSaidSame(k, f, j, e, c, b)
  BY ONLY <1>6, ResultsSaidRegrouped
<1>8. RenderResults(RoleSpans(t), results) = ((c \o f) \o j) \o (e \o (c \o b))
  BY DEF RenderResults, RoleSpans
<1>9. k \o c = w
  BY DEF Stands
<1> HIDE DEF w, f, j, e, c, b
<1>10. k \o (((c \o f) \o j) \o (e \o (c \o b))) = (w \o (((f \o j) \o e) \o c)) \o b
  BY ONLY <1>7, <1>9 DEF ResultsSaidSame, Cat
<1>11. k \o RenderResults(RoleSpans(t), results) =
       Text(t, system, tools, turns \o ToolMessages(results)) \o b
  BY ONLY <1>4, <1>5, <1>8, <1>10
<1> QED BY ONLY <1>11 DEF b, SaidResults

(* An answer that is closed is the turn the template renders.              *)
LEMMA AnswerSaid ==
    ASSUME NEW words, NEW t, NEW system, NEW tools, NEW turns,
           Conversing(words, t, system, tools, turns),
           RoleAt(turns, Len(turns)) # "assistant", NEW m \in Seq(words)
    PROVE  SaidAnswer(t, system, tools, turns, m)
<1> DEFINE w == Text(t, system, tools, turns)  c == Closed  b == Begun(t)
           x == Message("assistant", m)
<1>1. w \in Seq(words) /\ b \in Seq(words) /\ c \in Seq(words)
  BY ConversedTypes
<1>2. x \in Said(words) /\ x.role = "assistant" /\ x.content = m
  BY MessageIs
<1>3. Grows(words, t, system, tools, turns)
  BY GrowsIs
<1> HIDE DEF x
<1>4. Text(t, system, tools, Append(turns, x)) = w \o Answered(t, m)
  BY ONLY <1>2, <1>3, RoleAt(turns, Len(turns)) # "assistant" DEF Grows, w
<1>5. Answered(t, m) = (b \o m) \o c
  BY DEF Answered
<1> HIDE DEF w, b, c
<1>6. (w \o (b \o m)) \o c = w \o ((b \o m) \o c)
  <2>1. b \o m \in Seq(words)
    BY ONLY <1>1, m \in Seq(words), ConcatProperties
  <2> QED BY ONLY <1>1, <2>1, ConcatAssociative, SMTT(30)
<1>7. (w \o (b \o m)) \o c = Text(t, system, tools, Append(turns, x))
  BY ONLY <1>4, <1>5, <1>6
<1> QED BY ONLY <1>7 DEF w, b, c, x, SaidAnswer

(* A text carries s among words that are other texts'.                     *)
Carries(others, text, s) == \E x \in Seq(others), y \in Seq(others) : text = x \o (s \o y)

(* What is put around x, s and y is put around s.                          *)
Moves(A, s, x, y, z) ==
    /\ y \o z \in Seq(A) /\ z \o x \in Seq(A)
    /\ (x \o (s \o y)) \o z = x \o (s \o (y \o z))
    /\ z \o (x \o (s \o y)) = (z \o x) \o (s \o y)

(* A text carries itself, and so does what is put around it.               *)
LEMMA CarriesMore ==
    ASSUME NEW A, NEW S, A \subseteq S, NEW s \in Seq(S)
    PROVE  /\ Carries(A, s, s)
           /\ \A text, z : (Carries(A, text, s) /\ z \in Seq(A)) =>
                /\ Carries(A, text \o z, s) /\ Carries(A, z \o text, s)
<1>1. \A z \in Seq(A) : z \in Seq(S)
  BY SeqMonotonic
<1>2. <<>> \in Seq(A)
  OBVIOUS
<1>3. s = <<>> \o (s \o <<>>)
  <2>1. s \o <<>> = s /\ <<>> \o s = s
    BY ConcatEmptySeq
  <2> QED BY <2>1
<1>4. ASSUME NEW x \in Seq(A), NEW y \in Seq(A), NEW z \in Seq(A)
      PROVE  Moves(A, s, x, y, z)
  <2>1. x \in Seq(S) /\ y \in Seq(S) /\ z \in Seq(S)
    BY <1>1
  <2>2. y \o z \in Seq(A) /\ z \o x \in Seq(A)
    BY ONLY x \in Seq(A), y \in Seq(A), z \in Seq(A), ConcatProperties
  <2>3. s \o y \in Seq(S)
    BY ONLY <2>1, s \in Seq(S), ConcatProperties
  <2>4. (x \o (s \o y)) \o z = x \o ((s \o y) \o z)
    BY ONLY <2>1, <2>3, ConcatAssociative, SMTT(30)
  <2>5. (s \o y) \o z = s \o (y \o z)
    BY ONLY <2>1, s \in Seq(S), ConcatAssociative, SMTT(30)
  <2>6. z \o (x \o (s \o y)) = (z \o x) \o (s \o y)
    BY ONLY <2>1, <2>3, ConcatAssociative, SMTT(30)
  <2> QED BY ONLY <2>2, <2>4, <2>5, <2>6 DEF Moves
<1>5. ASSUME NEW text, NEW z \in Seq(A), Carries(A, text, s)
      PROVE  Carries(A, text \o z, s) /\ Carries(A, z \o text, s)
  <2>1. PICK x \in Seq(A), y \in Seq(A) : text = x \o (s \o y)
    BY ONLY <1>5 DEF Carries
  <2>2. /\ y \o z \in Seq(A) /\ z \o x \in Seq(A)
        /\ text \o z = x \o (s \o (y \o z))
        /\ z \o text = (z \o x) \o (s \o y)
    <3>1. Moves(A, s, x, y, z)
      BY ONLY <1>4, x \in Seq(A), y \in Seq(A), z \in Seq(A)
    <3> QED BY ONLY <2>1, <3>1 DEF Moves
  <2> QED BY ONLY <2>1, <2>2 DEF Carries
<1>6. Carries(A, s, s)
  BY ONLY <1>2, <1>3 DEF Carries
<1> QED BY ONLY <1>5, <1>6

(* Once, when it shares no word with them.                                 *)
LEMMA CarriedOnce ==
    ASSUME NEW A, NEW B, A \cap B = {}, NEW s \in Seq(B), s # <<>>, NEW text,
           Carries(A, text, s)
    PROVE  \E p : Places(text, s) = {p}
<1>1. PICK x \in Seq(A), y \in Seq(A) : text = x \o (s \o y)
  BY DEF Carries
<1>2. Places(x \o (s \o y), s) = {Len(x) + 1}
  BY ONLY A \cap B = {}, s \in Seq(B), s # <<>>, x \in Seq(A), y \in Seq(A), PlacesOnce
<1> QED BY ONLY <1>1, <1>2

(* What is opened with system text carries it, when the template has a     *)
(* block for it.                                                           *)
LEMMA OpeningCarries ==
    ASSUME NEW A, NEW S, A \subseteq S, Marks \subseteq A, NEW t \in Templates(A),
           t.system = "block", NEW tools \in Lists(A), NEW s \in Seq(S), s # <<>>
    PROVE  Carries(A, OpeningOf(t, {s}, tools), s)
<1> DEFINE list == ToolsPart(t, tools)  o == Opened("system")  c == Closed  u == Opened("user")
<1>1. SystemPart(t, {s}) = s
  <2>1. The({s}) = s
    BY DEF The
  <2> QED BY <2>1 DEF SystemPart
<1>2. /\ o \in Seq(A) /\ c \in Seq(A) /\ u \in Seq(A)
  BY MarkTypes
<1>3. list \in Seq(A)
  <2>1. FlattenSeq(tools) \in Seq(A)
    BY FlattenType DEF Lists
  <2>2. Tag("tools") \in Seq(A) /\ Tag("/tools") \in Seq(A) /\ <<>> \in Seq(A)
    BY MarkTypes
  <2>3. Cat(Cat(Tag("tools"), FlattenSeq(tools)), Tag("/tools")) \in Seq(A)
    BY ONLY <2>1, <2>2, CatLaws
  <2> QED BY <2>2, <2>3 DEF Cat, ToolsPart
<1> HIDE DEF list, o, c, u
<1>4. s \o list # <<>>
  <2>1. list \in Seq(S)
    BY ONLY <1>3, A \subseteq S, SeqMonotonic
  <2>2. s \in Seq(S) \ {<<>>}
    OBVIOUS
  <2> QED BY ONLY <2>1, <2>2, Fuller
<1>5. Heading(t, {s}, tools) = ((o \o s) \o list) \o c
  BY <1>1, <1>4 DEF Heading, list, o, c
<1>6. Carries(A, s, s) /\ \A text, z : (Carries(A, text, s) /\ z \in Seq(A)) =>
                              /\ Carries(A, text \o z, s) /\ Carries(A, z \o text, s)
  BY ONLY A \subseteq S, s \in Seq(S), CarriesMore
<1>7. Carries(A, o \o s, s)
  BY ONLY <1>2, <1>6
<1>8. Carries(A, (o \o s) \o list, s)
  BY ONLY <1>3, <1>6, <1>7
<1>9. Carries(A, ((o \o s) \o list) \o c, s)
  BY ONLY <1>2, <1>6, <1>8
<1>10. Carries(A, (((o \o s) \o list) \o c) \o u, s)
  BY ONLY <1>2, <1>6, <1>9
<1> QED BY ONLY <1>5, <1>10 DEF OpeningOf, u

(* The results, the first message and what comes next have no system text  *)
(* of their own.                                                           *)
LEMMA SaidTypes ==
    ASSUME NEW A, Marks \subseteq A, NEW t \in Templates(A), NEW tools \in Lists(A),
           NEW results \in Lists(A)
    PROVE  /\ OpeningOf(t, {}, tools) \in Seq(A) /\ <<"nl", "nl">> \in Seq(A)
           /\ Shape(t).turn_transition \in Seq(A) /\ Shape(t).generation_open \in Seq(A)
           /\ RenderResults(RoleSpans(t), results) \in Seq(A)
           /\ Join(results, <<"nl">>) \in Seq(A)
<1>1. /\ Opened("user") \in Seq(A) /\ Closed \in Seq(A) /\ <<"nl">> \in Seq(A)
  BY MarkTypes
<1>2. Begun(t) \in Seq(A)
  <2>1. t.lead \in Seq(A)
    BY DEF Templates
  <2>2. <<>> \in Seq(A)
    OBVIOUS
  <2> QED BY <2>1, <2>2, AnsweredType
<1>3. Heading(t, {}, tools) \in Seq(A)
  <2>1. {} \in SUBSET Seq(A)
    OBVIOUS
  <2> QED BY <2>1, HeadingType
<1>4. \A x, y \in Seq(A) : x \o y \in Seq(A)
  BY ConcatProperties
<1>5. OpeningOf(t, {}, tools) \in Seq(A)
  BY ONLY <1>1, <1>3, <1>4 DEF OpeningOf
<1>6. /\ Shape(t).turn_transition = Closed \o Opened("user")
      /\ Shape(t).generation_open = Closed \o Begun(t)
  BY DEF Shape
<1>7. Closed \o Opened("user") \in Seq(A) /\ Closed \o Begun(t) \in Seq(A)
  BY ONLY <1>1, <1>2, <1>4
<1>8. /\ Ended \in Seq(A) /\ BetweenResults \in Seq(A) /\ BeforeResults \in Seq(A)
  BY ResultMarks
<1>9. Join(results, BetweenResults) \in Seq(A) /\ Join(results, <<"nl">>) \in Seq(A)
  <2>1. results \in Seq(Seq(A))
    BY DEF Lists
  <2> QED BY ONLY <1>1, <1>8, <2>1, SeparatedType
<1>10. RenderResults(RoleSpans(t), results) =
       ((Closed \o BeforeResults) \o Join(results, BetweenResults)) \o
       (Ended \o (Closed \o Begun(t)))
  BY DEF RenderResults, RoleSpans
<1>11. ((Closed \o BeforeResults) \o Join(results, BetweenResults)) \o
       (Ended \o (Closed \o Begun(t))) \in Seq(A)
  <2> DEFINE c == Closed  f == BeforeResults  j == Join(results, BetweenResults)  e == Ended
             b == Begun(t)
  <2>1. c \in Seq(A) /\ f \in Seq(A) /\ j \in Seq(A) /\ e \in Seq(A) /\ b \in Seq(A)
    BY ONLY <1>1, <1>2, <1>8, <1>9
  <2> HIDE DEF c, f, j, e, b
  <2>2. c \o f \in Seq(A) /\ c \o b \in Seq(A)
    BY ONLY <1>4, <2>1
  <2>3. (c \o f) \o j \in Seq(A) /\ e \o (c \o b) \in Seq(A)
    BY ONLY <1>4, <2>1, <2>2
  <2>4. ((c \o f) \o j) \o (e \o (c \o b)) \in Seq(A)
    BY ONLY <1>4, <2>3
  <2> QED BY ONLY <2>4 DEF c, f, j, e, b
<1>12. <<"nl", "nl">> \in Seq(A)
  <2>1. "nl" \in A
    BY DEF Marks
  <2> QED BY ONLY <2>1
<1> QED BY ONLY <1>5, <1>6, <1>7, <1>9, <1>10, <1>11, <1>12

=============================================================================
