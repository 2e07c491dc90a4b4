---------------------------- MODULE CommonLemmas ----------------------------
(* Facts that the proofs of several components share: about sequences used *)
(* as stacks, the sets of their elements, the least and greatest elements  *)
(* of sets of naturals, and what FlattenSeq makes of sequences.            *)
EXTENDS Integers, SequencesExt, SequenceTheorems, WellFoundedInduction, TLAPS

-----------------------------------------------------------------------------
(* Stacks.                                                                 *)

(* Popping a non-empty stack leaves the frames below the top.              *)
LEMMA FrontFacts ==
  ASSUME NEW S, NEW s \in Seq(S), s # << >>
  PROVE  /\ Len(s) \in Nat /\ Len(s) >= 1
         /\ DOMAIN s = 1..Len(s)
         /\ Last(s) = s[Len(s)] /\ Last(s) \in S
         /\ Front(s) \in Seq(S)
         /\ Len(Front(s)) = Len(s) - 1
         /\ \A i \in 1..(Len(s) - 1) : Front(s)[i] = s[i]
<1>1. Len(s) \in Nat /\ Len(s) >= 1 /\ DOMAIN s = 1..Len(s)
  BY EmptySeq
<1>2. Last(s) = s[Len(s)] /\ Last(s) \in S
  BY <1>1, ElementOfSeq DEF Last
<1>3. \A i \in 1..(Len(s) - 1) : s[i] \in S
  BY <1>1, ElementOfSeq
<1>4. Front(s) = SubSeq(s, 1, Len(s) - 1)
  BY DEF Front
<1>5. /\ Front(s) \in Seq(S)
      /\ Len(Front(s)) = Len(s) - 1
      /\ \A i \in 1..(Len(s) - 1) : Front(s)[i] = s[i]
  <2>1. 1 \in Int /\ Len(s) - 1 \in Int BY <1>1
  <2>2. /\ SubSeq(s, 1, Len(s) - 1) \in Seq(S)
        /\ Len(SubSeq(s, 1, Len(s) - 1)) =
             IF 1 <= Len(s) - 1 THEN (Len(s) - 1) - 1 + 1 ELSE 0
        /\ \A i \in 1..((Len(s) - 1) - 1 + 1) : SubSeq(s, 1, Len(s) - 1)[i] = s[1 + i - 1]
    BY <2>1, <1>3, SubSeqProperties
  <2> QED BY <1>1, <1>4, <2>2
<1> QED BY <1>1, <1>2, <1>5

(* Pushing a frame.                                                        *)
LEMMA AppendFacts ==
  ASSUME NEW S, NEW s \in Seq(S), NEW e \in S
  PROVE  /\ Append(s, e) \in Seq(S)
         /\ Len(Append(s, e)) = Len(s) + 1
         /\ DOMAIN Append(s, e) = 1..(Len(s) + 1)
         /\ \A i \in 1..Len(s) : Append(s, e)[i] = s[i]
         /\ Append(s, e)[Len(s) + 1] = e
         /\ Append(s, e) # << >>
BY AppendProperties

(* Replacing the top of a stack.                                           *)
LEMMA ReplaceFacts ==
  ASSUME NEW S, NEW s \in Seq(S), s # << >>, NEW e \in S
  PROVE  /\ [s EXCEPT ![Len(s)] = e] \in Seq(S)
         /\ [s EXCEPT ![Len(s)] = e] # << >>
         /\ Len([s EXCEPT ![Len(s)] = e]) = Len(s)
         /\ Last([s EXCEPT ![Len(s)] = e]) = e
         /\ \A i \in 1..(Len(s) - 1) : [s EXCEPT ![Len(s)] = e][i] = s[i]
<1> DEFINE t == [s EXCEPT ![Len(s)] = e]
<1>1. Len(s) \in Nat /\ Len(s) >= 1 /\ Len(s) \in 1..Len(s)
  BY EmptySeq
<1>2. /\ t \in Seq(S) /\ Len(t) = Len(s)
      /\ \A j \in 1..Len(s) : t[j] = IF j = Len(s) THEN e ELSE s[j]
  BY <1>1, ExceptSeq
<1> HIDE DEF t
<1>3. t[Len(s)] = e /\ \A i \in 1..(Len(s) - 1) : t[i] = s[i]
  BY <1>1, <1>2
<1>4. t # << >>
  BY <1>1, <1>2, EmptySeq
<1>5. Last(t) = e
  BY <1>2, <1>3 DEF Last
<1> QED BY <1>2, <1>3, <1>4, <1>5 DEF t

(* The elements of the empty sequence, of one with an element more and of  *)
(* two in a row.                                                           *)
LEMMA ToSetEmpty == ToSet(<< >>) = {}
BY DEF ToSet

LEMMA ToSetAppend ==
  ASSUME NEW S, NEW s \in Seq(S), NEW e \in S
  PROVE  ToSet(Append(s, e)) = ToSet(s) \cup {e}
<1>1. /\ DOMAIN Append(s, e) = 1..(Len(s) + 1)
      /\ \A i \in 1..Len(s) : Append(s, e)[i] = s[i]
      /\ Append(s, e)[Len(s) + 1] = e
  BY AppendFacts
<1>2. DOMAIN s = 1..Len(s) /\ Len(s) \in Nat
  OBVIOUS
<1>3. 1..(Len(s) + 1) = 1..Len(s) \cup {Len(s) + 1}
  BY <1>2
<1> QED BY <1>1, <1>2, <1>3 DEF ToSet

LEMMA ToSetConcat ==
  ASSUME NEW S, NEW s \in Seq(S), NEW t \in Seq(S)
  PROVE  ToSet(s \o t) = ToSet(s) \cup ToSet(t)
<1>1. /\ s \o t \in Seq(S)
      /\ Len(s \o t) = Len(s) + Len(t)
      /\ \A i \in 1..(Len(s) + Len(t)) :
           (s \o t)[i] = IF i <= Len(s) THEN s[i] ELSE t[i - Len(s)]
  BY ConcatProperties
<1>2. /\ DOMAIN s = 1..Len(s) /\ Len(s) \in Nat
      /\ DOMAIN t = 1..Len(t) /\ Len(t) \in Nat
      /\ DOMAIN (s \o t) = 1..(Len(s) + Len(t))
  BY <1>1
<1>3. ToSet(s \o t) \subseteq ToSet(s) \cup ToSet(t)
  <2> SUFFICES ASSUME NEW i \in 1..(Len(s) + Len(t))
               PROVE  (s \o t)[i] \in ToSet(s) \cup ToSet(t)
    BY <1>2 DEF ToSet
  <2>1. CASE i <= Len(s)
    BY <1>1, <1>2, <2>1 DEF ToSet
  <2>2. CASE ~(i <= Len(s))
    <3>1. i - Len(s) \in 1..Len(t)
      BY <1>2, <2>2
    <3> QED BY <1>1, <1>2, <2>2, <3>1 DEF ToSet
  <2> QED BY <2>1, <2>2
<1>4. ToSet(s) \subseteq ToSet(s \o t)
  <2> SUFFICES ASSUME NEW i \in 1..Len(s)
               PROVE  s[i] \in ToSet(s \o t)
    BY <1>2 DEF ToSet
  <2>1. i \in 1..(Len(s) + Len(t)) /\ i <= Len(s)
    BY <1>2
  <2> QED BY <1>1, <1>2, <2>1 DEF ToSet
<1>5. ToSet(t) \subseteq ToSet(s \o t)
  <2> SUFFICES ASSUME NEW i \in 1..Len(t)
               PROVE  t[i] \in ToSet(s \o t)
    BY <1>2 DEF ToSet
  <2>1. Len(s) + i \in 1..(Len(s) + Len(t)) /\ ~(Len(s) + i <= Len(s)) /\ Len(s) + i - Len(s) = i
    BY <1>2
  <2> QED BY <1>1, <1>2, <2>1 DEF ToSet
<1> QED BY <1>3, <1>4, <1>5

-----------------------------------------------------------------------------
(* Numbers.                                                                *)

(* A non-empty set of naturals has a least element.                        *)
LEMMA LeastNatural ==
  ASSUME NEW T, T \subseteq Nat, T # {}
  PROVE  \E m \in T : \A n \in T : m <= n
<1> DEFINE R == {ss \in Nat \X Nat : ss[1] < ss[2]}
<1>1. IsWellFoundedOn(R, Nat)
  BY NatLessThanWellFounded DEF OpToRel
<1>2. \E x \in T : \A y \in T : ~ (<<y, x>> \in R)
  <2> HIDE DEF R
  <2> QED BY <1>1, WFMin
<1>3. PICK x \in T : \A y \in T : ~ (<<y, x>> \in R)
  BY <1>2
<1>4. \A y \in T : ~ (y < x)
  BY <1>3
<1> QED BY <1>4

(* A non-empty set of naturals with an upper bound has a largest element.  *)
LEMMA LargestNatural ==
  ASSUME NEW T, NEW b \in Nat, T \subseteq 0..b, T # {}
  PROVE  \E m \in T : \A n \in T : n <= m
<1> DEFINE D == {b - k : k \in T}
<1>1. \A k \in T : k \in Nat /\ b - k \in Nat
  OBVIOUS
<1>2. D \subseteq Nat /\ D # {}
  BY <1>1
<1>3. PICK x \in D : \A y \in D : x <= y
  <2> HIDE DEF D
  <2> QED BY <1>2, LeastNatural
<1>4. PICK m \in T : x = b - m
  BY <1>3
<1>5. \A n \in T : b - m <= b - n
  BY <1>3, <1>4
<1> QED BY <1>1, <1>5

LEMMA MinFacts ==
  ASSUME NEW T, T \subseteq Nat, T # {}
  PROVE  Min(T) \in T /\ \A n \in T : Min(T) <= n
BY LeastNatural DEF Min

LEMMA MaxFacts ==
  ASSUME NEW T, NEW b \in Nat, T \subseteq 0..b, T # {}
  PROVE  Max(T) \in T /\ \A n \in T : n <= Max(T)
<1>1. \E m \in T : \A n \in T : m >= n
  <2>1. PICK m \in T : \A n \in T : n <= m
    BY LargestNatural
  <2>2. \A n \in T : m >= n
    BY <2>1
  <2> QED BY <2>2
<1>2. Max(T) \in T /\ \A n \in T : Max(T) >= n
  BY <1>1 DEF Max
<1> QED BY <1>2

(* The smaller and the larger of two numbers.                              *)
LEMMA MinOfTwo ==
  ASSUME NEW a \in Nat, NEW b \in Nat
  PROVE  Min({a, b}) = IF a <= b THEN a ELSE b
<1>1. Min({a, b}) \in {a, b} /\ \A n \in {a, b} : Min({a, b}) <= n
  <2>1. {a, b} \subseteq Nat /\ {a, b} # {}
    OBVIOUS
  <2> QED BY <2>1, MinFacts
<1> QED BY <1>1

LEMMA MaxOfTwo ==
  ASSUME NEW a \in Nat, NEW b \in Nat
  PROVE  Max({a, b}) = IF a <= b THEN b ELSE a
<1>1. {a, b} \subseteq 0..(a + b) /\ {a, b} # {} /\ a + b \in Nat
  OBVIOUS
<1>2. Max({a, b}) \in {a, b} /\ \A n \in {a, b} : n <= Max({a, b})
  BY <1>1, MaxFacts
<1> QED BY <1>2
-----------------------------------------------------------------------------
(* Sequences put together.                                                 *)

(* A sequence is what is below its top and the top.                        *)
LEMMA FrontLast ==
  ASSUME NEW S, NEW s \in Seq(S), s # << >>
  PROVE  s = Append(Front(s), Last(s))
<1> DEFINE t == Append(Front(s), Last(s))
<1>1. /\ Len(s) \in Nat /\ Len(s) >= 1 /\ Last(s) = s[Len(s)] /\ Last(s) \in S
      /\ Front(s) \in Seq(S) /\ Len(Front(s)) = Len(s) - 1
      /\ \A i \in 1..(Len(s) - 1) : Front(s)[i] = s[i]
  BY FrontFacts
<1>2. /\ t \in Seq(S) /\ Len(t) = Len(s) - 1 + 1 /\ t[Len(s) - 1 + 1] = Last(s)
      /\ \A i \in 1..(Len(s) - 1) : t[i] = Front(s)[i]
  BY <1>1, AppendFacts
<1>3. Len(s) - 1 + 1 = Len(s) /\ \A i \in 1..Len(s) : i \in 1..(Len(s) - 1) \/ i = Len(s)
  BY <1>1
<1> HIDE DEF t
<1>4. \A i \in 1..Len(s) : t[i] = s[i]
  BY <1>1, <1>2, <1>3
<1>5. t = s
  BY <1>2, <1>3, <1>4, SeqEqual
<1> QED BY <1>5 DEF t

(* g is the function FlattenSeq computes on ss, one element after another. *)
Flattens(g, ss) ==
  g = [i \in 1..Len(ss) |-> IF i = 1 THEN ss[i] ELSE g[i - 1] \o ss[i]]

(* What it computes at one of them.                                        *)
LEMMA FlattensAt ==
  ASSUME NEW g, NEW ss, Flattens(g, ss), NEW i \in 1..Len(ss)
  PROVE  g[i] = IF i = 1 THEN ss[i] ELSE g[i - 1] \o ss[i]
<1> DEFINE f == [j \in 1..Len(ss) |-> IF j = 1 THEN ss[j] ELSE g[j - 1] \o ss[j]]
<1>1. f[i] = IF i = 1 THEN ss[i] ELSE g[i - 1] \o ss[i]
  OBVIOUS
<1>2. g = f
  BY DEF Flattens
<1> HIDE DEF f
<1> QED BY <1>1, <1>2

(* There is such a function.                                               *)
LEMMA FlattensExists ==
  ASSUME NEW S, NEW ss \in Seq(S)
  PROVE  \E g : Flattens(g, ss)
<1> DEFINE Fails == {n \in Nat : \E t \in Seq(S) : Len(t) = n /\ ~ \E g : Flattens(g, t)}
<1> SUFFICES ASSUME Fails # {} PROVE FALSE
  <2>1. Len(ss) \in Nat
    OBVIOUS
  <2> QED BY <2>1
<1>1. PICK n \in Fails : \A m \in Fails : n <= m
  <2>1. Fails \subseteq Nat
    OBVIOUS
  <2> HIDE DEF Fails
  <2> QED BY <2>1, LeastNatural
<1>2. PICK t \in Seq(S) : Len(t) = n /\ ~ \E g : Flattens(g, t)
  BY <1>1
<1>3. n \in Nat
  BY <1>1
<1>4. CASE n = 0
  <2> DEFINE g == [i \in 1..0 |-> i]
  <2>1. 1..Len(t) = {} /\ 1..0 = {}
    BY <1>2, <1>4
  <2>2. Flattens(g, t)
    BY <2>1 DEF Flattens
  <2> QED BY <1>2, <2>2
<1>5. CASE n # 0
  <2>1. t # << >>
    BY <1>2, <1>5
  <2>2. /\ Front(t) \in Seq(S) /\ Len(Front(t)) = n - 1
        /\ \A i \in 1..(n - 1) : Front(t)[i] = t[i]
    BY <1>2, <2>1, FrontFacts
  <2>3. n - 1 \in Nat /\ n - 1 < n
    BY <1>3, <1>5
  <2>4. n - 1 \notin Fails
    BY <1>1, <1>3, <2>3
  <2>5. PICK g : Flattens(g, Front(t))
    BY <2>2, <2>3, <2>4
  <2> DEFINE h == [i \in 1..n |-> IF i = n THEN IF n = 1 THEN t[n] ELSE g[n - 1] \o t[n] ELSE g[i]]
  <2>7. ASSUME NEW i \in 1..n PROVE h[i] = IF i = 1 THEN t[i] ELSE h[i - 1] \o t[i]
    <3>1. CASE i = n
      <4>1. n # 1 => n - 1 \in 1..n /\ n - 1 # n
        BY <1>3, <1>5
      <4>2. n # 1 => h[n - 1] = g[n - 1]
        BY <4>1
      <4>3. h[n] = IF n = 1 THEN t[n] ELSE g[n - 1] \o t[n]
        BY <3>1
      <4> HIDE DEF h
      <4> QED BY <3>1, <4>2, <4>3
    <3>2. CASE i # n
      <4>1. i \in 1..(n - 1) /\ (i # 1 => i - 1 \in 1..n /\ i - 1 # n)
        BY <1>3, <3>2
      <4>2. g[i] = IF i = 1 THEN Front(t)[i] ELSE g[i - 1] \o Front(t)[i]
        BY <2>2, <2>5, <4>1, FlattensAt
      <4>3. Front(t)[i] = t[i]
        BY <2>2, <4>1
      <4>4. h[i] = g[i] /\ (i # 1 => h[i - 1] = g[i - 1])
        BY <3>2, <4>1
      <4> HIDE DEF h
      <4> QED BY <4>2, <4>3, <4>4
    <3> QED BY <3>1, <3>2
  <2>6. h = [i \in 1..n |-> h[i]]
    OBVIOUS
  <2> HIDE DEF h
  <2>8. Flattens(h, t)
    BY <1>2, <2>6, <2>7 DEF Flattens
  <2> QED BY <1>2, <2>8
<1> QED BY <1>4, <1>5

(* FlattenSeq chooses one.                                                 *)
LEMMA FlattenIs ==
  ASSUME NEW S, NEW ss \in Seq(S), ss # << >>
  PROVE  \E g : Flattens(g, ss) /\ FlattenSeq(ss) = g[Len(ss)]
<1> DEFINE f == CHOOSE g : Flattens(g, ss)
<1>1. Flattens(f, ss)
  BY FlattensExists
<1>2. FlattenSeq(ss) = f[Len(ss)]
  BY EmptySeq DEF FlattenSeq, Flattens
<1> QED BY <1>1, <1>2

(* An element more does not change what was made of those before it.       *)
LEMMA FlattensAgree ==
  ASSUME NEW S, NEW ss \in Seq(S), NEW e \in S, NEW g, Flattens(g, Append(ss, e)),
         NEW h, Flattens(h, ss)
  PROVE  \A i \in 1..Len(ss) : g[i] = h[i]
<1> DEFINE n == Len(ss)
           t == Append(ss, e)
           Differs == {i \in 1..n : g[i] # h[i]}
<1> SUFFICES ASSUME Differs # {} PROVE FALSE
  OBVIOUS
<1>1. n \in Nat /\ Len(t) = n + 1 /\ \A i \in 1..n : t[i] = ss[i]
  BY AppendFacts
<1>2. PICK k \in Differs : \A i \in Differs : k <= i
  <2>1. Differs \subseteq Nat
    OBVIOUS
  <2> HIDE DEF Differs
  <2> QED BY <2>1, LeastNatural
<1>3. k \in 1..Len(t) /\ k \in 1..n /\ g[k] # h[k]
  BY <1>1
<1>4. /\ g[k] = IF k = 1 THEN t[k] ELSE g[k - 1] \o t[k]
      /\ h[k] = IF k = 1 THEN ss[k] ELSE h[k - 1] \o ss[k]
  <2> HIDE DEF t
  <2>1. Flattens(g, t) /\ Flattens(h, ss)
    BY DEF t
  <2> QED BY <1>3, <2>1, FlattensAt
<1>5. k # 1 => k - 1 \in 1..n /\ ~(k <= k - 1)
  BY <1>1, <1>3
<1>6. k # 1 => g[k - 1] = h[k - 1]
  BY <1>2, <1>5
<1> HIDE DEF t
<1> QED BY <1>1, <1>3, <1>4, <1>6

(* What FlattenSeq makes of a sequence with an element more, and of none.  *)
LEMMA FlattenAppend ==
  ASSUME NEW S, NEW ss \in Seq(Seq(S)), NEW e \in Seq(S)
  PROVE  FlattenSeq(Append(ss, e)) = FlattenSeq(ss) \o e
<1> DEFINE n == Len(ss)
           t == Append(ss, e)
<1>1. /\ n \in Nat /\ t \in Seq(Seq(S)) /\ Len(t) = n + 1 /\ t # << >>
      /\ \A i \in 1..n : t[i] = ss[i]
      /\ t[n + 1] = e
  BY AppendFacts
<1> HIDE DEF t
<1>2. PICK g : Flattens(g, t) /\ FlattenSeq(t) = g[n + 1]
  BY <1>1, FlattenIs
<1>3. g[n + 1] = IF n + 1 = 1 THEN e ELSE g[n + 1 - 1] \o e
  <2>1. n + 1 \in 1..Len(t)
    BY <1>1
  <2> HIDE DEF n
  <2>2. \A i \in 1..Len(t) : g[i] = IF i = 1 THEN t[i] ELSE g[i - 1] \o t[i]
    BY <1>2, FlattensAt, Zenon
  <2> QED BY <1>1, <2>1, <2>2
<1>4. CASE n = 0
  <2>1. FlattenSeq(ss) = << >>
    BY <1>4, EmptySeq DEF FlattenSeq
  <2> QED BY <1>2, <1>3, <1>4, <2>1 DEF t
<1>5. CASE n # 0
  <2>1. ss # << >>
    BY <1>5
  <2>2. PICK h : Flattens(h, ss) /\ FlattenSeq(ss) = h[n]
    BY <2>1, FlattenIs
  <2>3. n \in 1..n /\ n + 1 # 1 /\ n + 1 - 1 = n
    BY <1>1, <1>5
  <2>4. \A i \in 1..n : g[i] = h[i]
    BY <1>2, <2>2, FlattensAgree DEF t
  <2> QED BY <1>2, <1>3, <2>2, <2>3, <2>4 DEF t
<1> QED BY <1>4, <1>5

LEMMA FlattenEmpty == FlattenSeq(<< >>) = << >>
BY EmptySeq DEF FlattenSeq

(* What is put together of sequences over S is one.                       *)
LEMMA FlattenType ==
  ASSUME NEW S, NEW ss \in Seq(Seq(S))
  PROVE  FlattenSeq(ss) \in Seq(S)
<1> DEFINE Fails == {n \in Nat : \E t \in Seq(Seq(S)) : Len(t) = n /\ FlattenSeq(t) \notin Seq(S)}
<1> SUFFICES ASSUME Fails # {} PROVE FALSE
  <2>1. Len(ss) \in Nat
    OBVIOUS
  <2> QED BY <2>1
<1>1. PICK n \in Fails : \A m \in Fails : n <= m
  <2>1. Fails \subseteq Nat
    OBVIOUS
  <2> HIDE DEF Fails
  <2> QED BY <2>1, LeastNatural
<1>2. PICK t \in Seq(Seq(S)) : Len(t) = n /\ FlattenSeq(t) \notin Seq(S)
  BY <1>1
<1>3. n \in Nat
  BY <1>1
<1>4. t # << >>
  BY <1>2, FlattenEmpty
<1>5. /\ Front(t) \in Seq(Seq(S)) /\ Len(Front(t)) = n - 1 /\ Last(t) \in Seq(S)
      /\ n - 1 \in Nat /\ n - 1 < n
  BY <1>2, <1>4, FrontFacts
<1>6. n - 1 \notin Fails
  BY <1>1, <1>3, <1>5
<1>7. FlattenSeq(Front(t)) \in Seq(S)
  BY <1>5, <1>6
<1>8. t = Append(Front(t), Last(t))
  BY <1>4, FrontLast
<1>9. FlattenSeq(t) = FlattenSeq(Front(t)) \o Last(t)
  BY <1>5, <1>8, FlattenAppend
<1> QED BY <1>2, <1>5, <1>7, <1>9
=============================================================================
