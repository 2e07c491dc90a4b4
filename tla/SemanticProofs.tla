--------------------------- MODULE SemanticProofs ---------------------------
(* Theorems about the semantic analyser, for programs of any size.         *)
EXTENDS Semantic, CommonLemmas, FiniteSetTheorems, TLAPS

-----------------------------------------------------------------------------
(* The call stack as a sequence.                                           *)

(* The last two elements of a sequence give way to one.                    *)
LEMMA ReduceFacts ==
  ASSUME NEW S, NEW s \in Seq(S), NEW e \in S, NEW n \in Nat, n = Len(s), n >= 2
  PROVE  /\ Append(SubSeq(s, 1, n - 2), e) \in Seq(S)
         /\ DOMAIN Append(SubSeq(s, 1, n - 2), e) = 1..(n - 1)
         /\ \A j \in 1..(n - 2) : Append(SubSeq(s, 1, n - 2), e)[j] = s[j]
         /\ Append(SubSeq(s, 1, n - 2), e)[n - 1] = e
<1> DEFINE old == SubSeq(s, 1, n - 2)
<1>1. /\ old \in Seq(S) /\ Len(old) = n - 2
      /\ \A j \in 1..(n - 2) : old[j] = s[j]
  <2>1. \A j \in 1..(n - 2) : s[j] \in S
    BY ElementOfSeq
  <2> QED BY <2>1, SubSeqProperties
<1> HIDE DEF old
<1>2. /\ Append(old, e) \in Seq(S)
      /\ DOMAIN Append(old, e) = 1..(Len(old) + 1)
      /\ \A j \in 1..Len(old) : Append(old, e)[j] = old[j]
      /\ Append(old, e)[Len(old) + 1] = e
  BY <1>1, AppendFacts
<1>3. Len(old) + 1 = n - 1
  BY <1>1
<1>4. /\ Append(old, e) \in Seq(S)
      /\ DOMAIN Append(old, e) = 1..(n - 1)
      /\ \A j \in 1..(n - 2) : Append(old, e)[j] = s[j]
      /\ Append(old, e)[n - 1] = e
  BY <1>1, <1>2, <1>3
<1> QED BY <1>4 DEF old

(* A key that FindVariableInScopes returns is in the table.                *)
LEMMA LookupHits ==
  ASSUME NEW t, NEW prefix \in Seq(Atom), NEW name,
         Lookup(t, prefix, name) # NoKey
  PROVE  \E s \in SearchScopes(prefix) :
           Lookup(t, prefix, name) = s \o name /\ s \o name \in DOMAIN t
<1> DEFINE hits == {s \in SearchScopes(prefix) : s \o name \in DOMAIN t}
           lengths == {Len(s) : s \in hits}
<1>1. hits # {}
      /\ Lookup(t, prefix, name) = (CHOOSE s \in hits : \A r \in hits : Len(r) <= Len(s)) \o name
  BY DEF Lookup
<1>2. \A s \in SearchScopes(prefix) : Len(s) \in 0..Len(prefix)
  <2>1. Len(prefix) \in Nat
    OBVIOUS
  <2>2. \A k \in 1..(Len(prefix) - 1) : Len(SubSeq(prefix, 1, k)) = k
    BY <2>1, SubSeqProperties
  <2>3. Len(<< >>) = 0
    OBVIOUS
  <2> QED BY <2>1, <2>2, <2>3 DEF SearchScopes
<1>3. lengths \subseteq 0..Len(prefix) /\ lengths # {} /\ Len(prefix) \in Nat
  <2>1. \A s \in hits : Len(s) \in 0..Len(prefix)
    BY <1>2
  <2>2. lengths \subseteq 0..Len(prefix)
    <3> HIDE DEF hits
    <3> QED BY <2>1
  <2>3. lengths # {}
    <3> HIDE DEF hits
    <3> QED BY <1>1
  <2> QED BY <2>2, <2>3
<1>4. PICK m \in lengths : \A n \in lengths : n <= m
  <2> HIDE DEF lengths
  <2> QED BY <1>3, LargestNatural
<1>5. \E s \in hits : \A r \in hits : Len(r) <= Len(s)
  BY <1>4
<1> QED BY <1>1, <1>5

LEMMA LookupFinds ==
  ASSUME NEW t, NEW prefix \in Seq(Atom), NEW name,
         Lookup(t, prefix, name) # NoKey
  PROVE  Lookup(t, prefix, name) \in DOMAIN t
BY LookupHits

-----------------------------------------------------------------------------
(* What the analyser does to its call stack.                               *)

(* A frame stays well formed while the table grows.                        *)
LEMMA MoreKeys ==
  ASSUME NEW stack, NEW keys, NEW more, keys \subseteq more, WellStacked(stack, keys)
  PROVE  WellStacked(stack, more)
BY DEF WellStacked, FrameOK

(* An expression is not a body, and neither is a call.                     *)
LEMMA KindsDisjoint ==
  ASSUME NEW kind
  PROVE  /\ kind \in ExprKinds => kind \notin BodyKinds /\ kind # "program"
         /\ kind \in BodyKinds => kind # "call"
BY DEF BodyKinds, ExprKinds, LoopKinds

(* Outside of an argument list, no expression is under analysis below.     *)
LEMMA OnlyCallsInside ==
  ASSUME NEW stack, NEW keys, WellStacked(stack, keys), Last(stack).kind # "call"
  PROVE  \A i \in 1..(Len(stack) - 1) : stack[i].kind \in BodyKinds /\ stack[i].vals = << >>
<1>1. /\ stack \in Seq(Frame) /\ DOMAIN stack = 1..Len(stack)
      /\ Len(stack) \in Nat /\ Len(stack) >= 1
      /\ Last(stack) = stack[Len(stack)]
  BY FrontFacts DEF WellStacked
<1>2. ASSUME NEW i \in 1..Len(stack) PROVE stack[i].kind \in BodyKinds \cup ExprKinds
  <2>1. stack[i] \in Frame
    BY <1>1, ElementOfSeq
  <2> QED BY <2>1 DEF Frame
<1> QED BY <1>1, <1>2 DEF WellStacked

(* Entering a nested call of Analyze.                                      *)
LEMMA PushStacked ==
  ASSUME NEW stack, NEW keys, WellStacked(stack, keys),
         NEW f \in Frame, f.kind # "program", FrameOK(f, keys), f.vals = << >>,
         f.kind = "call" \/ Last(stack).kind \in BodyKinds
  PROVE  WellStacked(Append(stack, f), keys)
<1>1. /\ stack \in Seq(Frame) /\ DOMAIN stack = 1..Len(stack)
      /\ Len(stack) \in Nat /\ Len(stack) >= 1 /\ Last(stack) = stack[Len(stack)]
  BY FrontFacts DEF WellStacked
<1> DEFINE new == Append(stack, f)
<1>2. /\ new \in Seq(Frame) /\ new # << >>
      /\ DOMAIN new = 1..(Len(stack) + 1) /\ Len(new) = Len(stack) + 1
      /\ \A i \in 1..Len(stack) : new[i] = stack[i]
      /\ new[Len(stack) + 1] = f
  BY <1>1, AppendFacts
<1> HIDE DEF new
<1>3. ASSUME NEW i \in DOMAIN new
      PROVE  /\ new[i].kind = "program" <=> i = 1
             /\ FrameOK(new[i], keys)
             /\ new[i].kind \in BodyKinds => new[i].vals = << >>
             /\ new[i].kind \in ExprKinds => \A k \in (i + 1)..Len(new) : new[k].kind = "call"
  <2>1. CASE i \in 1..Len(stack)
    <3>1. /\ new[i].kind = "program" <=> i = 1
          /\ FrameOK(new[i], keys)
          /\ new[i].kind \in BodyKinds => new[i].vals = << >>
      BY <2>1, <1>1, <1>2 DEF WellStacked
    <3>2. ASSUME new[i].kind \in ExprKinds, NEW k \in (i + 1)..Len(new) PROVE new[k].kind = "call"
      <4>1. CASE k \in 1..Len(stack)
        BY <2>1, <3>2, <4>1, <1>1, <1>2 DEF WellStacked
      <4>2. CASE k = Len(stack) + 1
        <5>1. CASE f.kind = "call"
          BY <4>2, <5>1, <1>2
        <5>2. CASE Last(stack).kind \in BodyKinds
          <6>1. stack[i].kind \in BodyKinds
            BY <1>1, <2>1, <5>2, KindsDisjoint, OnlyCallsInside
          <6> QED BY <6>1, <1>2, <2>1, <3>2, KindsDisjoint
        <5> QED BY <5>1, <5>2
      <4> QED BY <4>1, <4>2, <1>1, <1>2
    <3> QED BY <3>1, <3>2
  <2>2. CASE i = Len(stack) + 1
    BY <2>2, <1>1, <1>2
  <2> QED BY <2>1, <2>2, <1>1, <1>2
<1>4. WellStacked(new, keys)
  BY <1>2, <1>3 DEF WellStacked
<1> QED BY <1>4 DEF new

(* Returning from a nested call.                                           *)
LEMMA PopStacked ==
  ASSUME NEW stack, NEW keys, WellStacked(stack, keys), Last(stack).kind # "program"
  PROVE  WellStacked(Front(stack), keys)
<1>1. /\ stack \in Seq(Frame) /\ stack # << >>
      /\ DOMAIN stack = 1..Len(stack) /\ Len(stack) \in Nat /\ Len(stack) >= 1
      /\ Last(stack) = stack[Len(stack)]
      /\ Front(stack) \in Seq(Frame) /\ Len(Front(stack)) = Len(stack) - 1
      /\ \A i \in 1..(Len(stack) - 1) : Front(stack)[i] = stack[i]
  <2>1. stack \in Seq(Frame) /\ stack # << >>
    BY DEF WellStacked
  <2> QED BY <2>1, FrontFacts
<1>2. Len(stack) >= 2
  BY <1>1 DEF WellStacked
<1>3. Front(stack) # << >> /\ DOMAIN Front(stack) = 1..(Len(stack) - 1)
  BY <1>1, <1>2
<1> QED BY <1>1, <1>3 DEF WellStacked

(* The frame on top, and the frames a pop leaves.                          *)
LEMMA StackFacts ==
  ASSUME NEW stack, NEW keys, WellStacked(stack, keys)
  PROVE  /\ stack \in Seq(Frame) /\ Len(stack) \in Nat /\ DOMAIN stack = 1..Len(stack)
         /\ Len(stack) \in DOMAIN stack
         /\ Last(stack) = stack[Len(stack)] /\ Last(stack) \in Frame
         /\ DOMAIN Front(stack) = 1..(Len(stack) - 1)
         /\ \A i \in 1..(Len(stack) - 1) : Front(stack)[i] = stack[i]
<1>1. stack \in Seq(Frame) /\ stack # << >>
  BY DEF WellStacked
<1>2. /\ Len(stack) \in Nat /\ Len(stack) >= 1 /\ DOMAIN stack = 1..Len(stack)
      /\ Last(stack) = stack[Len(stack)] /\ Last(stack) \in Frame
      /\ Front(stack) \in Seq(Frame) /\ Len(Front(stack)) = Len(stack) - 1
      /\ \A i \in 1..(Len(stack) - 1) : Front(stack)[i] = stack[i]
  BY <1>1, FrontFacts
<1>3. DOMAIN Front(stack) = 1..(Len(stack) - 1)
  BY <1>2
<1> QED BY <1>1, <1>2, <1>3

(* An operand is analysed: the values of the top frame change.             *)
LEMMA ValueStacked ==
  ASSUME NEW stack, NEW keys, WellStacked(stack, keys), Last(stack).kind \in ExprKinds,
         NEW vals \in Seq(Value)
  PROVE  /\ WellStacked([stack EXCEPT ![Len(stack)].vals = vals], keys)
         /\ OpenLoops([stack EXCEPT ![Len(stack)].vals = vals]) = OpenLoops(stack)
<1>1. /\ stack \in Seq(Frame) /\ stack # << >>
      /\ DOMAIN stack = 1..Len(stack) /\ Len(stack) \in Nat /\ Len(stack) >= 1
  BY FrontFacts DEF WellStacked
<1> DEFINE n == Len(stack)
           new == [stack EXCEPT ![Len(stack)].vals = vals]
           f == [stack[n] EXCEPT !.vals = vals]
<1>2. stack[n] \in Frame
  BY <1>1
<1>3. /\ f \in Frame /\ f.kind = stack[n].kind /\ f.node = stack[n].node
      /\ f.name = stack[n].name /\ f.prefix = stack[n].prefix
  BY <1>2 DEF Frame
<1>4. new = [stack EXCEPT ![n] = f]
  OBVIOUS
<1>5. /\ new \in Seq(Frame) /\ DOMAIN new = 1..n /\ Len(new) = n /\ new # << >>
      /\ \A i \in 1..n : new[i] = IF i = n THEN f ELSE stack[i]
  <2> HIDE DEF f, new
  <2>1. new \in Seq(Frame) /\ Len(new) = n
    BY <1>1, <1>3, <1>4, ExceptSeq
  <2> QED BY <1>1, <1>4, <2>1
<1>6. \A i \in 1..n : FrameOK(new[i], keys) /\ new[i].kind = stack[i].kind
  <2> HIDE DEF f, new
  <2>1. \A i \in 1..n : FrameOK(stack[i], keys)
    BY <1>1 DEF WellStacked
  <2>2. FrameOK(f, keys)
    BY <1>1, <1>3, <2>1 DEF FrameOK
  <2> QED BY <1>1, <1>3, <1>5, <2>1, <2>2
<1> HIDE DEF f, new
<1>7. WellStacked(new, keys)
  <2>1. stack[n].kind \notin BodyKinds
    <3>1. Last(stack) = stack[n]
      BY <1>1, FrontFacts
    <3> QED BY <3>1, KindsDisjoint
  <2>2. ASSUME NEW i \in 1..n
        PROVE  /\ new[i].kind = "program" <=> i = 1
               /\ FrameOK(new[i], keys)
               /\ new[i].kind \in BodyKinds => new[i].vals = << >>
               /\ new[i].kind \in ExprKinds => \A k \in (i + 1)..n : new[k].kind = "call"
    <3>1. /\ new[i].kind = "program" <=> i = 1
          /\ FrameOK(new[i], keys)
      BY <1>1, <1>6 DEF WellStacked
    <3>2. new[i].kind \in BodyKinds => new[i].vals = << >>
      <4>1. new[i].kind \in BodyKinds => i # n
        BY <1>6, <2>1
      <4>2. i # n => new[i] = stack[i]
        BY <1>5
      <4>3. stack[i].kind \in BodyKinds => stack[i].vals = << >>
        BY <1>1 DEF WellStacked
      <4> QED BY <4>1, <4>2, <4>3, <1>6
    <3>3. new[i].kind \in ExprKinds => \A k \in (i + 1)..n : new[k].kind = "call"
      BY <1>1, <1>6 DEF WellStacked
    <3> QED BY <3>1, <3>2, <3>3
  <2> QED BY <1>1, <1>5, <2>2 DEF WellStacked
<1>8. OpenLoops(new) = OpenLoops(stack)
  BY <1>1, <1>5, <1>6 DEF OpenLoops
<1> QED BY <1>7, <1>8 DEF new

(* Which loops are open after a push and after a pop.                      *)
LEMMA PushLoops ==
  ASSUME NEW stack, NEW keys, WellStacked(stack, keys), NEW f \in Frame
  PROVE  OpenLoops(Append(stack, f)) =
           IF f.kind \in LoopKinds THEN OpenLoops(stack) \cup {Len(stack) + 1}
           ELSE OpenLoops(stack)
<1>1. stack \in Seq(Frame) /\ DOMAIN stack = 1..Len(stack) /\ Len(stack) \in Nat
  BY FrontFacts DEF WellStacked
<1> DEFINE new == Append(stack, f)
<1>2. /\ DOMAIN new = 1..(Len(stack) + 1)
      /\ \A i \in 1..Len(stack) : new[i] = stack[i]
      /\ new[Len(stack) + 1] = f
  BY <1>1, AppendFacts
<1> HIDE DEF new
<1>3. OpenLoops(new) = IF f.kind \in LoopKinds THEN OpenLoops(stack) \cup {Len(stack) + 1}
                       ELSE OpenLoops(stack)
  BY <1>1, <1>2 DEF OpenLoops
<1> QED BY <1>3 DEF new

(* A pop closes the top frame, whether or not it is a loop.                *)
LEMMA PopLoops ==
  ASSUME NEW stack, NEW keys, WellStacked(stack, keys)
  PROVE  OpenLoops(Front(stack)) = OpenLoops(stack) \ {Len(stack)}
<1>1. /\ stack \in Seq(Frame) /\ stack # << >>
      /\ DOMAIN stack = 1..Len(stack) /\ Len(stack) \in Nat /\ Len(stack) >= 1
      /\ Front(stack) \in Seq(Frame) /\ Len(Front(stack)) = Len(stack) - 1
      /\ \A i \in 1..(Len(stack) - 1) : Front(stack)[i] = stack[i]
  BY FrontFacts DEF WellStacked
<1>2. DOMAIN Front(stack) = 1..(Len(stack) - 1)
  BY <1>1
<1> QED BY <1>1, <1>2 DEF OpenLoops

(* A stack has finitely many loops, and each of them is a frame of it.     *)
LEMMA LoopsFinite ==
  ASSUME NEW stack, NEW keys, WellStacked(stack, keys)
  PROVE  /\ IsFiniteSet(OpenLoops(stack))
         /\ Cardinality(OpenLoops(stack)) \in Nat
         /\ Len(stack) \in Nat
         /\ Len(stack) + 1 \notin OpenLoops(stack)
         /\ Len(stack) \in OpenLoops(stack) <=> Last(stack).kind \in LoopKinds
<1>1. /\ stack \in Seq(Frame) /\ stack # << >>
      /\ DOMAIN stack = 1..Len(stack) /\ Len(stack) \in Nat /\ Len(stack) >= 1
      /\ Last(stack) = stack[Len(stack)]
  BY FrontFacts DEF WellStacked
<1>2. IsFiniteSet(1..Len(stack))
  BY <1>1, FS_Interval
<1>3. OpenLoops(stack) \in SUBSET (1..Len(stack))
  BY <1>1 DEF OpenLoops
<1>4. IsFiniteSet(OpenLoops(stack))
  BY <1>2, <1>3, FS_Subset
<1> QED BY <1>1, <1>3, <1>4, FS_CardinalityType DEF OpenLoops

(* The number of open loops after a push, a pop and a replacement.         *)
LEMMA CountLoops ==
  ASSUME NEW stack, NEW keys, WellStacked(stack, keys), Last(stack).kind # "program",
         NEW f \in Frame, f.kind # "program"
  PROVE  /\ Cardinality(OpenLoops(Front(stack))) =
              Cardinality(OpenLoops(stack)) - (IF Last(stack).kind \in LoopKinds THEN 1 ELSE 0)
         /\ Cardinality(OpenLoops(Append(Front(stack), f))) =
              Cardinality(OpenLoops(Front(stack))) + (IF f.kind \in LoopKinds THEN 1 ELSE 0)
<1> DEFINE n == Len(stack)
           m == Len(Front(stack))
<1>1. /\ IsFiniteSet(OpenLoops(stack))
      /\ n \in OpenLoops(stack) <=> Last(stack).kind \in LoopKinds
      /\ Cardinality(OpenLoops(stack)) \in Nat
  BY LoopsFinite
<1>2. Cardinality(OpenLoops(stack) \ {n}) =
        IF n \in OpenLoops(stack) THEN Cardinality(OpenLoops(stack)) - 1
        ELSE Cardinality(OpenLoops(stack))
  BY <1>1, FS_RemoveElement
<1>3. OpenLoops(Front(stack)) = OpenLoops(stack) \ {n}
  BY PopLoops
<1>4. WellStacked(Front(stack), keys)
  BY PopStacked
<1>5. /\ IsFiniteSet(OpenLoops(Front(stack))) /\ m + 1 \notin OpenLoops(Front(stack))
      /\ Cardinality(OpenLoops(Front(stack))) \in Nat
  BY <1>4, LoopsFinite
<1>6. Cardinality(OpenLoops(Front(stack)) \cup {m + 1}) = Cardinality(OpenLoops(Front(stack))) + 1
  BY <1>5, FS_AddElement
<1>7. OpenLoops(Append(Front(stack), f)) =
        IF f.kind \in LoopKinds THEN OpenLoops(Front(stack)) \cup {m + 1}
        ELSE OpenLoops(Front(stack))
  BY <1>4, PushLoops
<1>8. Cardinality(OpenLoops(Front(stack))) =
        Cardinality(OpenLoops(stack)) - (IF Last(stack).kind \in LoopKinds THEN 1 ELSE 0)
  BY <1>1, <1>2, <1>3
<1>9. Cardinality(OpenLoops(Append(Front(stack), f))) =
        Cardinality(OpenLoops(Front(stack))) + (IF f.kind \in LoopKinds THEN 1 ELSE 0)
  BY <1>5, <1>6, <1>7
<1> QED BY <1>8, <1>9

(* The same for a push alone.                                              *)
LEMMA CountPush ==
  ASSUME NEW stack, NEW keys, WellStacked(stack, keys), NEW f \in Frame
  PROVE  Cardinality(OpenLoops(Append(stack, f))) =
           Cardinality(OpenLoops(stack)) + (IF f.kind \in LoopKinds THEN 1 ELSE 0)
<1> DEFINE n == Len(stack) + 1
<1>1. IsFiniteSet(OpenLoops(stack)) /\ n \notin OpenLoops(stack)
      /\ Cardinality(OpenLoops(stack)) \in Nat
  BY LoopsFinite
<1>2. Cardinality(OpenLoops(stack) \cup {n}) = Cardinality(OpenLoops(stack)) + 1
  BY <1>1, FS_AddElement
<1>3. OpenLoops(Append(stack, f)) =
        IF f.kind \in LoopKinds THEN OpenLoops(stack) \cup {n} ELSE OpenLoops(stack)
  BY PushLoops
<1> QED BY <1>1, <1>2, <1>3

-----------------------------------------------------------------------------
(* What the analyser does to the symbol table.                             *)

LEMMA VariableIsSymbol ==
  ASSUME NEW type \in Type, NEW scope \in Nat
  PROVE  Variable(type, scope) \in Symbol
BY DEF Variable, Symbol

(* What Function makes is a symbol.                                        *)
LEMMA FunctionIsSymbol ==
  ASSUME NEW type \in Type, NEW argTypes \in Seq(Type), NEW scope \in Nat, NEW params \in Seq(Param)
  PROVE  Function(type, argTypes, scope, params) \in Symbol
BY DEF Function, Symbol

(* Entering symbols that keep the ones that are there.                     *)
LEMMA MergeKeeps ==
  ASSUME NEW t, TableOK(t), NEW new, TableOK(new)
  PROVE  TableOK(Merge(t, new)) /\ Preserves(t, Merge(t, new))
         /\ DOMAIN Merge(t, new) = DOMAIN t \cup DOMAIN new
<1> DEFINE u == Merge(t, new)
<1>1. /\ DOMAIN u = DOMAIN t \cup DOMAIN new
      /\ \A key \in DOMAIN u : u[key] = IF key \in DOMAIN t THEN t[key] ELSE new[key]
  BY DEF Merge
<1> HIDE DEF u
<1>2. TableOK(u) /\ Preserves(t, u)
  BY <1>1 DEF TableOK, Preserves
<1> QED BY <1>1, <1>2 DEF u

(* Entering one symbol.                                                    *)
LEMMA InsertKeeps ==
  ASSUME NEW t, TableOK(t), NEW key \in Seq(Atom), NEW symbol \in Symbol
  PROVE  /\ TableOK(Insert(t, key, symbol)) /\ Preserves(t, Insert(t, key, symbol))
         /\ DOMAIN Insert(t, key, symbol) = DOMAIN t \cup {key}
<1> DEFINE new == [k \in {key} |-> symbol]
<1>1. DOMAIN new = {key} /\ new[key] = symbol
  OBVIOUS
<1> HIDE DEF new
<1>2. TableOK(new)
  BY <1>1 DEF TableOK
<1>3. TableOK(Merge(t, new)) /\ Preserves(t, Merge(t, new)) /\ DOMAIN Merge(t, new) = DOMAIN t \cup {key}
  BY <1>1, <1>2, MergeKeeps
<1> QED BY <1>3 DEF Insert, new

(* Settling the type of a function, or of a symbol of unknown type.        *)
LEMMA RetypeKeeps ==
  ASSUME NEW t, TableOK(t), NEW key \in DOMAIN t, NEW type \in Type,
         t[key].isFunction \/ (t[key].type \in Loose /\ type \in Numeric)
  PROVE  /\ TableOK([t EXCEPT ![key].type = type])
         /\ Preserves(t, [t EXCEPT ![key].type = type])
         /\ DOMAIN [t EXCEPT ![key].type = type] = DOMAIN t
<1> DEFINE u == [t EXCEPT ![key].type = type]
           symbol == [t[key] EXCEPT !.type = type]
<1>1. t[key] \in Symbol
  BY DEF TableOK
<1>2. /\ symbol \in Symbol /\ symbol.type = type
      /\ symbol.isFunction = t[key].isFunction /\ symbol.argTypes = t[key].argTypes
  BY <1>1 DEF Symbol
<1>3. /\ DOMAIN u = DOMAIN t
      /\ \A k \in DOMAIN t : u[k] = IF k = key THEN symbol ELSE t[k]
  OBVIOUS
<1> HIDE DEF u, symbol
<1>4. TableOK(u) /\ Preserves(t, u)
  BY <1>2, <1>3 DEF TableOK, Preserves
<1> QED BY <1>3, <1>4 DEF u

(* A function's parameters, under its prefix.                              *)
LEMMA ParamsAreSymbols ==
  ASSUME NEW prefix \in Seq(Atom), NEW params \in ParamList, NEW scope \in Nat
  PROVE  TableOK(ParamSymbols(prefix, params, scope))
<1>1. params \in Seq(Param) /\ DOMAIN params \subseteq Nat
      /\ \A i \in DOMAIN params : params[i] \in Param
  BY ParamAssumption
<1>2. \A i \in DOMAIN params : params[i].type \in Type /\ prefix \o params[i].name \in Seq(Atom)
  BY <1>1, NameAssumption, ConcatProperties DEF Param
<1> DEFINE new == ParamSymbols(prefix, params, scope)
           first(key, i) == /\ prefix \o params[i].name = key
                            /\ \A j \in 1..(i - 1) : prefix \o params[j].name # key
<1>3. /\ DOMAIN new = {prefix \o params[i].name : i \in DOMAIN params}
      /\ \A key \in DOMAIN new :
           new[key] = Variable(params[CHOOSE i \in DOMAIN params : first(key, i)].type, scope)
  BY DEF ParamSymbols
<1>4. ASSUME NEW key \in DOMAIN new
      PROVE  \E i \in DOMAIN params : first(key, i)
  <2> DEFINE T == {i \in DOMAIN params : prefix \o params[i].name = key}
  <2>1. T \subseteq Nat /\ T # {}
    BY <1>1, <1>3
  <2>2. PICK m \in T : \A n \in T : m <= n
    <3> HIDE DEF T
    <3> QED BY <2>1, LeastNatural
  <2>3. \A j \in 1..(m - 1) : j \in DOMAIN params /\ j \notin T
    <3>1. m \in DOMAIN params /\ DOMAIN params = 1..Len(params)
      BY <1>1
    <3>2. \A j \in 1..(m - 1) : j \in DOMAIN params /\ ~ (m <= j)
      BY <1>1, <3>1
    <3> QED BY <2>2, <3>2
  <2> QED BY <2>2, <2>3
<1>5. ASSUME NEW key \in DOMAIN new
      PROVE  key \in Seq(Atom) /\ new[key] \in Symbol
  <2>1. PICK i \in DOMAIN params : new[key] = Variable(params[i].type, scope)
    <3> HIDE DEF first
    <3> QED BY <1>3, <1>4
  <2>2. new[key] \in Symbol
    BY <2>1, <1>2, VariableIsSymbol
  <2> QED BY <1>2, <1>3, <2>2
<1> QED BY <1>5 DEF TableOK

-----------------------------------------------------------------------------
(* What was read of an operand and what the table says by now.             *)

LEMMA LookupByKeys ==
  ASSUME NEW t, NEW u, DOMAIN t = DOMAIN u, NEW prefix, NEW name
  PROVE  Lookup(t, prefix, name) = Lookup(u, prefix, name)
BY DEF Lookup

(* Types settle while operands wait; the table gets no new key then.       *)
LEMMA ReadsAfterRetype ==
  ASSUME NEW stack, NEW t, NEW u, NEW keys, WellStacked(stack, keys),
         ReadsStayLoose(stack, t), Preserves(t, u), DOMAIN t = DOMAIN u
  PROVE  ReadsStayLoose(stack, u)
<1> SUFFICES ASSUME NEW i \in DOMAIN stack, NEW j \in DOMAIN stack[i].vals
             PROVE  LooseRead(stack[i].vals[j], stack[i].prefix, u)
  BY DEF ReadsStayLoose
<1> DEFINE v == stack[i].vals[j]
           key == Lookup(t, stack[i].prefix, v.use)
<1>1. key = Lookup(u, stack[i].prefix, v.use)
  BY LookupByKeys
<1>2. LooseRead(v, stack[i].prefix, t)
  BY DEF ReadsStayLoose
<1>3. stack[i].prefix \in Seq(Atom)
  <2>1. stack[i] \in Frame
    BY DEF WellStacked
  <2> QED BY <2>1 DEF Frame
<1>4. key # NoKey => key \in DOMAIN t
  BY <1>3, LookupFinds
<1> QED BY <1>1, <1>2, <1>4 DEF LooseRead, Preserves, Loose

(* A new frame has read nothing.                                           *)
LEMMA ReadsAfterPush ==
  ASSUME NEW stack, NEW t, NEW keys, WellStacked(stack, keys), ReadsStayLoose(stack, t),
         NEW f \in Frame, f.vals = << >>
  PROVE  ReadsStayLoose(Append(stack, f), t)
<1>1. stack \in Seq(Frame) /\ DOMAIN stack = 1..Len(stack) /\ Len(stack) \in Nat
  BY FrontFacts DEF WellStacked
<1> DEFINE new == Append(stack, f)
<1>2. /\ DOMAIN new = 1..(Len(stack) + 1)
      /\ \A i \in 1..Len(stack) : new[i] = stack[i]
      /\ new[Len(stack) + 1] = f
  BY <1>1, AppendFacts
<1>3. DOMAIN f.vals = {}
  OBVIOUS
<1> HIDE DEF new
<1>4. ReadsStayLoose(new, t)
  BY <1>1, <1>2, <1>3 DEF ReadsStayLoose
<1> QED BY <1>4 DEF new

(* Leaving a frame drops what it read.                                     *)
LEMMA ReadsAfterPop ==
  ASSUME NEW stack, NEW t, NEW keys, WellStacked(stack, keys), ReadsStayLoose(stack, t)
  PROVE  ReadsStayLoose(Front(stack), t)
<1>1. /\ stack \in Seq(Frame) /\ stack # << >>
      /\ DOMAIN stack = 1..Len(stack) /\ Len(stack) \in Nat
      /\ Front(stack) \in Seq(Frame) /\ Len(Front(stack)) = Len(stack) - 1
      /\ \A i \in 1..(Len(stack) - 1) : Front(stack)[i] = stack[i]
  BY FrontFacts DEF WellStacked
<1>2. DOMAIN Front(stack) = 1..(Len(stack) - 1)
  BY <1>1
<1> QED BY <1>1, <1>2 DEF ReadsStayLoose

(* When no expression is under analysis nothing has been read.             *)
LEMMA NothingRead ==
  ASSUME NEW stack, NEW t, \A i \in DOMAIN stack : stack[i].vals = << >>
  PROVE  ReadsStayLoose(stack, t)
<1>1. \A i \in DOMAIN stack : DOMAIN stack[i].vals = {}
  OBVIOUS
<1> QED BY <1>1 DEF ReadsStayLoose

(* The top frame's operands become vals, old ones or loosely read ones.    *)
LEMMA ReadsAfterValue ==
  ASSUME NEW stack, NEW t, NEW keys, WellStacked(stack, keys), ReadsStayLoose(stack, t),
         NEW vals \in Seq(Value),
         \A j \in DOMAIN vals :
           \/ j \in DOMAIN Last(stack).vals /\ vals[j] = Last(stack).vals[j]
           \/ LooseRead(vals[j], Last(stack).prefix, t)
  PROVE  ReadsStayLoose([stack EXCEPT ![Len(stack)].vals = vals], t)
<1>1. /\ stack \in Seq(Frame) /\ DOMAIN stack = 1..Len(stack) /\ Len(stack) \in Nat /\ Len(stack) >= 1
      /\ Last(stack) = stack[Len(stack)] /\ Last(stack) \in Frame
  BY FrontFacts DEF WellStacked
<1> DEFINE n == Len(stack)
           f == [stack[n] EXCEPT !.vals = vals]
           new == [stack EXCEPT ![n] = f]
<1>2. f.vals = vals /\ f.prefix = stack[n].prefix
  BY <1>1 DEF Frame
<1>3. DOMAIN new = 1..n /\ \A i \in 1..n : new[i] = IF i = n THEN f ELSE stack[i]
  BY <1>1
<1> HIDE DEF f, new
<1>4. ASSUME NEW i \in 1..n, NEW j \in DOMAIN new[i].vals
      PROVE  LooseRead(new[i].vals[j], new[i].prefix, t)
  <2>1. CASE i # n
    BY <1>1, <1>3, <1>4, <2>1 DEF ReadsStayLoose
  <2>2. CASE i = n
    <3>1. j \in DOMAIN vals /\ new[i].vals[j] = vals[j] /\ new[i].prefix = stack[n].prefix
      BY <1>1, <1>2, <1>3, <1>4, <2>2
    <3>2. n \in DOMAIN stack
      BY <1>1
    <3> QED BY <1>1, <3>1, <3>2 DEF ReadsStayLoose
  <2> QED BY <2>1, <2>2
<1>5. ReadsStayLoose(new, t)
  BY <1>3, <1>4 DEF ReadsStayLoose
<1> QED BY <1>5 DEF new, f
-----------------------------------------------------------------------------
(* The steps of the analyser.                                              *)

Inv == TypeOK /\ LoopDepthMatchesNesting /\ StaleReadsAreLoose
StepOK == Inv' /\ Preserves(table, table')

(* A step keeps the invariant when its parts do.                           *)
LEMMA Assemble ==
  ASSUME Inv,
         TableOK(table'), Preserves(table, table'),
         WellStacked(frames', DOMAIN table'), ReadsStayLoose(frames', table'),
         loop_depth' \in Int,
         loop_depth' - loop_depth = Cardinality(OpenLoops(frames')) - Cardinality(OpenLoops(frames)),
         {hasEntry', hasErrors', silent', strayBreak'} \subseteq BOOLEAN,
         signature' = signature, nodes' \in Nat,
         status' \in {"running", "done", "crashed"}
  PROVE  StepOK
<1>1. DOMAIN table \subseteq DOMAIN table'
  BY DEF Preserves
<1>2. TypeOK'
  BY <1>1 DEF Inv, TypeOK
<1>3. loop_depth \in Int /\ loop_depth = Cardinality(OpenLoops(frames))
  BY DEF Inv, TypeOK, LoopDepthMatchesNesting
<1>4. Cardinality(OpenLoops(frames')) \in Nat
  BY LoopsFinite
<1>5. LoopDepthMatchesNesting'
  BY <1>3, <1>4 DEF LoopDepthMatchesNesting
<1> QED BY <1>2, <1>5 DEF StepOK, Inv, StaleReadsAreLoose

(* What the invariant gives every step.                                    *)
LEMMA InvFacts ==
  ASSUME Inv
  PROVE  /\ TableOK(table) /\ nodes \in Nat /\ nodes + 1 \in Nat /\ loop_depth \in Int
         /\ {hasEntry, hasErrors, silent, strayBreak} \subseteq BOOLEAN
         /\ status \in {"running", "done", "crashed"}
         /\ WellStacked(frames, DOMAIN table) /\ ReadsStayLoose(frames, table)
         /\ Cardinality(OpenLoops(frames)) \in Nat
         /\ loop_depth - loop_depth = 0
         /\ Cardinality(OpenLoops(frames)) - Cardinality(OpenLoops(frames)) = 0
<1>1. Cardinality(OpenLoops(frames)) \in Nat
  BY LoopsFinite DEF Inv, TypeOK
<1> QED BY <1>1 DEF Inv, TypeOK, StaleReadsAreLoose

(* The frame on top of the stack.                                          *)
LEMMA TopFacts ==
  ASSUME Inv
  PROVE  /\ Top \in Frame /\ Top = frames[Len(frames)] /\ Len(frames) \in Nat
         /\ Top.kind \in BodyKinds \cup ExprKinds /\ Top.prefix \in Seq(Atom)
         /\ Top.id \in Nat /\ Top.node \in Nat /\ Top.vals \in Seq(Value)
         /\ Top.name \in Name \cup {NoName} /\ Top.type \in Type \cup {NoType}
         /\ FrameOK(Top, DOMAIN table)
         /\ \A j \in DOMAIN Top.vals : LooseRead(Top.vals[j], Top.prefix, table)
<1>1. WellStacked(frames, DOMAIN table) /\ ReadsStayLoose(frames, table)
  BY InvFacts
<1>2. Top \in Frame /\ Top = frames[Len(frames)] /\ Len(frames) \in Nat /\ Len(frames) \in DOMAIN frames
  BY <1>1, FrontFacts DEF Top, WellStacked
<1>3. FrameOK(Top, DOMAIN table)
  BY <1>1, <1>2 DEF WellStacked
<1>4. \A j \in DOMAIN Top.vals : LooseRead(Top.vals[j], Top.prefix, table)
  BY <1>1, <1>2 DEF ReadsStayLoose
<1> QED BY <1>1, <1>2, <1>3, <1>4 DEF Frame

(* The table may stay as it is.                                            *)
LEMMA TableStays ==
  ASSUME TableOK(table), table' = table
  PROVE  TableOK(table') /\ Preserves(table, table')
BY DEF TableOK, Preserves

(* A crash changes nothing but the status.                                 *)
LEMMA CrashKeeps ==
  ASSUME Inv, Crash
  PROVE  StepOK
<1>1. UNCHANGED << table, frames, loop_depth, hasEntry, hasErrors, silent, strayBreak,
                   signature, nodes >> /\ status' = "crashed"
  BY DEF Crash, ghosts
<1> QED BY <1>1, InvFacts, TableStays, Assemble

(* A step that only changes the operands of the top frame.                 *)
LEMMA ValsStep ==
  ASSUME Inv, Top.kind \in ExprKinds, NEW vals \in Seq(Value),
         frames' = [frames EXCEPT ![Len(frames)].vals = vals],
         \A j \in DOMAIN vals :
           \/ j \in DOMAIN Top.vals /\ vals[j] = Top.vals[j]
           \/ LooseRead(vals[j], Top.prefix, table)
  PROVE  /\ WellStacked(frames', DOMAIN table)
         /\ ReadsStayLoose(frames', table)
         /\ Cardinality(OpenLoops(frames')) - Cardinality(OpenLoops(frames)) = 0
<1>1. WellStacked(frames', DOMAIN table) /\ OpenLoops(frames') = OpenLoops(frames)
  BY InvFacts, ValueStacked DEF Top
<1>2. ReadsStayLoose(frames', table)
  BY InvFacts, ReadsAfterValue DEF Top
<1> QED BY <1>1, <1>2, InvFacts

(* A step that analyses one more operand.                                  *)
LEMMA PushValueStep ==
  ASSUME Inv, Top.kind \in ExprKinds, NEW v \in Value, PushValue(v),
         LooseRead(v, Top.prefix, table)
  PROVE  /\ WellStacked(frames', DOMAIN table)
         /\ ReadsStayLoose(frames', table)
         /\ Cardinality(OpenLoops(frames')) - Cardinality(OpenLoops(frames)) = 0
<1> DEFINE vals == Append(Top.vals, v)
<1>1. vals \in Seq(Value) /\ DOMAIN vals = 1..(Len(Top.vals) + 1)
      /\ vals[Len(Top.vals) + 1] = v
      /\ \A j \in 1..Len(Top.vals) : vals[j] = Top.vals[j]
      /\ DOMAIN Top.vals = 1..Len(Top.vals)
  BY TopFacts, AppendFacts
<1>2. frames' = [frames EXCEPT ![Len(frames)].vals = vals]
  BY TopFacts DEF PushValue
<1> HIDE DEF vals
<1>3. \A j \in DOMAIN vals : \/ j \in DOMAIN Top.vals /\ vals[j] = Top.vals[j]
                             \/ LooseRead(vals[j], Top.prefix, table)
  <2>1. Len(Top.vals) \in Nat
    BY TopFacts
  <2> QED BY <1>1, <2>1
<1> QED BY <1>1, <1>2, <1>3, ValsStep

(* A value that is not the use of a variable is loosely read.              *)
LEMMA FreshValue ==
  ASSUME NEW type \in Type \cup {Null}, NEW prefix, NEW t
  PROVE  /\ [type |-> type, use |-> NoName] \in Value
         /\ LooseRead([type |-> type, use |-> NoName], prefix, t)
BY DEF Value, LooseRead

(* The operands keep the invariant; the only one that changes a type is    *)
(* the inference of a binary operator, which StaleReadsAreLoose allows.    *)
LEMMA OperandKeeps ==
  ASSUME Inv, OperandStep
  PROVE  StepOK
<1> USE DEF ghosts
<1>1. ASSUME NEW type \in LiteralType, Literal(type) PROVE StepOK
  <2>1. nodes' = nodes + 1 /\ Top.kind \in ExprKinds
    BY <1>1 DEF Literal, AtOperand
  <2> QED BY <1>1, <2>1, InvFacts, TypeAssumption, FreshValue, PushValueStep, TableStays, Assemble
          DEF Literal
<1>2. CASE NullOperand
  <2>1. nodes' = nodes + 1 /\ Top.kind \in ExprKinds
    BY <1>2 DEF NullOperand, AtOperand
  <2> QED BY <1>2, <2>1, InvFacts, FreshValue, PushValueStep, TableStays, Assemble DEF NullOperand
<1>3. ASSUME NEW mixed \in BOOLEAN, Collection(mixed) PROVE StepOK
  <2>1. nodes' = nodes + 1 /\ Top.kind \in ExprKinds
    BY <1>3 DEF Collection, AtOperand
  <2>2. "Array" \in Type
    BY DEF Type
  <2> QED BY <1>3, <2>1, <2>2, InvFacts, FreshValue, PushValueStep, TableStays, Assemble
          DEF Collection
<1>4. ASSUME NEW name \in Name, VariableUse(name) PROVE StepOK
  <2> DEFINE key == Lookup(table, Top.prefix, name)
  <2>1. nodes' = nodes + 1 /\ Top.kind \in ExprKinds /\ hasErrors' \in BOOLEAN
    BY <1>4, InvFacts DEF VariableUse, AtOperand, AddErr
  <2>2. ASSUME key # NoKey PROVE table[key].type \in Type
    BY <2>2, InvFacts, TopFacts, LookupFinds DEF TableOK, Symbol
  <2>3. PICK v \in Value : PushValue(v) /\ LooseRead(v, Top.prefix, table)
    <3>1. CASE key = NoKey
      <4>1. [type |-> "Unknown", use |-> name] \in Value
        BY DEF Value, Type
      <4> QED BY <1>4, <3>1, <4>1 DEF VariableUse, LooseRead
    <3>2. CASE key # NoKey
      <4>1. [type |-> table[key].type, use |-> name] \in Value
        BY <2>2, <3>2 DEF Value
      <4> QED BY <1>4, <3>2, <4>1 DEF VariableUse, LooseRead, Loose
    <3> QED BY <3>1, <3>2
  <2> QED BY <1>4, <2>1, <2>3, InvFacts, PushValueStep, TableStays, Assemble DEF VariableUse
<1>5. ASSUME NEW isComparison \in BOOLEAN, BinaryOp(isComparison) PROVE StepOK
  <2> DEFINE n == Len(Top.vals)
             left == Top.vals[n - 1]
             right == Top.vals[n]
             inferred == Infers(left.type, right.type)
             leftType == IF inferred THEN right.type ELSE left.type
             key == IF left.use = NoName THEN NoKey ELSE Lookup(table, Top.prefix, left.use)
             arrays == left.type = "Array" /\ right.type = "Array"
             result == IF arrays THEN "Unknown" ELSE IF isComparison THEN "Bool" ELSE leftType
             value == [type |-> result, use |-> NoName]
             vals == Append(SubSeq(Top.vals, 1, n - 2), value)
  <2>1. n \in Nat /\ n >= 2 /\ Top.vals \in Seq(Value) /\ DOMAIN Top.vals = 1..n
    BY <1>5, TopFacts DEF BinaryOp
  <2>2. left \in Value /\ right \in Value /\ LooseRead(left, Top.prefix, table)
    <3>1. n - 1 \in 1..n /\ n \in 1..n
      BY <2>1
    <3> HIDE DEF n
    <3> QED BY <2>1, <3>1, TopFacts, ElementOfSeq DEF n
  <2>3. CASE Null \in {left.type, right.type}
    BY <1>5, <2>3, CrashKeeps DEF BinaryOp
  <2>4. CASE Null \notin {left.type, right.type}
    <3>1. /\ frames' = [frames EXCEPT ![Len(frames)].vals = vals]
          /\ table' = IF inferred /\ key # NoKey
                      THEN [table EXCEPT ![key].type = right.type] ELSE table
          /\ hasErrors' \in BOOLEAN /\ Top.kind \in ExprKinds
          /\ UNCHANGED << loop_depth, hasEntry, ghosts, nodes, status >>
      BY <1>5, <2>4, InvFacts, TopFacts DEF BinaryOp
    <3>2. left.type \in Type /\ right.type \in Type /\ result \in Type
      BY <2>2, <2>4 DEF Value, Type, Infers, Numeric
    <3>3. /\ vals \in Seq(Value)
          /\ \A j \in DOMAIN vals : \/ j \in DOMAIN Top.vals /\ vals[j] = Top.vals[j]
                                    \/ LooseRead(vals[j], Top.prefix, table)
      <4>1. value \in Value /\ LooseRead(value, Top.prefix, table)
        BY <3>2, FreshValue
      <4> HIDE DEF value
      <4>2. /\ vals \in Seq(Value) /\ DOMAIN vals = 1..(n - 1)
            /\ \A j \in 1..(n - 2) : vals[j] = Top.vals[j]
            /\ vals[n - 1] = value
        <5> HIDE DEF n
        <5> QED BY <2>1, <4>1, ReduceFacts DEF n
      <4> QED BY <2>1, <4>1, <4>2
    <3>4. /\ WellStacked(frames', DOMAIN table) /\ ReadsStayLoose(frames', table)
          /\ Cardinality(OpenLoops(frames')) - Cardinality(OpenLoops(frames)) = 0
      <4> HIDE DEF vals
      <4> QED BY <3>1, <3>3, ValsStep
    <3>5. TableOK(table') /\ Preserves(table, table') /\ DOMAIN table' = DOMAIN table
      <4>1. CASE inferred /\ key # NoKey
        <5>1. key \in DOMAIN table /\ key = Lookup(table, Top.prefix, left.use)
              /\ left.use # NoName
          BY <4>1, TopFacts, LookupFinds
        <5>2. left.type = "Unknown" /\ right.type \in Numeric
          BY <4>1 DEF Infers
        <5>3. table[key].isFunction \/ table[key].type \in Loose
          BY <2>2, <4>1, <5>1, <5>2 DEF LooseRead
        <5> HIDE DEF key, left, right, inferred
        <5> QED BY <3>1, <3>2, <4>1, <5>1, <5>2, <5>3, InvFacts, RetypeKeeps
      <4>2. CASE ~ (inferred /\ key # NoKey)
        BY <3>1, <4>2, InvFacts, TableStays
      <4> QED BY <4>1, <4>2
    <3>6. WellStacked(frames', DOMAIN table') /\ ReadsStayLoose(frames', table')
      BY <3>4, <3>5, ReadsAfterRetype
    <3> QED BY <3>1, <3>4, <3>5, <3>6, InvFacts, Assemble
  <2> QED BY <2>3, <2>4
<1> QED BY <1>1, <1>2, <1>3, <1>4, <1>5 DEF OperandStep
-----------------------------------------------------------------------------
(* The frames the analyser makes.                                          *)

LEMMA BodyFrameFacts ==
  ASSUME NEW kind \in BodyKinds, NEW prefix \in Seq(Atom), NEW id \in Nat, NEW keys,
         kind = "function" => prefix # << >> /\ Front(prefix) \in keys
  PROVE  /\ BodyFrame(kind, prefix, id) \in Frame
         /\ BodyFrame(kind, prefix, id).kind = kind
         /\ BodyFrame(kind, prefix, id).vals = << >>
         /\ FrameOK(BodyFrame(kind, prefix, id), keys)
BY KindsDisjoint DEF BodyFrame, Frame, FrameOK, ExprKinds

(* The frame of an expression.                                             *)
LEMMA ExprFrameFacts ==
  ASSUME Inv, NEW kind \in ExprKinds, NEW name \in Name \cup {NoName},
         NEW type \in Type \cup {NoType}, nodes < MaxNodes,
         kind = "let" => name \in Name
  PROVE  /\ ExprFrame(kind, name, type) \in Frame
         /\ ExprFrame(kind, name, type).kind = kind
         /\ ExprFrame(kind, name, type).vals = << >>
         /\ FrameOK(ExprFrame(kind, name, type), DOMAIN table)
<1>1. nodes + 1 \in Nat /\ nodes + 1 \in 1..MaxNodes
  BY InvFacts, BoundAssumption
<1>2. kind # "function"
  BY DEF ExprKinds
<1> QED BY <1>1, <1>2, TopFacts DEF ExprFrame, Frame, FrameOK

(* With a statement on top no expression is under analysis.                *)
LEMMA BodyOnTop ==
  ASSUME Inv, Top.kind \in BodyKinds
  PROVE  \A i \in DOMAIN frames : frames[i].vals = << >>
<1>1. /\ WellStacked(frames, DOMAIN table) /\ DOMAIN frames = 1..Len(frames) /\ Len(frames) \in Nat
      /\ Last(frames) = frames[Len(frames)]
  BY InvFacts, FrontFacts DEF WellStacked
<1>2. \A i \in 1..(Len(frames) - 1) : frames[i].vals = << >>
  BY <1>1, KindsDisjoint, OnlyCallsInside DEF Top
<1>3. Len(frames) \in DOMAIN frames => frames[Len(frames)].vals = << >>
  BY <1>1 DEF WellStacked, Top
<1> QED BY <1>1, <1>2, <1>3

(* Entering a frame.                                                       *)
LEMMA PushStep ==
  ASSUME Inv, NEW f \in Frame, f.kind # "program", f.vals = << >>,
         f.kind = "call" \/ Top.kind \in BodyKinds,
         NEW keys, DOMAIN table \subseteq keys, FrameOK(f, keys), Push(f)
  PROVE  /\ WellStacked(frames', keys)
         /\ ReadsStayLoose(frames', table)
         /\ Top.kind \in BodyKinds => \A t : ReadsStayLoose(frames', t)
         /\ Cardinality(OpenLoops(frames')) - Cardinality(OpenLoops(frames)) =
              IF f.kind \in LoopKinds THEN 1 ELSE 0
<1>1. WellStacked(frames, keys) /\ ReadsStayLoose(frames, table) /\ frames' = Append(frames, f)
  BY InvFacts, MoreKeys DEF Push
<1>2. WellStacked(frames', keys)
  BY <1>1, PushStacked DEF Top
<1>3. ReadsStayLoose(frames', table)
  BY <1>1, ReadsAfterPush
<1>4. ASSUME Top.kind \in BodyKinds, NEW t PROVE ReadsStayLoose(frames', t)
  <2>1. ReadsStayLoose(frames, t)
    BY <1>4, BodyOnTop, NothingRead
  <2> QED BY <1>1, <2>1, ReadsAfterPush
<1>5. Cardinality(OpenLoops(frames')) - Cardinality(OpenLoops(frames)) =
        IF f.kind \in LoopKinds THEN 1 ELSE 0
  BY <1>1, CountPush, InvFacts
<1> QED BY <1>2, <1>3, <1>4, <1>5

(* Leaving a frame.                                                        *)
LEMMA PopStep ==
  ASSUME Inv, Top.kind # "program", Pop
  PROVE  /\ WellStacked(frames', DOMAIN table)
         /\ ReadsStayLoose(frames', table)
         /\ Top.kind # "call" => \A t : ReadsStayLoose(frames', t)
         /\ Top.kind # "call" => Last(frames').kind \in BodyKinds
         /\ Cardinality(OpenLoops(frames')) - Cardinality(OpenLoops(frames)) =
              IF Top.kind \in LoopKinds THEN -1 ELSE 0
<1>1. /\ WellStacked(frames, DOMAIN table) /\ ReadsStayLoose(frames, table)
      /\ frames' = Front(frames) /\ Last(frames).kind # "program"
  BY InvFacts DEF Pop, Below, Top
<1>2. WellStacked(frames', DOMAIN table)
  BY <1>1, PopStacked
<1>3. ReadsStayLoose(frames', table)
  BY <1>1, ReadsAfterPop
<1>4. /\ DOMAIN frames' = 1..(Len(frames) - 1) /\ Len(frames) \in Nat
      /\ \A i \in 1..(Len(frames) - 1) : frames'[i] = frames[i]
  BY <1>1, StackFacts
<1>5. ASSUME Top.kind # "call"
      PROVE  (\A t : ReadsStayLoose(frames', t)) /\ Last(frames').kind \in BodyKinds
  <2>1. \A i \in 1..(Len(frames) - 1) : frames[i].kind \in BodyKinds /\ frames[i].vals = << >>
    BY <1>1, <1>5, OnlyCallsInside DEF Top
  <2>2. \A i \in DOMAIN frames' : frames'[i].vals = << >>
    BY <1>4, <2>1
  <2>3. Last(frames') = frames'[Len(frames')] /\ Len(frames') \in DOMAIN frames'
    BY <1>2, StackFacts
  <2> QED BY <1>4, <2>1, <2>2, <2>3, NothingRead
<1>6. Cardinality(OpenLoops(frames')) =
        Cardinality(OpenLoops(frames)) - (IF Top.kind \in LoopKinds THEN 1 ELSE 0)
  <2>1. IsFiniteSet(OpenLoops(frames)) /\ Cardinality(OpenLoops(frames)) \in Nat
    BY <1>1, LoopsFinite
  <2>2. Len(frames) \in OpenLoops(frames) <=> Top.kind \in LoopKinds
    BY <1>1, LoopsFinite DEF Top
  <2>3. OpenLoops(frames') = OpenLoops(frames) \ {Len(frames)}
    BY <1>1, PopLoops
  <2>4. Cardinality(OpenLoops(frames) \ {Len(frames)}) =
          IF Len(frames) \in OpenLoops(frames) THEN Cardinality(OpenLoops(frames)) - 1
          ELSE Cardinality(OpenLoops(frames))
    BY <2>1, FS_RemoveElement
  <2> QED BY <2>1, <2>2, <2>3, <2>4
<1>7. Cardinality(OpenLoops(frames)) \in Nat /\ Cardinality(OpenLoops(frames')) \in Nat
  BY <1>1, <1>2, LoopsFinite
<1> QED BY <1>2, <1>3, <1>5, <1>6, <1>7

(* Replacing the frame on top by one of a body.                            *)
LEMMA ReplaceStep ==
  ASSUME Inv, Top.kind \notin {"program", "call"},
         NEW f \in Frame, f.kind # "program", f.vals = << >>, FrameOK(f, DOMAIN table),
         frames' = Append(Below, f)
  PROVE  /\ WellStacked(frames', DOMAIN table)
         /\ ReadsStayLoose(frames', table)
         /\ Cardinality(OpenLoops(frames')) - Cardinality(OpenLoops(frames)) =
              (IF f.kind \in LoopKinds THEN 1 ELSE 0) - (IF Top.kind \in LoopKinds THEN 1 ELSE 0)
<1>1. /\ WellStacked(frames, DOMAIN table) /\ ReadsStayLoose(frames, table)
      /\ Below = Front(frames) /\ Last(frames).kind = Top.kind
  BY InvFacts DEF Below, Top
<1>2. WellStacked(Below, DOMAIN table)
  BY <1>1, PopStacked
<1>3. Last(Below).kind \in BodyKinds
  <2>1. /\ DOMAIN Below = 1..(Len(frames) - 1) /\ Len(frames) \in Nat
        /\ \A i \in 1..(Len(frames) - 1) : Below[i] = frames[i]
    BY <1>1, StackFacts
  <2>2. \A i \in 1..(Len(frames) - 1) : frames[i].kind \in BodyKinds
    BY <1>1, OnlyCallsInside
  <2>3. Last(Below) = Below[Len(Below)] /\ Len(Below) \in DOMAIN Below
    BY <1>2, StackFacts
  <2> QED BY <2>1, <2>2, <2>3
<1>4. WellStacked(frames', DOMAIN table)
  BY <1>2, <1>3, PushStacked
<1>5. ReadsStayLoose(frames', table)
  BY <1>1, <1>2, ReadsAfterPop, ReadsAfterPush
<1>6. Cardinality(OpenLoops(frames')) =
        Cardinality(OpenLoops(Below)) + (IF f.kind \in LoopKinds THEN 1 ELSE 0)
  BY <1>2, CountPush
<1>7. Cardinality(OpenLoops(Below)) =
        Cardinality(OpenLoops(frames)) - (IF Top.kind \in LoopKinds THEN 1 ELSE 0)
  BY <1>1, CountLoops
<1>8. Cardinality(OpenLoops(frames)) \in Nat
  BY InvFacts
<1> QED BY <1>4, <1>5, <1>6, <1>7, <1>8

(* A call returns, to an argument list, an operand position or a body.     *)
LEMMA DeliverStep ==
  ASSUME Inv, Top.kind = "call", NEW type \in Type,
         Deliver([type |-> type, use |-> NoName])
  PROVE  /\ WellStacked(frames', DOMAIN table)
         /\ ReadsStayLoose(frames', table)
         /\ Cardinality(OpenLoops(frames')) - Cardinality(OpenLoops(frames)) = 0
<1> DEFINE v == [type |-> type, use |-> NoName]
           vals == Append(Last(Below).vals, v)
<1>1. /\ WellStacked(frames, DOMAIN table) /\ ReadsStayLoose(frames, table)
      /\ Below = Front(frames) /\ Last(frames).kind = "call"
      /\ Cardinality(OpenLoops(frames)) \in Nat
  BY InvFacts DEF Below, Top
<1>2. WellStacked(Below, DOMAIN table) /\ ReadsStayLoose(Below, table)
  BY <1>1, PopStacked, ReadsAfterPop
<1>3. "call" \notin LoopKinds
  BY DEF LoopKinds
<1>4. OpenLoops(Below) = OpenLoops(frames)
  BY <1>1, <1>3, PopLoops, LoopsFinite
<1>5. CASE Last(Below).kind \notin ExprKinds
  <2>1. frames' = Below
    BY <1>5 DEF Deliver
  <2> QED BY <1>1, <1>2, <1>4, <2>1
<1>6. CASE Last(Below).kind \in ExprKinds
  <2>1. /\ Last(Below) \in Frame /\ Last(Below) = Below[Len(Below)]
        /\ Below \in Seq(Frame) /\ Len(Below) \in DOMAIN Below
    BY <1>2, StackFacts
  <2>2. Last(Below).vals \in Seq(Value) /\ v \in Value /\ \A prefix : LooseRead(v, prefix, table)
    BY <2>1, FreshValue DEF Frame
  <2>3. frames' = [Below EXCEPT ![Len(Below)].vals = vals]
    BY <1>6, <2>1 DEF Deliver
  <2>4. /\ vals \in Seq(Value)
        /\ \A j \in DOMAIN vals : \/ j \in DOMAIN Last(Below).vals /\ vals[j] = Last(Below).vals[j]
                                  \/ LooseRead(vals[j], Last(Below).prefix, table)
    <3> DEFINE old == Last(Below).vals
    <3>1. /\ Append(old, v) \in Seq(Value) /\ DOMAIN Append(old, v) = 1..(Len(old) + 1)
          /\ \A j \in 1..Len(old) : Append(old, v)[j] = old[j]
          /\ Append(old, v)[Len(old) + 1] = v
          /\ DOMAIN old = 1..Len(old) /\ Len(old) \in Nat
      <4> HIDE DEF v, old
      <4> QED BY <2>2, AppendFacts DEF old
    <3> HIDE DEF v
    <3> QED BY <2>2, <3>1
  <2> HIDE DEF vals
  <2>5. WellStacked(frames', DOMAIN table) /\ OpenLoops(frames') = OpenLoops(Below)
    BY <1>2, <1>6, <2>3, <2>4, ValueStacked
  <2>6. ReadsStayLoose(frames', table)
    BY <1>2, <2>3, <2>4, ReadsAfterValue
  <2> QED BY <1>1, <1>4, <2>5, <2>6
<1> QED BY <1>5, <1>6

(* The sequences a mangled key is put together from.                       *)
LEMMA ShortSeq ==
  ASSUME NEW S, NEW a \in S, NEW b \in S, NEW c \in S
  PROVE  /\ << a >> \in Seq(S) /\ Len(<< a >>) = 1
         /\ << a, b >> \in Seq(S) /\ << a, b, c >> \in Seq(S)
OBVIOUS

(* The prefixes of branches and loops are keys too.                        *)
LEMMA PrefixIsKey ==
  ASSUME NEW prefix \in Seq(Atom)
  PROVE  /\ ElsePrefix(prefix) \in Seq(Atom) /\ ForPrefix(prefix) \in Seq(Atom)
         /\ \A n \in 1..MaxNodes :
              IfPrefix(prefix, n) \in Seq(Atom) /\ WhilePrefix(prefix, n) \in Seq(Atom)
<1>1. {"_", ":", "if", "else", "while", "for"} \subseteq Atom
  BY WordAssumption DEF Word
<1>2. ForPosition \in Atom /\ \A n \in 1..MaxNodes : Position[n] \in Atom
  BY PositionAssumption
<1>3. ASSUME NEW s \in Seq(Atom) PROVE prefix \o s \in Seq(Atom)
  BY ConcatProperties
<1>4. << "else", ":" >> \in Seq(Atom) /\ << "for", ForPosition, "_" >> \in Seq(Atom)
  <2>1. "else" \in Atom /\ ":" \in Atom /\ "for" \in Atom /\ "_" \in Atom
    BY <1>1
  <2> QED BY <2>1, <1>2, ShortSeq, Zenon
<1>5. ASSUME NEW n \in 1..MaxNodes
      PROVE  << "if", Position[n], "_" >> \in Seq(Atom) /\ << "while", Position[n], "_" >> \in Seq(Atom)
  <2>1. "if" \in Atom /\ "while" \in Atom /\ "_" \in Atom
    BY <1>1
  <2> QED BY <2>1, <1>2, ShortSeq, Zenon
<1> QED BY <1>3, <1>4, <1>5 DEF ElsePrefix, ForPrefix, IfPrefix, WhilePrefix

(* The prefix of a function is its key and a separator, so the key of the   *)
(* frame is the one that :321 looks up.                                    *)
LEMMA FunctionPrefixFacts ==
  ASSUME NEW prefix \in Seq(Atom), NEW name \in Name
  PROVE  /\ prefix \o name \in Seq(Atom)
         /\ FunctionPrefix(prefix, name) \in Seq(Atom)
         /\ FunctionPrefix(prefix, name) # << >>
         /\ Front(FunctionPrefix(prefix, name)) = prefix \o name
<1> DEFINE key == prefix \o name
           whole == FunctionPrefix(prefix, name)
<1>1. key \in Seq(Atom) /\ Len(key) \in Nat /\ DOMAIN key = 1..Len(key)
  BY NameAssumption, ConcatProperties
<1> HIDE DEF key
<1>2. whole = key \o << "_" >> /\ << "_" >> \in Seq(Atom) /\ Len(<< "_" >>) = 1
  <2>1. whole = key \o << "_" >>
    BY Zenon DEF FunctionPrefix, key
  <2>2. "_" \in Atom
    BY WordAssumption DEF Word
  <2>3. << "_" >> \in Seq(Atom) /\ Len(<< "_" >>) = 1
    BY <2>2, ShortSeq, Zenon
  <2> QED BY <2>1, <2>3
<1> HIDE DEF whole
<1>3. /\ whole \in Seq(Atom) /\ Len(whole) = Len(key) + 1
      /\ \A i \in 1..Len(key) : whole[i] = key[i]
  <2> DEFINE bar == << "_" >>
  <2>1. bar \in Seq(Atom) /\ Len(bar) = 1 /\ whole = key \o bar
    BY <1>2
  <2> HIDE DEF bar
  <2>2. /\ key \o bar \in Seq(Atom) /\ Len(key \o bar) = Len(key) + Len(bar)
        /\ \A i \in 1..(Len(key) + Len(bar)) :
             (key \o bar)[i] = IF i <= Len(key) THEN key[i] ELSE bar[i - Len(key)]
    BY <1>1, <2>1, ConcatProperties
  <2>3. \A i \in 1..Len(key) : i \in 1..(Len(key) + 1) /\ i <= Len(key)
    BY <1>1
  <2>4. \A i \in 1..Len(key) : whole[i] = key[i]
    BY <2>1, <2>2, <2>3
  <2> QED BY <2>1, <2>2, <2>4
<1>4. whole # << >>
  BY <1>1, <1>3
<1>5. /\ Front(whole) \in Seq(Atom) /\ Len(Front(whole)) = Len(key)
      /\ \A i \in 1..Len(key) : Front(whole)[i] = key[i]
  <2>1. /\ Front(whole) \in Seq(Atom) /\ Len(Front(whole)) = Len(whole) - 1
        /\ \A i \in 1..(Len(whole) - 1) : Front(whole)[i] = whole[i]
    BY <1>3, <1>4, FrontFacts
  <2> QED BY <1>1, <1>3, <2>1
<1>6. Front(whole) = key
  BY <1>1, <1>5, SeqEqual
<1> QED BY <1>1, <1>3, <1>4, <1>6 DEF key, whole

(* A statement that starts an expression pushes a frame and nothing else.  *)
LEMMA EnterExpr ==
  ASSUME Inv, NEW kind \in ExprKinds, NEW name \in Name \cup {NoName},
         NEW type \in Type \cup {NoType}, kind = "let" => name \in Name,
         kind = "call" \/ Top.kind \in BodyKinds, nodes < MaxNodes,
         Push(ExprFrame(kind, name, type)), nodes' = nodes + 1,
         UNCHANGED << table, loop_depth, hasEntry, hasErrors, silent, strayBreak, signature, status >>
  PROVE  StepOK
<1> DEFINE f == ExprFrame(kind, name, type)
<1>1. f \in Frame /\ f.kind = kind /\ f.vals = << >> /\ FrameOK(f, DOMAIN table)
  BY ExprFrameFacts
<1>2. kind # "program" /\ kind \notin LoopKinds
  BY DEF ExprKinds, LoopKinds
<1>3. Push(f)
  OBVIOUS
<1> HIDE DEF f
<1>4. /\ WellStacked(frames', DOMAIN table) /\ ReadsStayLoose(frames', table)
      /\ Cardinality(OpenLoops(frames')) - Cardinality(OpenLoops(frames)) = 0
  BY <1>1, <1>2, <1>3, PushStep
<1> QED BY <1>4, InvFacts, TableStays, Assemble

(* A statement that reports an error and is skipped.                       *)
LEMMA SkipStatement ==
  ASSUME Inv, nodes' = nodes + 1, {hasEntry', hasErrors', silent', strayBreak'} \subseteq BOOLEAN,
         UNCHANGED << table, frames, loop_depth, signature, status >>
  PROVE  StepOK
BY InvFacts, TableStays, Assemble

(* A frame of an expression or a branch returns; the table keeps its keys  *)
(* or grows.                                                               *)
LEMMA LeaveFrame ==
  ASSUME Inv, Top.kind \notin {"program", "call"} \cup LoopKinds, Pop,
         TableOK(table'), Preserves(table, table'), hasErrors' \in BOOLEAN,
         UNCHANGED << loop_depth, hasEntry, silent, strayBreak, signature, nodes, status >>
  PROVE  StepOK
<1>1. /\ WellStacked(frames', DOMAIN table) /\ \A t : ReadsStayLoose(frames', t)
      /\ Cardinality(OpenLoops(frames')) - Cardinality(OpenLoops(frames)) = 0
  BY PopStep
<1>2. DOMAIN table \subseteq DOMAIN table'
  BY DEF Preserves
<1>3. WellStacked(frames', DOMAIN table')
  BY <1>1, <1>2, MoreKeys
<1> QED BY <1>1, <1>3, InvFacts, Assemble

(* A declaration enters one variable, when its type is known.              *)
LEMMA FinishLetKeeps ==
  ASSUME Inv, FinishLet
  PROVE  StepOK
<1> USE DEF ghosts
<1> DEFINE type == Top.vals[1].type
           settled == IF type = Null THEN Top.type ELSE type
           annotated == Top.type # NoType
<1>1. Top.kind = "let" /\ Len(Top.vals) = 1 /\ Pop
      /\ UNCHANGED << loop_depth, hasEntry, silent, strayBreak, signature, nodes, status >>
  BY DEF FinishLet
<1>2. "let" \notin {"program", "call"} \cup LoopKinds
  BY DEF LoopKinds
<1>3. Top.vals[1] \in Value
  BY <1>1, TopFacts
<1>4. ASSUME type # Null \/ annotated PROVE settled \in Type
  <2>1. type \in Type \cup {Null} /\ Top.type \in Type \cup {NoType}
    BY <1>3, TopFacts DEF Value
  <2> QED BY <1>4, <2>1
<1>5. TableOK(table') /\ Preserves(table, table') /\ hasErrors' \in BOOLEAN
  <2>1. CASE type = Null /\ ~annotated
    <3>1. table' = table /\ hasErrors' = TRUE
      BY <2>1 DEF FinishLet, AddErr
    <3> QED BY <3>1, InvFacts, TableStays
  <2>2. CASE type # Null \/ annotated
    <3> DEFINE key == Top.prefix \o Top.name
               symbol == Variable(settled, Top.id)
    <3>1. key \in Seq(Atom)
      <4>1. Top.name \in Name
        BY <1>1, TopFacts DEF FrameOK
      <4> QED BY <4>1, TopFacts, FunctionPrefixFacts
    <3>2. symbol \in Symbol
      BY <1>4, <2>2, TopFacts, VariableIsSymbol
    <3>3. table' = Insert(table, key, symbol) /\ hasErrors' \in BOOLEAN
      BY <2>2, InvFacts DEF FinishLet
    <3> HIDE DEF key, symbol
    <3> QED BY <3>1, <3>2, <3>3, InvFacts, InsertKeeps
  <2> QED BY <2>1, <2>2
<1> QED BY <1>1, <1>2, <1>5, LeaveFrame

(* A return settles the type of some function.                             *)
LEMMA FinishReturnKeeps ==
  ASSUME Inv, FinishReturn
  PROVE  StepOK
<1> USE DEF ghosts
<1> DEFINE type == Top.vals[1].type
           targets == ReturnTargets(table, Top.prefix)
<1>1. Top.kind = "return" /\ Len(Top.vals) = 1
  BY DEF FinishReturn
<1>2. CASE type = Null
  BY <1>2, CrashKeeps DEF FinishReturn
<1>3. CASE type # Null
  <2>1. Pop /\ UNCHANGED << loop_depth, hasEntry, hasErrors, silent, strayBreak, signature,
                           nodes, status >>
        /\ (table' = table \/ \E k \in targets : table' = [table EXCEPT ![k].type = type])
    BY <1>3 DEF FinishReturn
  <2>2. type \in Type
    <3>1. Top.vals[1] \in Value
      BY <1>1, TopFacts
    <3> QED BY <1>3, <3>1 DEF Value
  <2>3. ASSUME NEW k \in targets
        PROVE  k \in DOMAIN table /\ table[k].isFunction
    BY <2>3 DEF ReturnTargets
  <2>4. TableOK(table') /\ Preserves(table, table')
    <3>1. CASE table' = table
      BY <3>1, InvFacts, TableStays
    <3>2. ASSUME NEW k \in targets, table' = [table EXCEPT ![k].type = type]
          PROVE  TableOK(table') /\ Preserves(table, table')
      <4> HIDE DEF targets, type
      <4> QED BY <2>2, <2>3, <3>2, InvFacts, RetypeKeeps
    <3> QED BY <2>1, <3>1, <3>2
  <2>5. "return" \notin {"program", "call"} \cup LoopKinds
    BY DEF LoopKinds
  <2> QED BY <1>1, <2>1, <2>4, <2>5, InvFacts, LeaveFrame
<1> QED BY <1>2, <1>3

(* A call delivers the type its symbol has.                                *)
LEMMA FinishCallKeeps ==
  ASSUME Inv, FinishCall
  PROVE  StepOK
<1> USE DEF ghosts
<1> DEFINE key == Lookup(table, Top.prefix, Top.name)
           type == IF key = NoKey THEN "Unknown" ELSE table[key].type
<1>1. Top.kind = "call"
  BY DEF FinishCall
<1>2. type \in Type
  <2>1. CASE key = NoKey
    BY <2>1 DEF Type
  <2>2. CASE key # NoKey
    BY <2>2, InvFacts, TopFacts, LookupFinds DEF TableOK, Symbol
  <2> QED BY <2>1, <2>2
<1>3. CASE Crash
  BY <1>3, CrashKeeps
<1>4. CASE ~Crash
  <2>1. /\ Deliver([type |-> type, use |-> NoName]) /\ hasErrors' \in BOOLEAN
        /\ UNCHANGED << table, loop_depth, hasEntry, silent, strayBreak, signature, nodes, status >>
    BY <1>4, InvFacts DEF FinishCall, AddErr
  <2> HIDE DEF type
  <2>2. /\ WellStacked(frames', DOMAIN table) /\ ReadsStayLoose(frames', table)
        /\ Cardinality(OpenLoops(frames')) - Cardinality(OpenLoops(frames)) = 0
    BY <1>1, <1>2, <2>1, DeliverStep
  <2> QED BY <2>1, <2>2, InvFacts, TableStays, Assemble
<1> QED BY <1>3, <1>4

(* A function enters the table before its body is analysed.                *)
LEMMA FunctionDefKeeps ==
  ASSUME Inv, NEW name \in Name, NEW params \in ParamList, FunctionDef(name, params)
  PROVE  StepOK
<1> USE DEF ghosts
<1> DEFINE key == Top.prefix \o name
           prefix == FunctionPrefix(Top.prefix, name)
           new == ParamSymbols(prefix, params, nodes + 1)
           symbol == Function("Unknown", ParamTypes(params), Top.id, params)
           f == BodyFrame("function", prefix, nodes + 1)
<1>1. /\ Top.kind \in BodyKinds /\ nodes' = nodes + 1
      /\ table' = Insert(Merge(table, new), key, symbol) /\ Push(f)
      /\ UNCHANGED << loop_depth, hasEntry, hasErrors, silent, strayBreak, signature, status >>
  BY DEF FunctionDef, AtStatement
<1>2. key \in Seq(Atom) /\ prefix \in Seq(Atom) /\ prefix # << >> /\ Front(prefix) = key
  BY TopFacts, FunctionPrefixFacts
<1>3. symbol \in Symbol
  <2>1. params \in Seq(Param) /\ "Unknown" \in Type
    BY ParamAssumption DEF Type
  <2>2. ParamTypes(params) \in Seq(Type)
    <3>1. Len(params) \in Nat /\ DOMAIN params = 1..Len(params) /\ \A i \in DOMAIN params : params[i] \in Param
      BY <2>1
    <3>2. ParamTypes(params) \in [1..Len(params) -> Type]
      BY <3>1 DEF ParamTypes, Param
    <3> QED BY <3>1, <3>2, SeqDef
  <2> QED BY <2>1, <2>2, TopFacts, FunctionIsSymbol
<1> HIDE DEF key, prefix, new, symbol, f
<1>4. TableOK(new)
  BY <1>2, InvFacts, ParamsAreSymbols DEF new
<1>5. /\ TableOK(Merge(table, new)) /\ Preserves(table, Merge(table, new))
      /\ DOMAIN table \subseteq DOMAIN Merge(table, new)
  BY <1>4, InvFacts, MergeKeeps
<1>6. /\ TableOK(table') /\ Preserves(Merge(table, new), table')
      /\ DOMAIN table' = DOMAIN Merge(table, new) \cup {key}
  BY <1>1, <1>2, <1>3, <1>5, InsertKeeps
<1>7. Preserves(table, table') /\ DOMAIN table \subseteq DOMAIN table' /\ key \in DOMAIN table'
  BY <1>5, <1>6 DEF Preserves, Numeric, Loose
<1>8. f \in Frame /\ f.kind = "function" /\ f.vals = << >> /\ FrameOK(f, DOMAIN table')
  <2>1. "function" \in BodyKinds
    BY DEF BodyKinds
  <2> QED BY <1>2, <1>7, <2>1, InvFacts, BodyFrameFacts DEF f
<1>9. /\ WellStacked(frames', DOMAIN table') /\ ReadsStayLoose(frames', table')
      /\ Cardinality(OpenLoops(frames')) - Cardinality(OpenLoops(frames)) = 0
  <2>1. f.kind # "program" /\ f.kind \notin LoopKinds
    BY <1>8 DEF LoopKinds
  <2> QED BY <1>1, <1>7, <1>8, <2>1, PushStep
<1> QED BY <1>1, <1>6, <1>7, <1>9, InvFacts, Assemble

(* The node takes its function's type: the function is in the table.       *)
LEMMA EndFunctionKeeps ==
  ASSUME Inv, EndFunction
  PROVE  StepOK
<1> DEFINE key == Front(Top.prefix)
           new == [k \in {key} |-> table[key].type]
<1>1. /\ Top.kind = "function" /\ Pop /\ signature' = Merge(new, signature)
      /\ UNCHANGED << table, loop_depth, hasEntry, hasErrors, silent, strayBreak, nodes, status >>
  BY DEF EndFunction
<1>2. key \in DOMAIN table /\ table[key].type \in Type
  BY <1>1, InvFacts, TopFacts DEF FrameOK, TableOK, Symbol
<1>3. DOMAIN signature' \subseteq DOMAIN table /\ \A k \in DOMAIN signature' : signature'[k] \in Type
  <2>1. DOMAIN new = {key} /\ new[key] \in Type
    BY <1>2
  <2>2. DOMAIN signature \subseteq DOMAIN table /\ \A k \in DOMAIN signature : signature[k] \in Type
    BY DEF Inv, TypeOK
  <2> HIDE DEF new, key
  <2>3. /\ DOMAIN signature' = {key} \cup DOMAIN signature
        /\ \A k \in DOMAIN signature' : signature'[k] = IF k \in {key} THEN new[k] ELSE signature[k]
    BY <1>1, <2>1 DEF Merge
  <2> QED BY <1>2, <2>1, <2>2, <2>3
<1>4. /\ WellStacked(frames', DOMAIN table) /\ ReadsStayLoose(frames', table)
      /\ Cardinality(OpenLoops(frames')) - Cardinality(OpenLoops(frames)) = 0
  <2>1. "function" \notin {"program"} \cup LoopKinds
    BY DEF LoopKinds
  <2> QED BY <1>1, <2>1, PopStep
<1>5. Cardinality(OpenLoops(frames)) \in Nat /\ Cardinality(OpenLoops(frames')) \in Nat
  BY <1>4, InvFacts, LoopsFinite
<1>6. loop_depth = Cardinality(OpenLoops(frames))
  BY DEF Inv, LoopDepthMatchesNesting
<1>7. TypeOK'
  BY <1>1, <1>3, <1>4, InvFacts DEF TypeOK
<1>8. LoopDepthMatchesNesting'
  BY <1>1, <1>4, <1>5, <1>6 DEF LoopDepthMatchesNesting
<1>9. StaleReadsAreLoose' /\ Preserves(table, table')
  BY <1>1, <1>4, InvFacts, TableStays DEF StaleReadsAreLoose
<1> QED BY <1>7, <1>8, <1>9 DEF StepOK, Inv

(* Declarations, returns and calls keep the invariant.                     *)
LEMMA DeclarationKeeps ==
  ASSUME Inv, DeclarationStep
  PROVE  StepOK
<1> USE DEF ghosts
<1>1. ASSUME NEW name \in Name, LetClash(name) PROVE StepOK
  BY <1>1, InvFacts, SkipStatement DEF LetClash, AtStatement, AddErr
<1>2. ASSUME NEW name \in Name, NEW type \in DeclaredType \cup {NoType}, Let(name, type) PROVE StepOK
  <2>1. "let" \in ExprKinds /\ type \in Type \cup {NoType}
    BY TypeAssumption DEF ExprKinds
  <2> QED BY <1>2, <2>1, EnterExpr DEF Let, AtStatement
<1>3. CASE FinishLet
  BY <1>3, FinishLetKeeps
<1>4. CASE Return
  <2>1. "return" \in ExprKinds
    BY DEF ExprKinds
  <2> QED BY <1>4, <2>1, EnterExpr DEF Return, AtStatement
<1>5. CASE FinishReturn
  BY <1>5, FinishReturnKeeps
<1>6. ASSUME NEW name \in Name, Call(name) PROVE StepOK
  <2>1. "call" \in ExprKinds
    BY DEF ExprKinds
  <2> QED BY <1>6, <2>1, EnterExpr DEF Call, AtStatement, AtOperand
<1>7. CASE FinishCall
  BY <1>7, FinishCallKeeps
<1>8. ASSUME NEW name \in Name, FunctionClash(name) PROVE StepOK
  BY <1>8, InvFacts, SkipStatement DEF FunctionClash, AtStatement, AddErr
<1>9. ASSUME NEW name \in Name, NEW params \in ParamList, FunctionDef(name, params) PROVE StepOK
  BY <1>9, FunctionDefKeeps
<1>10. CASE EndFunction
  BY <1>10, EndFunctionKeeps
<1>11. ASSUME NEW name \in Name, NEW params \in ParamList, NEW type \in DeclaredType,
              Extern(name, params, type)
       PROVE  StepOK
  <2> DEFINE symbol == Function(type, << >>, 0, params)
  <2>1. name \in Seq(Atom) /\ symbol \in Symbol
    <3>1. name \in Seq(Atom)
      BY NameAssumption
    <3>2. type \in Type /\ params \in Seq(Param)
      BY TypeAssumption, ParamAssumption
    <3>3. << >> \in Seq(Type) /\ 0 \in Nat
      OBVIOUS
    <3>4. symbol \in Symbol
      BY <3>2, <3>3, FunctionIsSymbol
    <3> QED BY <3>1, <3>4
  <2>2. /\ Top.kind \in BodyKinds /\ nodes' = nodes + 1 /\ table' = Insert(table, name, symbol)
        /\ UNCHANGED << frames, loop_depth, hasEntry, hasErrors, silent, strayBreak, signature, status >>
    BY <1>11 DEF Extern, AtStatement
  <2> HIDE DEF symbol
  <2>3. TableOK(table') /\ Preserves(table, table')
    BY <2>1, <2>2, InvFacts, InsertKeeps
  <2>4. WellStacked(frames', DOMAIN table')
    <3>1. DOMAIN table \subseteq DOMAIN table'
      BY <2>3 DEF Preserves
    <3> QED BY <2>2, <3>1, InvFacts, MoreKeys
  <2>5. ReadsStayLoose(frames', table')
    BY <2>2, BodyOnTop, NothingRead
  <2> QED BY <2>2, <2>3, <2>4, <2>5, InvFacts, Assemble
<1> QED BY <1>1, <1>2, <1>3, <1>4, <1>5, <1>6, <1>7, <1>8, <1>9, <1>10, <1>11 DEF DeclarationStep

(* The body of a branch or a loop replaces the frame of its condition, and *)
(* an else branch the one of the then branch.                              *)
LEMMA EnterBody ==
  ASSUME Inv, Top.kind \notin {"program", "call"} \cup LoopKinds,
         NEW kind \in BodyKinds \ {"program", "function"}, NEW prefix \in Seq(Atom), NEW id \in Nat,
         frames' = Append(Below, BodyFrame(kind, prefix, id)),
         loop_depth' = loop_depth + (IF kind \in LoopKinds THEN 1 ELSE 0),
         hasErrors' \in BOOLEAN, nodes' \in Nat,
         UNCHANGED << table, hasEntry, silent, strayBreak, signature, status >>
  PROVE  StepOK
<1> DEFINE f == BodyFrame(kind, prefix, id)
<1>1. f \in Frame /\ f.kind = kind /\ f.vals = << >> /\ FrameOK(f, DOMAIN table)
  BY BodyFrameFacts
<1>2. frames' = Append(Below, f)
  OBVIOUS
<1> HIDE DEF f
<1>3. /\ WellStacked(frames', DOMAIN table) /\ ReadsStayLoose(frames', table)
      /\ Cardinality(OpenLoops(frames')) - Cardinality(OpenLoops(frames)) =
           IF kind \in LoopKinds THEN 1 ELSE 0
  BY <1>1, <1>2, ReplaceStep
<1> QED BY <1>3, InvFacts, TableStays, Assemble

(* Control statements keep the invariant.                                  *)
LEMMA ControlKeeps ==
  ASSUME Inv, ControlStep
  PROVE  StepOK
<1> USE DEF ghosts
<1>1. CASE If
  <2>1. "ifCond" \in ExprKinds
    BY DEF ExprKinds
  <2> QED BY <1>1, <2>1, EnterExpr DEF If, AtStatement
<1>2. CASE FinishIfCond
  <2>1. Top.kind = "ifCond" /\ "ifCond" \notin {"program", "call"} \cup LoopKinds
    BY <1>2 DEF FinishIfCond, LoopKinds
  <2>2. CASE Pop /\ UNCHANGED hasErrors
    BY <1>2, <2>1, <2>2, InvFacts, TableStays, LeaveFrame DEF FinishIfCond
  <2>3. CASE ~(Pop /\ UNCHANGED hasErrors)
    <3>1. Top.node \in 1..MaxNodes /\ Top.node \in Nat
      BY <2>1, TopFacts DEF FrameOK
    <3>2. IfPrefix(Top.prefix, Top.node) \in Seq(Atom)
      BY <3>1, TopFacts, PrefixIsKey
    <3>3. "then" \in BodyKinds \ {"program", "function"} /\ "then" \notin LoopKinds
      BY DEF BodyKinds, LoopKinds
    <3>4. loop_depth + 0 = loop_depth
      BY InvFacts
    <3> QED BY <1>2, <2>1, <2>3, <3>1, <3>2, <3>3, <3>4, InvFacts, EnterBody DEF FinishIfCond
  <2> QED BY <2>2, <2>3
<1>3. CASE Else
  <2>1. Top.kind = "then" /\ "then" \notin {"program", "call"} \cup LoopKinds
    BY <1>3 DEF Else, LoopKinds
  <2>2. ElsePrefix(Top.prefix) \in Seq(Atom)
    BY TopFacts, PrefixIsKey
  <2>3. "else" \in BodyKinds \ {"program", "function"} /\ "else" \notin LoopKinds
    BY DEF BodyKinds, LoopKinds
  <2>4. loop_depth + 0 = loop_depth
    BY InvFacts
  <2> QED BY <1>3, <2>1, <2>2, <2>3, <2>4, InvFacts, EnterBody DEF Else
<1>4. CASE EndIf
  <2>1. Top.kind \in {"then", "else"} /\ Top.kind \notin {"program", "call"} \cup LoopKinds
    BY <1>4 DEF EndIf, LoopKinds
  <2> QED BY <1>4, <2>1, InvFacts, TableStays, LeaveFrame DEF EndIf
<1>5. CASE While
  <2>1. "whileCond" \in ExprKinds
    BY DEF ExprKinds
  <2> QED BY <1>5, <2>1, EnterExpr DEF While, AtStatement
<1>6. CASE FinishWhileCond
  <2>1. Top.kind = "whileCond" /\ "whileCond" \notin {"program", "call"} \cup LoopKinds
    BY <1>6 DEF FinishWhileCond, LoopKinds
  <2>2. CASE Crash
    BY <2>2, CrashKeeps
  <2>3. CASE ~Crash
    <3>1. Top.node \in 1..MaxNodes /\ Top.node \in Nat
      BY <2>1, TopFacts DEF FrameOK
    <3>2. WhilePrefix(Top.prefix, Top.node) \in Seq(Atom)
      BY <3>1, TopFacts, PrefixIsKey
    <3>3. "while" \in BodyKinds \ {"program", "function"} /\ "while" \in LoopKinds
      BY DEF BodyKinds, LoopKinds
    <3> QED BY <1>6, <2>1, <2>3, <3>1, <3>2, <3>3, InvFacts, EnterBody DEF FinishWhileCond
  <2> QED BY <2>2, <2>3
<1>7. ASSUME NEW name \in Name, For(name) PROVE StepOK
  <2> DEFINE prefix == ForPrefix(Top.prefix)
             symbol == Variable("Int", nodes + 1)
             f == BodyFrame("for", prefix, nodes + 1)
             key == prefix \o name
  <2>1. /\ Top.kind \in BodyKinds /\ nodes' = nodes + 1 /\ loop_depth' = loop_depth + 1
        /\ table' = Insert(table, key, symbol) /\ Push(f)
        /\ UNCHANGED << hasEntry, hasErrors, silent, strayBreak, signature, status >>
    BY <1>7 DEF For, AtStatement
  <2>2. prefix \in Seq(Atom)
    BY TopFacts, PrefixIsKey
  <2>3. key \in Seq(Atom) /\ symbol \in Symbol
    <3>1. "Int" \in Type
      BY DEF Type
    <3> HIDE DEF prefix
    <3> QED BY <2>2, <3>1, InvFacts, FunctionPrefixFacts, VariableIsSymbol
  <2>4. "for" \in BodyKinds /\ "for" \in LoopKinds
    BY DEF BodyKinds, LoopKinds
  <2> HIDE DEF prefix, symbol, key
  <2>5. TableOK(table') /\ Preserves(table, table') /\ DOMAIN table \subseteq DOMAIN table'
    <3>1. table' = Insert(table, key, symbol) /\ TableOK(table)
      BY <2>1, InvFacts
    <3>2. TableOK(table') /\ Preserves(table, table')
      BY <2>3, <3>1, InsertKeeps
    <3> QED BY <3>2 DEF Preserves
  <2>6. f \in Frame /\ f.kind = "for" /\ f.vals = << >> /\ FrameOK(f, DOMAIN table')
    BY <2>2, <2>4, InvFacts, BodyFrameFacts
  <2> HIDE DEF f
  <2>7. /\ WellStacked(frames', DOMAIN table') /\ ReadsStayLoose(frames', table')
        /\ Cardinality(OpenLoops(frames')) - Cardinality(OpenLoops(frames)) = 1
    BY <2>1, <2>4, <2>5, <2>6, PushStep
  <2> QED BY <2>1, <2>5, <2>7, InvFacts, Assemble
<1>8. CASE EndLoop
  <2>1. Top.kind \in LoopKinds /\ Top.kind \notin {"program", "call"} /\ Pop
    BY <1>8 DEF EndLoop, LoopKinds
  <2>2. /\ WellStacked(frames', DOMAIN table) /\ ReadsStayLoose(frames', table)
        /\ Cardinality(OpenLoops(frames')) - Cardinality(OpenLoops(frames)) = -1
    BY <2>1, PopStep
  <2> QED BY <1>8, <2>2, InvFacts, TableStays, Assemble DEF EndLoop
<1>9. CASE Break
  <2>1. hasErrors' \in BOOLEAN /\ strayBreak' \in BOOLEAN
    BY <1>9, InvFacts DEF Break
  <2> QED BY <1>9, <2>1, InvFacts, TableStays, Assemble DEF Break, AtStatement
<1>10. ASSUME NEW name \in Name, CollectionOverride(name) PROVE StepOK
  <2>1. hasErrors' \in BOOLEAN /\ silent' \in BOOLEAN
    BY <1>10, InvFacts DEF CollectionOverride
  <2> QED BY <1>10, <2>1, InvFacts, SkipStatement DEF CollectionOverride, AtStatement
<1>11. ASSUME NEW isEmpty \in BOOLEAN, Main(isEmpty) PROVE StepOK
  <2>1. hasErrors' \in BOOLEAN
    BY <1>11, InvFacts DEF Main
  <2> QED BY <1>11, <2>1, InvFacts, SkipStatement DEF Main, AtStatement
<1>12. CASE Finish
  BY <1>12, InvFacts, TableStays, Assemble DEF Finish
<1>13. CASE Halted
  BY <1>13, InvFacts, TableStays, Assemble DEF Halted, vars
<1> QED BY <1>1, <1>2, <1>3, <1>4, <1>5, <1>6, <1>7, <1>8, <1>9, <1>10, <1>11, <1>12, <1>13
        DEF ControlStep

-----------------------------------------------------------------------------
(* The theorems.                                                           *)

(* The program frame alone is a well-formed stack with no loop open.       *)
LEMMA InitInv ==
  ASSUME Init
  PROVE  Inv
<1> DEFINE f == BodyFrame("program", << >>, 0)
<1>1. f \in Frame /\ f.kind = "program" /\ f.vals = << >> /\ FrameOK(f, DOMAIN table)
  <2>1. "program" \in BodyKinds /\ << >> \in Seq(Atom) /\ 0 \in Nat
    BY DEF BodyKinds
  <2> QED BY <2>1, BodyFrameFacts
<1>2. frames = << f >>
  BY DEF Init
<1> HIDE DEF f
<1>3. frames \in Seq(Frame) /\ frames # << >> /\ DOMAIN frames = {1} /\ frames[1] = f
  <2>1. << f >> \in Seq(Frame)
    BY <1>1, ShortSeq
  <2>2. << f >> # << >> /\ DOMAIN << f >> = {1} /\ << f >>[1] = f
    OBVIOUS
  <2> QED BY <1>2, <2>1, <2>2
<1>4. WellStacked(frames, DOMAIN table)
  <2>1. f.kind \notin ExprKinds
    BY <1>1, KindsDisjoint
  <2> QED BY <1>1, <1>3, <2>1 DEF WellStacked
<1>5. DOMAIN table = {} /\ DOMAIN signature = {} /\ TableOK(table)
  BY DEF Init, TableOK
<1>6. TypeOK
  <2>1. {hasEntry, hasErrors, silent, strayBreak} \subseteq BOOLEAN
    BY DEF Init
  <2>2. loop_depth \in Int /\ nodes \in Nat /\ status \in {"running", "done", "crashed"}
    BY DEF Init
  <2>3. DOMAIN signature \subseteq DOMAIN table /\ \A key \in DOMAIN signature : signature[key] \in Type
    BY <1>5
  <2> QED BY <1>4, <1>5, <2>1, <2>2, <2>3 DEF TypeOK
<1>7. LoopDepthMatchesNesting
  <2>1. OpenLoops(frames) = {}
    BY <1>1, <1>3 DEF OpenLoops, LoopKinds
  <2> QED BY <2>1, FS_EmptySet DEF Init, LoopDepthMatchesNesting
<1>8. StaleReadsAreLoose
  BY <1>1, <1>3, NothingRead DEF StaleReadsAreLoose
<1> QED BY <1>6, <1>7, <1>8 DEF Inv

(* Every step keeps the invariant and the symbols of the table.            *)
LEMMA NextKeeps ==
  ASSUME Inv, [Next]_vars
  PROVE  StepOK
<1>1. CASE OperandStep
  BY <1>1, OperandKeeps
<1>2. CASE DeclarationStep
  BY <1>2, DeclarationKeeps
<1>3. CASE ControlStep
  BY <1>3, ControlKeeps
<1>4. CASE UNCHANGED vars
  BY <1>4, InvFacts, TableStays, Assemble DEF vars, ghosts
<1> QED BY <1>1, <1>2, <1>3, <1>4 DEF Next

(* The invariant that the theorems below take apart.                       *)
THEOREM Invariance == Spec => []Inv
<1>1. Init => Inv
  BY InitInv
<1>2. Inv /\ [Next]_vars => Inv'
  BY NextKeeps DEF StepOK
<1> QED BY <1>1, <1>2, PTL DEF Spec

(* Analyze keeps its call stack, the symbol table and the diagnostics well *)
(* formed for every program: an expression has only calls nested in it and *)
(* the symbol of a function is in the table while its body is analysed     *)
(* (:321 relies on it).                                                    *)
THEOREM TypeCorrect == Spec => []TypeOK
<1>1. Inv => TypeOK
  BY DEF Inv
<1> QED BY <1>1, Invariance, PTL

(* The counter that decides whether a break is accepted (:485) is at every *)
(* moment the number of loop bodies under analysis.                        *)
THEOREM LoopDepthCorrect == Spec => []LoopDepthMatchesNesting
<1>1. Inv => LoopDepthMatchesNesting
  BY DEF Inv
<1> QED BY <1>1, Invariance, PTL

(* An operand read as unknown before its right neighbour was analysed      *)
(* still belongs to a function or to a variable that is unknown or a       *)
(* number when the inference of :126-:134 overwrites its type.             *)
THEOREM StaleReadsLoose == Spec => []StaleReadsAreLoose
<1>1. Inv => StaleReadsAreLoose
  BY DEF Inv
<1> QED BY <1>1, Invariance, PTL

(* No step of the analysis removes a symbol, changes what a call of it     *)
(* must pass, or moves a variable to a type other than by the inference of *)
(* a number (:126-:134).                                                   *)
THEOREM SymbolsStable == Spec => SymbolsAreStable
<1>1. Inv /\ [Next]_vars => [Preserves(table, table')]_vars
  BY NextKeeps DEF StepOK
<1> QED BY <1>1, Invariance, PTL DEF Spec, SymbolsAreStable
=============================================================================
