--------------------------- MODULE ManglingProofs ---------------------------
(* Theorems about the semantic analyser that rest on how it mangles keys:  *)
(* a return finds its function, and a call its parameters, by the segments *)
(* of a prefix.                                                            *)
EXTENDS SemanticProofs

-----------------------------------------------------------------------------
(* Keys and prefixes.                                                      *)

(* What follows the last '_' of a key: nothing, or a sequence that ends as *)
(* the key does.                                                           *)
LEMMA LastSegmentEnds ==
  ASSUME NEW key \in Seq(Atom)
  PROVE  /\ key = << >> \/ Last(key) = "_" => LastSegment(key) = << >>
         /\ key # << >> /\ Last(key) # "_" =>
              LastSegment(key) # << >> /\ Last(LastSegment(key)) = Last(key)
<1> DEFINE n == Len(key)
           bars == {0} \cup {j \in DOMAIN key : key[j] = "_"}
           m == Max(bars)
           end == SubSeq(key, m + 1, n)
<1>1. n \in Nat /\ DOMAIN key = 1..n /\ LastSegment(key) = end
  BY DEF LastSegment
<1> HIDE DEF n
<1>2. \A j : j \in bars <=> j = 0 \/ (j \in 1..n /\ key[j] = "_")
  BY <1>1, Zenon
<1> HIDE DEF bars
<1>n. n \in Nat
  BY <1>1
<1>3. m \in bars /\ m \in 0..n /\ \A j \in bars : j <= m
  <2>1. \A j \in bars : j = 0 \/ j \in 1..n
    BY <1>2
  <2>2. bars \subseteq 0..n /\ bars # {}
    <3>1. 0 \in bars
      BY <1>2
    <3> QED BY <1>n, <2>1, <3>1
  <2> QED BY <1>n, <2>2, MaxFacts
<1> HIDE DEF m
<1>4. n \in bars <=> n = 0 \/ key[n] = "_"
  <2>1. n = 0 \/ n \in 1..n
    BY <1>n
  <2> QED BY <1>2, <2>1
<1>5. n \in bars => m = n
  BY <1>1, <1>3
<1>6. n \notin bars => m # n
  BY <1>3
<1>7. ASSUME m = n PROVE end = << >>
  BY <1>1, <1>7
<1>8. ASSUME m # n
      PROVE  end # << >> /\ Last(end) = key[n]
  <2>1. m + 1 \in 1..n /\ n - m \in Nat /\ n - m >= 1
    BY <1>1, <1>3, <1>8
  <2>2. \A i \in (m + 1)..n : key[i] \in Atom
    <3>1. \A i \in (m + 1)..n : i \in 1..n
      BY <2>1, <1>1
    <3> QED BY <3>1, <1>1, ElementOfSeq
  <2>3. Len(end) = n - m /\ \A i \in 1..(n - m) : end[i] = key[m + i] /\ end \in Seq(Atom)
    BY <2>1, <2>2, <1>1, <1>3, SubSeqProperties
  <2>4. end[n - m] = key[n]
    <3>1. n - m \in 1..(n - m) /\ m + (n - m) = n
      BY <2>1, <1>1, <1>3
    <3> QED BY <2>3, <3>1
  <2>5. end # << >>
    <3>1. Len(end) # 0
      BY <2>1, <2>3
    <3> HIDE DEF end
    <3> QED BY <3>1
  <2>6. Last(end) = end[n - m]
    BY <2>3 DEF Last
  <2> QED BY <2>4, <2>5, <2>6
<1>9. key = << >> <=> n = 0
  BY <1>1, EmptySeq DEF n
<1>10. Last(key) = key[n]
  BY DEF Last, n
<1> QED BY <1>1, <1>4, <1>5, <1>6, <1>7, <1>8, <1>9, <1>10

(* A prefix that a word and a separator end; one that is not empty and     *)
(* ends in a separator.                                                    *)
LEMMA ConcatEnds ==
  ASSUME NEW s \in Seq(Atom), NEW t \in Seq(Atom), t # << >>
  PROVE  /\ s \o t \in Seq(Atom) /\ s \o t # << >> /\ Last(s \o t) = Last(t)
         /\ Len(t) >= 2 => Len(s \o t) >= 2 /\ (s \o t)[Len(s \o t) - 1] = t[Len(t) - 1]
<1>1. /\ s \o t \in Seq(Atom) /\ Len(s \o t) = Len(s) + Len(t)
      /\ \A i \in 1..(Len(s) + Len(t)) :
           (s \o t)[i] = IF i <= Len(s) THEN s[i] ELSE t[i - Len(s)]
      /\ Len(s) \in Nat /\ Len(t) \in Nat /\ Len(t) >= 1
  BY ConcatProperties, EmptySeq
<1> DEFINE n == Len(s)
           m == Len(t)
           u == s \o t
<1>2. ASSUME NEW k \in 1..m PROVE u[n + k] = t[k]
  <2>1. n + k \in 1..(n + m) /\ ~(n + k <= n) /\ (n + k) - n = k
    BY <1>1
  <2> QED BY <1>1, <2>1
<1> HIDE DEF u, n, m
<1>3. u # << >> /\ Last(u) = Last(t)
  <2>1. m \in 1..m
    BY <1>1 DEF m
  <2>2. u[n + m] = t[m]
    BY <1>2, <2>1
  <2>3. Len(u) = n + m /\ n + m # 0
    BY <1>1 DEF u, n, m
  <2>4. u # << >>
    BY <2>3, EmptySeq
  <2> QED BY <2>2, <2>3, <2>4 DEF Last, m
<1>4. ASSUME m >= 2 PROVE Len(u) >= 2 /\ u[Len(u) - 1] = t[m - 1]
  <2>1. Len(u) = n + m /\ n \in Nat /\ m \in Nat
    BY <1>1 DEF u, n, m
  <2>2. m - 1 \in 1..m /\ n + (m - 1) = (n + m) - 1 /\ n + m >= 2
    BY <1>4, <2>1
  <2>3. u[n + (m - 1)] = t[m - 1]
    BY <1>2, <2>2
  <2> QED BY <2>1, <2>2, <2>3
<1> QED BY <1>1, <1>3, <1>4 DEF u, m

-----------------------------------------------------------------------------
(* The invariant.                                                          *)

(* Another function that a return takes for f.                             *)
Twin(t, f) ==
  \E g \in DOMAIN t \ {f} : t[g].isFunction /\ LastSegment(g) = LastSegment(f)

(* A prefix whose function is under analysis; one that is empty, or ends   *)
(* in ':' or in the position of a branch or a loop.                        *)
OpenBody(p, t, sig) ==
  /\ p # << >>
  /\ Front(p) \in DOMAIN t \ DOMAIN sig /\ t[Front(p)].isFunction

Labelled(p) ==
  p # << >> /\ Last(p) = "_" => Len(p) >= 2 /\ p[Len(p) - 1] \in Placed

(* A prefix is empty or ends in a separator.                               *)
Separated(p) == p = << >> \/ Last(p) \in {"_", ":"}

FrameOpen(f, t, sig) ==
  /\ Separated(f.prefix)
  /\ OpenBody(f.prefix, t, sig) \/ Labelled(f.prefix)
  /\ f.kind = "function" => OpenBody(f.prefix, t, sig)
  /\ f.kind \in BodyKinds \ {"function"} => Labelled(f.prefix)

(* The frames of the stack; no function is under analysis twice.           *)
BodiesOpen(stack, t, sig) ==
  /\ \A i \in DOMAIN stack : FrameOpen(stack[i], t, sig)
  /\ \A i, j \in DOMAIN stack :
       /\ stack[i].kind = "function" /\ stack[j].kind = "function"
       /\ Front(stack[i].prefix) = Front(stack[j].prefix)
       => i = j

(* An operand read as unknown, and taken for unknown until it is inferred, *)
(* is the use of no held key.                                              *)
Avoids(v, prefix, t, held) ==
  LET key == Lookup(t, prefix, v.use)
  IN  v.use # NoName /\ v.type = "Unknown" /\ key # NoKey => key \notin held

ReadsAvoid(stack, t, held) ==
  \A i \in DOMAIN stack : \A j \in DOMAIN stack[i].vals :
    Avoids(stack[i].vals[j], stack[i].prefix, t, held)

Known(t, held) == \A k \in held : k \in DOMAIN t => t[k].type # "Unknown"

(* No function has a name that ends as the label of a branch or a loop.    *)
FunctionsNamed(t) ==
  \A k \in DOMAIN t : t[k].isFunction => k # << >> /\ Last(k) \notin Placed

Base ==
  /\ FunctionsNamed(table)
  /\ BodiesOpen(frames, table, signature)

(* Keys whose types are known and that no waiting operand was read from:   *)
(* a step leaves them alone, but for the function a return settles.        *)
Clear(held) == ReadsAvoid(frames, table, held) /\ Known(table, held)

Kept(held) ==
  /\ Base' /\ ReadsAvoid(frames', table', held)
  /\ \A k \in held \cap DOMAIN table :
       table'[k] = table[k] \/ k \in ReturnTargets(table, Top.prefix)

-----------------------------------------------------------------------------
(* A return and its function.                                              *)

(* A return under the prefix of a branch or a loop has no target.          *)
LEMMA LabelHasNoTarget ==
  ASSUME NEW t, TableOK(t), FunctionsNamed(t), NEW p \in Seq(Atom), Labelled(p)
  PROVE  ReturnTargets(t, p) = {}
<1>1. CASE p = << >> \/ Last(p) # "_"
  BY <1>1 DEF ReturnTargets
<1>2. CASE ~(p = << >> \/ Last(p) # "_")
  <2>1. Len(p) >= 2 /\ p[Len(p) - 1] \in Placed
    BY <1>2 DEF Labelled
  <2>2. Front(p) \in Seq(Atom) /\ Front(p) # << >> /\ Last(Front(p)) \in Placed
    <3>1. /\ Len(p) \in Nat /\ Front(p) \in Seq(Atom) /\ Len(Front(p)) = Len(p) - 1
          /\ \A i \in 1..(Len(p) - 1) : Front(p)[i] = p[i]
      BY <1>2, FrontFacts
    <3>2. Len(p) - 1 \in 1..(Len(p) - 1)
      BY <2>1, <3>1
    <3>3. Front(p) # << >>
      BY <3>1, <3>2, EmptySeq
    <3> QED BY <2>1, <3>1, <3>2, <3>3 DEF Last
  <2>3. "_" \notin Placed
    BY IdentifierAssumption DEF Word
  <2>4. LastSegment(Front(p)) # << >> /\ Last(LastSegment(Front(p))) \in Placed
    BY <2>2, <2>3, LastSegmentEnds
  <2>5. ASSUME NEW k \in DOMAIN t, t[k].isFunction
        PROVE  LastSegment(k) # LastSegment(Front(p))
    <3>1. k \in Seq(Atom) /\ k # << >> /\ Last(k) \notin Placed
      BY <2>5 DEF TableOK, FunctionsNamed
    <3>2. LastSegment(k) = << >> \/ Last(LastSegment(k)) \notin Placed
      BY <3>1, LastSegmentEnds
    <3> QED BY <2>4, <3>2
  <2> QED BY <2>5, <1>2 DEF ReturnTargets
<1> QED BY <1>1, <1>2

(* So a return settles the function under analysis, or one that another    *)
(* function is taken for.                                                  *)
LEMMA TargetIsOpen ==
  ASSUME NEW t, TableOK(t), FunctionsNamed(t), NEW sig,
         NEW p \in Seq(Atom), OpenBody(p, t, sig) \/ Labelled(p),
         NEW k \in ReturnTargets(t, p)
  PROVE  k \in DOMAIN t /\ t[k].isFunction /\ (k \notin DOMAIN sig \/ Twin(t, k))
<1>1. k \in DOMAIN t /\ t[k].isFunction /\ LastSegment(k) = LastSegment(Front(p))
  BY DEF ReturnTargets
<1>2. OpenBody(p, t, sig)
  BY LabelHasNoTarget
<1> QED BY <1>1, <1>2 DEF OpenBody, Twin

-----------------------------------------------------------------------------
(* What a step does to the frames.                                         *)

(* The frames of s, some of them with other values, and other bodies.      *)
LEMMA BodiesFollow ==
  ASSUME NEW s, NEW u, NEW t, NEW sig, BodiesOpen(s, t, sig),
         \A i \in DOMAIN u :
           \/ i \in DOMAIN s /\ u[i].kind = s[i].kind /\ u[i].prefix = s[i].prefix
           \/ FrameOpen(u[i], t, sig) /\ u[i].kind # "function"
  PROVE  BodiesOpen(u, t, sig)
<1>1. \A i \in DOMAIN u : FrameOpen(u[i], t, sig)
  BY DEF BodiesOpen, FrameOpen
<1>2. ASSUME NEW i \in DOMAIN u, NEW j \in DOMAIN u,
             u[i].kind = "function", u[j].kind = "function",
             Front(u[i].prefix) = Front(u[j].prefix)
      PROVE  i = j
  <2>1. i \in DOMAIN s /\ u[i].kind = s[i].kind /\ u[i].prefix = s[i].prefix
    BY <1>2
  <2>2. j \in DOMAIN s /\ u[j].kind = s[j].kind /\ u[j].prefix = s[j].prefix
    BY <1>2
  <2> QED BY <1>2, <2>1, <2>2 DEF BodiesOpen
<1> QED BY <1>1, <1>2 DEF BodiesOpen

(* Leaving a frame.                                                        *)
LEMMA FramesAfterPop ==
  ASSUME NEW stack, NEW keys, WellStacked(stack, keys), NEW t, NEW sig, NEW held,
         BodiesOpen(stack, t, sig), ReadsAvoid(stack, t, held)
  PROVE  BodiesOpen(Front(stack), t, sig) /\ ReadsAvoid(Front(stack), t, held)
<1> DEFINE new == Front(stack)
<1>1. /\ DOMAIN new = 1..(Len(stack) - 1) /\ Len(stack) \in Nat /\ DOMAIN stack = 1..Len(stack)
      /\ \A i \in 1..(Len(stack) - 1) : new[i] = stack[i]
  BY StackFacts
<1> HIDE DEF new
<1>2. \A i \in DOMAIN new : i \in DOMAIN stack /\ new[i] = stack[i]
  BY <1>1
<1>3. BodiesOpen(new, t, sig)
  BY <1>2, BodiesFollow
<1>4. ReadsAvoid(new, t, held)
  BY <1>2 DEF ReadsAvoid
<1> QED BY <1>3, <1>4 DEF new

(* Entering one that has read nothing.                                     *)
LEMMA FramesAfterPush ==
  ASSUME NEW stack, NEW keys, WellStacked(stack, keys), NEW t, NEW sig, NEW held,
         BodiesOpen(stack, t, sig), ReadsAvoid(stack, t, held),
         NEW f \in Frame, FrameOpen(f, t, sig), f.kind # "function", f.vals = << >>
  PROVE  BodiesOpen(Append(stack, f), t, sig) /\ ReadsAvoid(Append(stack, f), t, held)
<1> DEFINE new == Append(stack, f)
<1>1. stack \in Seq(Frame) /\ Len(stack) \in Nat /\ DOMAIN stack = 1..Len(stack)
  BY StackFacts
<1>2. /\ DOMAIN new = 1..(Len(stack) + 1)
      /\ \A i \in 1..Len(stack) : new[i] = stack[i]
      /\ new[Len(stack) + 1] = f
  BY <1>1, AppendFacts
<1> HIDE DEF new
<1>3. \A i \in DOMAIN new : \/ i \in DOMAIN stack /\ new[i] = stack[i]
                            \/ new[i] = f
  BY <1>1, <1>2
<1>4. BodiesOpen(new, t, sig)
  BY <1>3, BodiesFollow
<1>5. DOMAIN f.vals = {}
  OBVIOUS
<1>6. ReadsAvoid(new, t, held)
  BY <1>3, <1>5 DEF ReadsAvoid
<1> QED BY <1>4, <1>6 DEF new

(* The operands of the top frame become vals, old ones or settled ones.    *)
LEMMA FramesAfterValue ==
  ASSUME NEW stack, NEW keys, WellStacked(stack, keys), NEW t, NEW sig, NEW held,
         BodiesOpen(stack, t, sig), ReadsAvoid(stack, t, held),
         NEW vals \in Seq(Value),
         \A j \in DOMAIN vals :
           \/ j \in DOMAIN Last(stack).vals /\ vals[j] = Last(stack).vals[j]
           \/ Avoids(vals[j], Last(stack).prefix, t, held)
  PROVE  /\ BodiesOpen([stack EXCEPT ![Len(stack)].vals = vals], t, sig)
         /\ ReadsAvoid([stack EXCEPT ![Len(stack)].vals = vals], t, held)
<1> DEFINE n == Len(stack)
           f == [stack[n] EXCEPT !.vals = vals]
           new == [stack EXCEPT ![n] = f]
<1>1. /\ n \in Nat /\ DOMAIN stack = 1..n /\ n \in DOMAIN stack
      /\ Last(stack) = stack[n] /\ stack[n] \in Frame
  BY StackFacts
<1>2. f.vals = vals /\ f.prefix = stack[n].prefix /\ f.kind = stack[n].kind
  BY <1>1 DEF Frame
<1>3. DOMAIN new = 1..n /\ \A i \in 1..n : new[i] = IF i = n THEN f ELSE stack[i]
  BY <1>1
<1>4. [stack EXCEPT ![Len(stack)].vals = vals] = new
  OBVIOUS
<1> HIDE DEF new, f, n
<1>5. \A i \in DOMAIN new :
        i \in DOMAIN stack /\ new[i].kind = stack[i].kind /\ new[i].prefix = stack[i].prefix
  BY <1>1, <1>2, <1>3
<1>6. BodiesOpen(new, t, sig)
  BY <1>5, BodiesFollow
<1>7. ASSUME NEW i \in DOMAIN new, NEW j \in DOMAIN new[i].vals
      PROVE  Avoids(new[i].vals[j], new[i].prefix, t, held)
  <2>1. CASE i # n
    <3>1. new[i] = stack[i] /\ i \in DOMAIN stack
      BY <1>1, <1>3, <1>7, <2>1
    <3> QED BY <1>7, <3>1 DEF ReadsAvoid
  <2>2. CASE i = n
    <3>1. j \in DOMAIN vals /\ new[i].vals[j] = vals[j] /\ new[i].prefix = stack[n].prefix
      BY <1>1, <1>2, <1>3, <1>7, <2>2
    <3> QED BY <1>1, <3>1 DEF ReadsAvoid
  <2> QED BY <2>1, <2>2
<1>8. ReadsAvoid(new, t, held)
  BY <1>7 DEF ReadsAvoid
<1> QED BY <1>4, <1>6, <1>8

(* Without operands nothing waits.                                         *)
LEMMA NothingSettles ==
  ASSUME NEW stack, NEW t, NEW held, \A i \in DOMAIN stack : stack[i].vals = << >>
  PROVE  ReadsAvoid(stack, t, held)
<1>1. \A i \in DOMAIN stack : DOMAIN stack[i].vals = {}
  OBVIOUS
<1> QED BY <1>1 DEF ReadsAvoid

(* The table gets symbols, or other types: what is open stays open.        *)
LEMMA FramesPreserved ==
  ASSUME NEW t, NEW u, Preserves(t, u), NEW stack, NEW sig, BodiesOpen(stack, t, sig)
  PROVE  BodiesOpen(stack, u, sig)
<1>1. ASSUME NEW p, OpenBody(p, t, sig) PROVE OpenBody(p, u, sig)
  BY <1>1 DEF OpenBody, Preserves
<1>2. \A i \in DOMAIN stack : FrameOpen(stack[i], u, sig)
  BY <1>1 DEF BodiesOpen, FrameOpen
<1> QED BY <1>2 DEF BodiesOpen

(* Types alone change no look-up and no function's name.                   *)
LEMMA RetypedStays ==
  ASSUME NEW t, NEW u, Preserves(t, u), DOMAIN t = DOMAIN u, NEW stack, NEW held
  PROVE  /\ ReadsAvoid(stack, t, held) => ReadsAvoid(stack, u, held)
         /\ FunctionsNamed(t) => FunctionsNamed(u)
<1>1. ASSUME ReadsAvoid(stack, t, held), NEW i \in DOMAIN stack, NEW j \in DOMAIN stack[i].vals
      PROVE  Avoids(stack[i].vals[j], stack[i].prefix, u, held)
  <2> DEFINE v == stack[i].vals[j]
             p == stack[i].prefix
  <2>1. Avoids(v, p, t, held)
    BY <1>1 DEF ReadsAvoid
  <2>2. Lookup(t, p, v.use) = Lookup(u, p, v.use)
    BY LookupByKeys
  <2> QED BY <2>1, <2>2 DEF Avoids
<1>2. FunctionsNamed(t) => FunctionsNamed(u)
  BY DEF FunctionsNamed, Preserves
<1> QED BY <1>1, <1>2 DEF ReadsAvoid

-----------------------------------------------------------------------------
(* The steps of the analyser.                                              *)

LEMMA ReturnTop ==
  ASSUME Inv, Base, NEW held, Clear(held)
  PROVE  /\ FrameOpen(Top, table, signature)
         /\ OpenBody(Top.prefix, table, signature) \/ Labelled(Top.prefix)
         /\ Top.kind \in BodyKinds \ {"function"} => Labelled(Top.prefix)
         /\ Separated(Top.prefix)
         /\ \A j \in DOMAIN Top.vals : Avoids(Top.vals[j], Top.prefix, table, held)
<1>1. Top = frames[Len(frames)] /\ Len(frames) \in DOMAIN frames
  BY InvFacts, StackFacts DEF Top
<1> QED BY <1>1 DEF Base, Clear, BodiesOpen, ReadsAvoid, FrameOpen

(* A step that leaves the table and the signatures alone.                  *)
LEMMA TableUnchanged ==
  ASSUME Base, NEW held, Clear(held), UNCHANGED << table, signature >>,
         BodiesOpen(frames', table, signature), ReadsAvoid(frames', table, held)
  PROVE  Kept(held)
BY DEF Base, Clear, Kept

LEMMA NothingMoves ==
  ASSUME Base, NEW held, Clear(held), UNCHANGED << table, frames, signature >>
  PROVE  Kept(held)
BY TableUnchanged DEF Base, Clear

(* An operand is read.                                                     *)
LEMMA ReadStep ==
  ASSUME Inv, Base, NEW held, Clear(held), NEW v \in Value, PushValue(v),
         Avoids(v, Top.prefix, table, held), UNCHANGED << table, signature >>
  PROVE  Kept(held)
<1> DEFINE vals == Append(Top.vals, v)
<1>1. vals \in Seq(Value) /\ DOMAIN vals = 1..(Len(Top.vals) + 1)
      /\ vals[Len(Top.vals) + 1] = v
      /\ \A j \in 1..Len(Top.vals) : vals[j] = Top.vals[j]
      /\ DOMAIN Top.vals = 1..Len(Top.vals) /\ Len(Top.vals) \in Nat
  BY TopFacts, AppendFacts
<1>2. frames' = [frames EXCEPT ![Len(frames)].vals = vals]
  BY TopFacts DEF PushValue
<1> HIDE DEF vals
<1>3. \A j \in DOMAIN vals : \/ j \in DOMAIN Top.vals /\ vals[j] = Top.vals[j]
                             \/ Avoids(vals[j], Top.prefix, table, held)
  BY <1>1
<1>4. BodiesOpen(frames', table, signature) /\ ReadsAvoid(frames', table, held)
  BY <1>1, <1>2, <1>3, InvFacts, FramesAfterValue DEF Base, Clear, Top
<1> QED BY <1>4, TableUnchanged

(* An expression is entered under the prefix of the body it is in.         *)
LEMMA EnterStep ==
  ASSUME Inv, Base, NEW held, Clear(held), NEW kind \in ExprKinds, NEW name \in Name \cup {NoName},
         NEW type \in Type \cup {NoType}, kind = "let" => name \in Name, nodes < MaxNodes,
         Push(ExprFrame(kind, name, type)), UNCHANGED << table, signature >>
  PROVE  Kept(held)
<1> DEFINE f == ExprFrame(kind, name, type)
<1>1. f \in Frame /\ f.kind = kind /\ f.vals = << >>
  BY ExprFrameFacts
<1>2. f.prefix = Top.prefix
  BY DEF ExprFrame
<1>3. frames' = Append(frames, f)
  BY DEF Push
<1> HIDE DEF f
<1>4. kind \notin BodyKinds /\ kind # "function"
  BY KindsDisjoint DEF ExprKinds
<1>5. FrameOpen(f, table, signature)
  BY <1>1, <1>2, <1>4, ReturnTop DEF FrameOpen
<1>6. BodiesOpen(frames', table, signature) /\ ReadsAvoid(frames', table, held)
  BY <1>1, <1>3, <1>4, <1>5, InvFacts, FramesAfterPush DEF Base, Clear
<1> QED BY <1>6, TableUnchanged

(* A frame is left.                                                        *)
LEMMA LeaveStep ==
  ASSUME Inv, Base, NEW held, Clear(held), Pop, UNCHANGED << table, signature >>
  PROVE  Kept(held)
<1>1. BodiesOpen(frames', table, signature) /\ ReadsAvoid(frames', table, held)
  BY InvFacts, FramesAfterPop DEF Base, Clear, Pop, Below
<1> QED BY <1>1, TableUnchanged

(* A branch or a loop is entered in place of its condition.                *)
LEMMA BranchStep ==
  ASSUME Inv, Base, NEW held, Clear(held), Top.kind # "program",
         NEW kind \in BodyKinds \ {"program", "function"}, NEW prefix \in Seq(Atom), NEW id \in Nat,
         Labelled(prefix), Separated(prefix), frames' = Append(Below, BodyFrame(kind, prefix, id)),
         UNCHANGED << table, signature >>
  PROVE  Kept(held)
<1> DEFINE f == BodyFrame(kind, prefix, id)
<1>1. f \in Frame /\ f.kind = kind /\ f.vals = << >>
  BY BodyFrameFacts
<1>2. f.prefix = prefix /\ frames' = Append(Below, f)
  BY DEF BodyFrame
<1> HIDE DEF f
<1>3. FrameOpen(f, table, signature) /\ f.kind # "function"
  BY <1>1, <1>2 DEF FrameOpen
<1>4. WellStacked(frames, DOMAIN table) /\ Below = Front(frames) /\ Last(frames).kind # "program"
  BY InvFacts DEF Below, Top
<1>5. WellStacked(Below, DOMAIN table)
  BY <1>4, PopStacked
<1>6. BodiesOpen(Below, table, signature) /\ ReadsAvoid(Below, table, held)
  BY <1>4, FramesAfterPop DEF Base, Clear
<1>7. BodiesOpen(frames', table, signature) /\ ReadsAvoid(frames', table, held)
  BY <1>1, <1>2, <1>3, <1>5, <1>6, FramesAfterPush
<1> QED BY <1>7, TableUnchanged

(* A call delivers its value, which is the use of no variable.             *)
LEMMA DeliverSettled ==
  ASSUME Inv, Base, NEW held, Clear(held), Top.kind # "program", NEW type \in Type,
         Deliver([type |-> type, use |-> NoName]), UNCHANGED << table, signature >>
  PROVE  Kept(held)
<1> DEFINE v == [type |-> type, use |-> NoName]
           old == Last(Below).vals
           vals == Append(old, v)
<1>1. WellStacked(frames, DOMAIN table) /\ Below = Front(frames) /\ Last(frames).kind # "program"
  BY InvFacts DEF Below, Top
<1>2. WellStacked(Below, DOMAIN table)
  BY <1>1, PopStacked
<1>3. BodiesOpen(Below, table, signature) /\ ReadsAvoid(Below, table, held)
  BY <1>1, FramesAfterPop DEF Base, Clear
<1>4. CASE Last(Below).kind \notin ExprKinds
  <2>1. frames' = Below
    BY <1>4 DEF Deliver
  <2> QED BY <1>3, <2>1, TableUnchanged
<1>5. CASE Last(Below).kind \in ExprKinds
  <2>1. Last(Below) \in Frame /\ Last(Below) = Below[Len(Below)]
    BY <1>2, StackFacts
  <2>2. frames' = [Below EXCEPT ![Len(Below)].vals = vals]
    BY <1>5, <2>1 DEF Deliver
  <2>3. old \in Seq(Value) /\ v \in Value
    BY <2>1, FreshValue DEF Frame
  <2>4. \A p : Avoids(v, p, table, held)
    BY DEF Avoids
  <2>5. /\ vals \in Seq(Value) /\ DOMAIN vals = 1..(Len(old) + 1)
        /\ \A j \in 1..Len(old) : vals[j] = old[j]
        /\ vals[Len(old) + 1] = v
        /\ DOMAIN old = 1..Len(old) /\ Len(old) \in Nat
    <3> HIDE DEF v, old
    <3> QED BY <2>3, AppendFacts
  <2> HIDE DEF vals, v
  <2>6. \A j \in DOMAIN vals : \/ j \in DOMAIN old /\ vals[j] = old[j]
                               \/ Avoids(vals[j], Last(Below).prefix, table, held)
    BY <2>4, <2>5
  <2>7. BodiesOpen(frames', table, signature) /\ ReadsAvoid(frames', table, held)
    BY <1>2, <1>3, <2>2, <2>5, <2>6, FramesAfterValue
  <2> QED BY <2>7, TableUnchanged
<1> QED BY <1>4, <1>5

(* The prefix of a function ends in '_'.                                   *)
LEMMA BarFacts ==
  ASSUME NEW key \in Seq(Atom)
  PROVE  /\ << "_" >> \in Seq(Atom) /\ << "_" >> # << >>
         /\ key \o << "_" >> \in Seq(Atom) /\ key \o << "_" >> # << >>
         /\ Last(key \o << "_" >>) = "_" /\ Front(key \o << "_" >>) = key
<1> DEFINE bar == << "_" >>
<1>1. bar \in Seq(Atom)
  <2>1. "_" \in Atom
    BY WordAssumption DEF Word
  <2> QED BY <2>1, ShortSeq, Zenon
<1>2. Len(bar) = 1 /\ bar # << >> /\ bar[1] = "_"
  OBVIOUS
<1>3. Last(bar) = "_"
  BY <1>2 DEF Last
<1> HIDE DEF bar
<1>4. key \o bar \in Seq(Atom) /\ key \o bar # << >> /\ Last(key \o bar) = Last(bar)
  BY <1>1, <1>2, ConcatEnds
<1>5. Front(key \o bar) = key
  <2> DEFINE w == key \o bar
  <2>0. /\ Len(key \o bar) = Len(key) + Len(bar) /\ Len(key) \in Nat
        /\ \A i \in 1..(Len(key) + Len(bar)) :
             (key \o bar)[i] = IF i <= Len(key) THEN key[i] ELSE bar[i - Len(key)]
    BY <1>1, ConcatProperties
  <2> HIDE DEF w
  <2>1. /\ Len(w) = Len(key) + 1 /\ Len(key) \in Nat
        /\ \A i \in 1..(Len(key) + 1) : w[i] = IF i <= Len(key) THEN key[i] ELSE bar[i - Len(key)]
    BY <1>2, <2>0 DEF w
  <2>2. \A i \in 1..Len(key) : i \in 1..(Len(key) + 1) /\ i <= Len(key)
    BY <2>1
  <2>3. Len(w) - 1 = Len(key) /\ \A i \in 1..Len(key) : w[i] = key[i]
    BY <2>1, <2>2
  <2>4. /\ Front(w) \in Seq(Atom) /\ Len(Front(w)) = Len(key)
        /\ \A i \in 1..Len(key) : Front(w)[i] = key[i]
    BY <1>4, <2>3, FrontFacts DEF w
  <2>5. Front(w) = key
    BY <2>4, SeqEqual
  <2> QED BY <2>5 DEF w
<1> QED BY <1>1, <1>2, <1>3, <1>4, <1>5, Zenon DEF bar

(* The prefix of a branch or a loop ends in ':' or in a position.          *)
LEMMA LabelsArePlaced ==
  ASSUME NEW prefix \in Seq(Atom)
  PROVE  /\ Labelled(ElsePrefix(prefix)) /\ Separated(ElsePrefix(prefix))
         /\ Labelled(ForPrefix(prefix)) /\ Separated(ForPrefix(prefix))
         /\ \A n \in 1..MaxNodes :
              /\ Labelled(IfPrefix(prefix, n)) /\ Separated(IfPrefix(prefix, n))
              /\ Labelled(WhilePrefix(prefix, n)) /\ Separated(WhilePrefix(prefix, n))
<1>1. ASSUME NEW a \in Atom, NEW b \in Placed, b \in Atom
      PROVE  Labelled(prefix \o << a, b, "_" >>) /\ Separated(prefix \o << a, b, "_" >>)
  <2> DEFINE t == << a, b, "_" >>
  <2>1. t \in Seq(Atom) /\ Len(t) >= 2 /\ t # << >> /\ t[Len(t) - 1] = b /\ Last(t) = "_"
    <3>1. "_" \in Atom
      BY WordAssumption DEF Word
    <3>2. t \in Seq(Atom)
      BY <1>1, <3>1, ShortSeq, Zenon
    <3>3. Len(t) = 3 /\ t # << >> /\ t[2] = b /\ 3 - 1 = 2 /\ 3 >= 2 /\ t[3] = "_"
      OBVIOUS
    <3> QED BY <3>2, <3>3, Zenon DEF Last
  <2> HIDE DEF t
  <2>2. Len(prefix \o t) >= 2 /\ (prefix \o t)[Len(prefix \o t) - 1] = b
      /\ Last(prefix \o t) = "_"
    BY <2>1, ConcatEnds, Zenon
  <2> QED BY <2>2 DEF Labelled, Separated, t
<1>2. Labelled(ElsePrefix(prefix)) /\ Separated(ElsePrefix(prefix))
  <2> DEFINE t == << "else", ":" >>
  <2>1. t \in Seq(Atom) /\ t # << >> /\ Last(t) = ":"
    <3>1. "else" \in Atom /\ ":" \in Atom
      BY WordAssumption DEF Word
    <3>2. t \in Seq(Atom)
      BY <3>1, ShortSeq, Zenon
    <3>3. Len(t) = 2 /\ t # << >> /\ t[2] = ":"
      OBVIOUS
    <3> QED BY <3>2, <3>3 DEF Last
  <2> HIDE DEF t
  <2>2. Last(prefix \o t) = ":"
    BY <2>1, ConcatEnds
  <2> QED BY <2>2 DEF Labelled, Separated, ElsePrefix, t
<1>3. {"if", "while", "for"} \subseteq Atom
  BY WordAssumption DEF Word
<1>4. ForPosition \in Placed /\ ForPosition \in Atom
      /\ \A n \in 1..MaxNodes : Position[n] \in Placed /\ Position[n] \in Atom
  BY PositionAssumption DEF Placed
<1>5. Labelled(ForPrefix(prefix)) /\ Separated(ForPrefix(prefix))
  <2>1. "for" \in Atom
    BY <1>3
  <2> QED BY <1>1, <1>4, <2>1, Zenon DEF ForPrefix
<1>6. ASSUME NEW n \in 1..MaxNodes
      PROVE  /\ Labelled(IfPrefix(prefix, n)) /\ Separated(IfPrefix(prefix, n))
             /\ Labelled(WhilePrefix(prefix, n)) /\ Separated(WhilePrefix(prefix, n))
  <2>1. "if" \in Atom /\ "while" \in Atom
    BY <1>3
  <2>2. Position[n] \in Placed /\ Position[n] \in Atom
    BY <1>4
  <2> QED BY <1>1, <2>1, <2>2, Zenon DEF IfPrefix, WhilePrefix
<1> QED BY <1>2, <1>5, <1>6

(* A function's key ends as its name does, not in a position.              *)
LEMMA KeyIsNamed ==
  ASSUME NEW prefix \in Seq(Atom), NEW name \in Name
  PROVE  /\ prefix \o name # << >> /\ Last(prefix \o name) \notin Placed
         /\ name # << >> /\ Last(name) \notin Placed
<1>1. name \in Seq(Atom) /\ name # << >>
  BY NameAssumption
<1>2. Last(name) \in ToSet(name)
  <2>1. Len(name) \in DOMAIN name /\ Last(name) = name[Len(name)]
    <3>1. /\ Len(name) \in Nat /\ Len(name) >= 1 /\ DOMAIN name = 1..Len(name)
          /\ Last(name) = name[Len(name)]
      BY <1>1, FrontFacts
    <3> QED BY <3>1
  <2> QED BY <2>1 DEF ToSet
<1>3. Last(name) \notin Placed
  BY <1>2, IdentifierAssumption
<1> QED BY <1>1, <1>3, ConcatEnds

(* A step that enters symbols while nothing waits.                         *)
LEMMA GrownStep ==
  ASSUME Base, NEW held, Clear(held), FunctionsNamed(table'), signature' = signature,
         \A k \in DOMAIN table : table'[k] = table[k],
         BodiesOpen(frames', table', signature),
         \A i \in DOMAIN frames' : frames'[i].vals = << >>
  PROVE  Kept(held)
<1>1. ReadsAvoid(frames', table', held)
  BY NothingSettles
<1> QED BY <1>1 DEF Kept, Base

(* A symbol is entered, or one of that key is there.                       *)
LEMMA InsertNamed ==
  ASSUME NEW t, FunctionsNamed(t), NEW key, NEW symbol, key # << >>, Last(key) \notin Placed,
         NEW u, u = Insert(t, key, symbol)
  PROVE  FunctionsNamed(u)
<1>1. /\ DOMAIN u = DOMAIN t \cup {key}
      /\ \A k \in DOMAIN u : u[k] = IF k \in DOMAIN t THEN t[k] ELSE symbol
  BY DEF Insert, Merge
<1> SUFFICES ASSUME NEW k \in DOMAIN u, u[k].isFunction
             PROVE  k # << >> /\ Last(k) \notin Placed
  BY DEF FunctionsNamed
<1>2. CASE k \in DOMAIN t
  BY <1>1, <1>2 DEF FunctionsNamed
<1>3. CASE k \notin DOMAIN t
  BY <1>1, <1>3
<1> QED BY <1>2, <1>3

(* Where the frame on top is left outside of an argument list, no operand  *)
(* waits.                                                                  *)
LEMMA NothingWaits ==
  ASSUME Inv, Top.kind # "call", Top.kind # "program", Pop
  PROVE  \A i \in DOMAIN frames' : frames'[i].vals = << >> /\ frames'[i].kind \in BodyKinds
                                     /\ i \in DOMAIN frames /\ frames'[i] = frames[i] /\ i # Len(frames)
<1>1. WellStacked(frames, DOMAIN table) /\ frames' = Front(frames) /\ Last(frames).kind # "call"
  BY InvFacts DEF Pop, Below, Top
<1>2. /\ DOMAIN frames' = 1..(Len(frames) - 1) /\ Len(frames) \in Nat
      /\ DOMAIN frames = 1..Len(frames)
      /\ \A i \in 1..(Len(frames) - 1) : frames'[i] = frames[i]
  BY <1>1, StackFacts
<1>3. \A i \in 1..(Len(frames) - 1) : frames[i].kind \in BodyKinds /\ frames[i].vals = << >>
  BY <1>1, OnlyCallsInside
<1> QED BY <1>2, <1>3

-----------------------------------------------------------------------------
(* The actions that change a type or enter a symbol.                       *)

(* The inference of a binary operator changes the key its left operand was *)
(* read from, which is not held.                                           *)
LEMMA BinarySettles ==
  ASSUME Inv, Base, NEW held, Clear(held), StepOK, NEW isComparison \in BOOLEAN, BinaryOp(isComparison)
  PROVE  Kept(held)
<1> USE DEF ghosts
<1> DEFINE n == Len(Top.vals)
           left == Top.vals[n - 1]
           right == Top.vals[n]
           inferred == Infers(left.type, right.type)
           leftType == IF inferred THEN right.type ELSE left.type
           key == IF left.use = NoName THEN NoKey ELSE Lookup(table, Top.prefix, left.use)
           arrays == left.type = "Array" /\ right.type = "Array"
           result == IF arrays THEN "Unknown" ELSE IF isComparison THEN "Bool" ELSE leftType
           value == [type |-> result, use |-> NoName]
           vals == Append(SubSeq(Top.vals, 1, n - 2), value)
<1>1. n \in Nat /\ n >= 2 /\ Top.vals \in Seq(Value) /\ DOMAIN Top.vals = 1..n
  BY TopFacts DEF BinaryOp
<1>2. left \in Value /\ right \in Value /\ Avoids(left, Top.prefix, table, held)
  <2>1. n - 1 \in 1..n /\ n \in 1..n
    BY <1>1
  <2> HIDE DEF n
  <2> QED BY <1>1, <2>1, ReturnTop, ElementOfSeq DEF n
<1>3. CASE Null \in {left.type, right.type}
  BY <1>3, NothingMoves DEF BinaryOp, Crash
<1>4. CASE Null \notin {left.type, right.type}
  <2>1. /\ frames' = [frames EXCEPT ![Len(frames)].vals = vals]
        /\ table' = IF inferred /\ key # NoKey
                    THEN [table EXCEPT ![key].type = right.type] ELSE table
        /\ signature' = signature
    BY <1>4, TopFacts DEF BinaryOp
  <2>2. value \in Value
    BY <1>2, <1>4 DEF Value, Type, Infers, Numeric
  <2>3. \A p : Avoids(value, p, table, held)
    BY DEF Avoids
  <2> HIDE DEF value
  <2>4. /\ vals \in Seq(Value) /\ DOMAIN vals = 1..(n - 1)
        /\ \A j \in 1..(n - 2) : vals[j] = Top.vals[j]
        /\ vals[n - 1] = value
    <3> HIDE DEF n
    <3> QED BY <1>1, <2>2, ReduceFacts DEF n
  <2>5. \A j \in DOMAIN vals : \/ j \in DOMAIN Top.vals /\ vals[j] = Top.vals[j]
                               \/ Avoids(vals[j], Top.prefix, table, held)
    BY <1>1, <2>3, <2>4
  <2>6. BodiesOpen(frames', table, signature) /\ ReadsAvoid(frames', table, held)
    <3> HIDE DEF vals
    <3> QED BY <2>1, <2>4, <2>5, InvFacts, FramesAfterValue DEF Base, Clear, Top
  <2> HIDE DEF vals, n, left, right, inferred, key
  <2>7. CASE ~(inferred /\ key # NoKey)
    BY <2>1, <2>6, <2>7, TableUnchanged
  <2>8. CASE inferred /\ key # NoKey
    <3>1. table' = [table EXCEPT ![key].type = right.type]
      BY <2>1, <2>8
    <3>2. Preserves(table, table') /\ DOMAIN table' = DOMAIN table
      BY <3>1 DEF StepOK
    <3>3. BodiesOpen(frames', table', signature') /\ ReadsAvoid(frames', table', held)
          /\ FunctionsNamed(table')
      BY <2>1, <2>6, <3>2, FramesPreserved, RetypedStays DEF Base, Clear
    <3>4. key \notin held
      BY <1>2, <2>8 DEF Avoids, key, inferred, Infers
    <3>5. \A k \in held \cap DOMAIN table : table'[k] = table[k]
      BY <3>1, <3>4
    <3> QED BY <2>1, <3>3, <3>5 DEF Kept, Base
  <2> QED BY <2>7, <2>8
<1> QED BY <1>3, <1>4

(* A return changes one of its targets.                                    *)
LEMMA ReturnSettles ==
  ASSUME Inv, Base, NEW held, Clear(held), StepOK, FinishReturn
  PROVE  Kept(held)
<1> USE DEF ghosts
<1> DEFINE type == Top.vals[1].type
           targets == ReturnTargets(table, Top.prefix)
<1>1. CASE type = Null
  BY <1>1, NothingMoves DEF FinishReturn, Crash
<1>2. CASE type # Null
  <2>1. Pop /\ signature' = signature
        /\ (table' = table \/ \E k \in targets : table' = [table EXCEPT ![k].type = type])
    BY <1>2 DEF FinishReturn
  <2>2. CASE table' = table
    BY <2>1, <2>2, LeaveStep
  <2>3. ASSUME NEW k \in targets, table' = [table EXCEPT ![k].type = type]
        PROVE  Kept(held)
    <3>1. Preserves(table, table') /\ DOMAIN table' = DOMAIN table
      BY <2>3 DEF StepOK
    <3>2. BodiesOpen(frames', table, signature) /\ ReadsAvoid(frames', table, held)
      BY <2>1, InvFacts, FramesAfterPop DEF Base, Clear, Pop, Below
    <3>3. BodiesOpen(frames', table', signature') /\ ReadsAvoid(frames', table', held)
          /\ FunctionsNamed(table')
      BY <2>1, <3>1, <3>2, FramesPreserved, RetypedStays DEF Base, Clear
    <3>4. \A f \in held \cap DOMAIN table : table'[f] = table[f] \/ f \in targets
      BY <2>3
    <3> QED BY <2>1, <3>3, <3>4 DEF Kept, Base
  <2> QED BY <2>1, <2>2, <2>3
<1> QED BY <1>1, <1>2

(* A declaration enters a variable.                                        *)
LEMMA LetSettles ==
  ASSUME Inv, Base, NEW held, Clear(held), StepOK, FinishLet
  PROVE  Kept(held)
<1> USE DEF ghosts
<1>1. Top.kind = "let" /\ Pop /\ signature' = signature
  BY DEF FinishLet
<1>2. CASE table' = table
  BY <1>1, <1>2, LeaveStep
<1>3. CASE table' # table
  <2> DEFINE key == Top.prefix \o Top.name
  <2>1. PICK type : table' = Insert(table, key, Variable(type, Top.id))
    BY <1>3 DEF FinishLet
  <2>2. key # << >> /\ Last(key) \notin Placed
    <3>1. Top.name \in Name
      BY <1>1, TopFacts DEF FrameOK
    <3> QED BY <3>1, TopFacts, KeyIsNamed
  <2> HIDE DEF key
  <2>3. FunctionsNamed(table') /\ \A k \in DOMAIN table : table'[k] = table[k]
    <3>1. FunctionsNamed(table)
      BY DEF Base, Clear
    <3>2. FunctionsNamed(table')
      BY <2>1, <2>2, <3>1, InsertNamed, Zenon
    <3>3. \A k \in DOMAIN table : table'[k] = table[k]
      BY <2>1 DEF Insert, Merge
    <3> QED BY <3>2, <3>3
  <2>4. BodiesOpen(frames', table, signature)
    BY <1>1, InvFacts, FramesAfterPop DEF Base, Clear, Pop, Below
  <2>5. BodiesOpen(frames', table', signature)
    BY <2>4, FramesPreserved DEF StepOK
  <2>6. \A i \in DOMAIN frames' : frames'[i].vals = << >>
    BY <1>1, NothingWaits
  <2> QED BY <1>1, <2>3, <2>5, <2>6, GrownStep DEF StepOK
<1> QED BY <1>2, <1>3

(* So does a for.                                                          *)
LEMMA ForSettles ==
  ASSUME Inv, Base, NEW held, Clear(held), StepOK, NEW name \in Name, For(name)
  PROVE  Kept(held)
<1> USE DEF ghosts
<1> DEFINE prefix == ForPrefix(Top.prefix)
           symbol == Variable("Int", nodes + 1)
           f == BodyFrame("for", prefix, nodes + 1)
           key == prefix \o name
<1>1. /\ Top.kind \in BodyKinds /\ table' = Insert(table, key, symbol)
      /\ frames' = Append(frames, f) /\ signature' = signature
  BY DEF For, AtStatement, Push
<1>2. prefix \in Seq(Atom) /\ Labelled(prefix) /\ Separated(prefix)
  BY TopFacts, PrefixIsKey, LabelsArePlaced
<1>3. key # << >> /\ Last(key) \notin Placed
  <2> HIDE DEF prefix
  <2> QED BY <1>2, KeyIsNamed
<1>4. f \in Frame /\ f.kind = "for" /\ f.vals = << >> /\ f.prefix = prefix
  <2>1. "for" \in BodyKinds
    BY DEF BodyKinds, LoopKinds
  <2>2. f.prefix = prefix
    BY DEF BodyFrame
  <2> HIDE DEF prefix
  <2> QED BY <1>2, <2>1, <2>2, InvFacts, BodyFrameFacts
<1> HIDE DEF prefix, symbol, f, key
<1>5. FunctionsNamed(table') /\ \A k \in DOMAIN table : table'[k] = table[k]
  <2>1. FunctionsNamed(table)
    BY DEF Base, Clear
  <2>2. FunctionsNamed(table')
    BY <1>1, <1>3, <2>1, InsertNamed, Zenon
  <2>3. \A k \in DOMAIN table : table'[k] = table[k]
    BY <1>1 DEF Insert, Merge
  <2> QED BY <2>2, <2>3
<1>6. FrameOpen(f, table, signature) /\ f.kind # "function"
  BY <1>2, <1>4 DEF FrameOpen
<1>7. BodiesOpen(frames', table, signature) /\ ReadsAvoid(frames', table, held)
  BY <1>1, <1>4, <1>6, InvFacts, FramesAfterPush DEF Base, Clear
<1>8. BodiesOpen(frames', table', signature)
  BY <1>7, FramesPreserved DEF StepOK
<1>9. \A i \in DOMAIN frames' : frames'[i].vals = << >>
  <2>1. frames \in Seq(Frame) /\ DOMAIN frames = 1..Len(frames) /\ Len(frames) \in Nat
    BY InvFacts, StackFacts
  <2>2. /\ DOMAIN frames' = 1..(Len(frames) + 1)
        /\ \A i \in 1..Len(frames) : frames'[i] = frames[i]
        /\ frames'[Len(frames) + 1] = f
    BY <1>1, <1>4, <2>1, AppendFacts
  <2>3. \A i \in DOMAIN frames : frames[i].vals = << >>
    BY <1>1, BodyOnTop
  <2> QED BY <1>4, <2>1, <2>2, <2>3
<1> QED BY <1>1, <1>5, <1>8, <1>9, GrownStep DEF StepOK

(* An extern function is entered under its bare name.                      *)
LEMMA ExternSettles ==
  ASSUME Inv, Base, NEW held, Clear(held), StepOK, NEW name \in Name, NEW params, NEW type, Extern(name, params, type)
  PROVE  Kept(held)
<1> USE DEF ghosts
<1> DEFINE symbol == Function(type, << >>, 0, params)
<1>1. /\ Top.kind \in BodyKinds /\ table' = Insert(table, name, symbol)
      /\ UNCHANGED << frames, signature >>
  BY DEF Extern, AtStatement
<1>2. name # << >> /\ Last(name) \notin Placed
  <2>1. << >> \in Seq(Atom)
    OBVIOUS
  <2> QED BY <2>1, KeyIsNamed
<1> HIDE DEF symbol
<1>3. FunctionsNamed(table') /\ \A k \in DOMAIN table : table'[k] = table[k]
  <2>1. FunctionsNamed(table)
    BY DEF Base, Clear
  <2>2. FunctionsNamed(table')
    BY <1>1, <1>2, <2>1, InsertNamed, Zenon
  <2>3. \A k \in DOMAIN table : table'[k] = table[k]
    BY <1>1 DEF Insert, Merge
  <2> QED BY <2>2, <2>3
<1>4. BodiesOpen(frames', table', signature)
  BY <1>1, FramesPreserved DEF StepOK, Base
<1>5. \A i \in DOMAIN frames' : frames'[i].vals = << >>
  BY <1>1, BodyOnTop
<1> QED BY <1>1, <1>3, <1>4, <1>5, GrownStep DEF StepOK

(* A function is no parameter of its own: their keys are longer.           *)
LEMMA KeyNotParam ==
  ASSUME NEW prefix \in Seq(Atom), NEW name \in Name, NEW params \in ParamList, NEW scope
  PROVE  /\ prefix \o name \notin DOMAIN ParamSymbols(FunctionPrefix(prefix, name), params, scope)
         /\ \A k \in DOMAIN ParamSymbols(FunctionPrefix(prefix, name), params, scope) :
              k # << >> /\ Last(k) \notin Placed
<1> DEFINE key == prefix \o name
           whole == FunctionPrefix(prefix, name)
           new == ParamSymbols(whole, params, scope)
<1>1. /\ key \in Seq(Atom) /\ whole \in Seq(Atom) /\ whole # << >> /\ Front(whole) = key
  BY FunctionPrefixFacts
<1>4. DOMAIN new = {whole \o params[i].name : i \in DOMAIN params}
  BY DEF ParamSymbols
<1> HIDE DEF key, whole, new
<1>2. Len(key) \in Nat /\ Len(whole) \in Nat /\ Len(key) = Len(whole) - 1
  <2>1. Len(whole) \in Nat /\ Len(Front(whole)) = Len(whole) - 1
    BY <1>1, FrontFacts
  <2> QED BY <1>1, <2>1
<1>3. \A i \in DOMAIN params : params[i].name \in Name
  <2>1. params \in Seq(Param)
    BY ParamAssumption
  <2>2. \A i \in DOMAIN params : params[i] \in Param
    BY <2>1
  <2> QED BY <2>2 DEF Param
<1>5. ASSUME NEW k \in DOMAIN new
      PROVE  k # key /\ k # << >> /\ Last(k) \notin Placed
  <2>1. PICK pname \in Name : k = whole \o pname
    BY <1>3, <1>4
  <2>2. pname \in Seq(Atom) /\ Len(pname) \in Nat
    BY NameAssumption
  <2>3. Len(k) = Len(whole) + Len(pname)
    BY <1>1, <2>1, <2>2, ConcatProperties
  <2>4. Len(k) # Len(key)
    BY <1>2, <2>2, <2>3
  <2>5. k # << >> /\ Last(k) \notin Placed
    BY <1>1, <2>1, KeyIsNamed
  <2> QED BY <2>4, <2>5
<1> QED BY <1>5 DEF key, whole, new

(* Entering several symbols.                                               *)
LEMMA MergeNamed ==
  ASSUME NEW t, FunctionsNamed(t), NEW new,
         \A k \in DOMAIN new : k # << >> /\ Last(k) \notin Placed,
         NEW u, u = Merge(t, new)
  PROVE  FunctionsNamed(u)
<1>1. /\ DOMAIN u = DOMAIN t \cup DOMAIN new
      /\ \A k \in DOMAIN u : u[k] = IF k \in DOMAIN t THEN t[k] ELSE new[k]
  BY DEF Merge
<1> SUFFICES ASSUME NEW k \in DOMAIN u, u[k].isFunction
             PROVE  k # << >> /\ Last(k) \notin Placed
  BY DEF FunctionsNamed
<1>2. CASE k \in DOMAIN t
  BY <1>1, <1>2 DEF FunctionsNamed
<1>3. CASE k \notin DOMAIN t
  BY <1>1, <1>3
<1> QED BY <1>2, <1>3

(* The body of a new function is the only one under its prefix.            *)
LEMMA FunctionSettles ==
  ASSUME Inv, Base, NEW held, Clear(held), StepOK, NEW name \in Name, NEW params \in ParamList,
         FunctionDef(name, params)
  PROVE  Kept(held)
<1> USE DEF ghosts
<1> DEFINE key == Top.prefix \o name
           prefix == FunctionPrefix(Top.prefix, name)
           new == ParamSymbols(prefix, params, nodes + 1)
           with == Merge(table, new)
           symbol == Function("Unknown", ParamTypes(params), Top.id, params)
           f == BodyFrame("function", prefix, nodes + 1)
<1>1. /\ Top.kind \in BodyKinds /\ key \notin DOMAIN table
      /\ table' = Insert(with, key, symbol)
      /\ frames' = Append(frames, f) /\ signature' = signature
  BY DEF FunctionDef, AtStatement, Push
<1>2. key \in Seq(Atom) /\ prefix \in Seq(Atom) /\ prefix # << >> /\ Front(prefix) = key
  BY TopFacts, FunctionPrefixFacts
<1>3. key # << >> /\ Last(key) \notin Placed
  BY TopFacts, KeyIsNamed
<1>4. key \notin DOMAIN new /\ \A k \in DOMAIN new : k # << >> /\ Last(k) \notin Placed
  BY TopFacts, KeyNotParam
<1>5. symbol.isFunction = TRUE
  BY DEF Function
<1> HIDE DEF key, new, symbol
<1>6. /\ f.kind = "function" /\ f.prefix = prefix /\ f.vals = << >>
  BY DEF BodyFrame
<1>7. f \in Frame
  <2>1. "function" \in BodyKinds
    BY DEF BodyKinds
  <2> HIDE DEF prefix
  <2> QED BY <1>2, <2>1, InvFacts, BodyFrameFacts
<1> HIDE DEF prefix, f
<1>8. FunctionsNamed(with)
  <2>1. FunctionsNamed(table)
    BY DEF Base, Clear
  <2> QED BY <1>4, <2>1, MergeNamed, Zenon
<1>9. /\ DOMAIN with = DOMAIN table \cup DOMAIN new
      /\ \A k \in DOMAIN table : with[k] = table[k]
  BY DEF Merge
<1> HIDE DEF with
<1>10. FunctionsNamed(table')
  BY <1>1, <1>3, <1>8, InsertNamed, Zenon
<1>11. /\ \A k \in DOMAIN table : table'[k] = table[k]
       /\ key \in DOMAIN table' /\ table'[key] = symbol
  <2>1. /\ DOMAIN table' = DOMAIN with \cup {key}
        /\ \A k \in DOMAIN with : table'[k] = with[k]
        /\ key \notin DOMAIN with => table'[key] = symbol
    BY <1>1 DEF Insert, Merge
  <2> QED BY <1>1, <1>4, <1>9, <2>1
<1>12. DOMAIN signature \subseteq DOMAIN table
  BY DEF Inv, TypeOK
<1>13. OpenBody(prefix, table', signature)
  BY <1>1, <1>2, <1>5, <1>11, <1>12 DEF OpenBody
<1>14. FrameOpen(f, table', signature)
  <2>1. Last(prefix) = "_"
    <3>1. prefix = key \o << "_" >>
      BY DEF prefix, key, FunctionPrefix
    <3> QED BY <1>2, <3>1, BarFacts
  <2> QED BY <1>6, <1>13, <2>1 DEF FrameOpen, Separated
<1>15. /\ frames \in Seq(Frame) /\ DOMAIN frames = 1..Len(frames) /\ Len(frames) \in Nat
       /\ DOMAIN frames' = 1..(Len(frames) + 1)
       /\ \A i \in 1..Len(frames) : frames'[i] = frames[i]
       /\ frames'[Len(frames) + 1] = f
  BY <1>1, <1>7, InvFacts, StackFacts, AppendFacts
<1>16. \A i \in DOMAIN frames' :
         \/ i \in DOMAIN frames /\ frames'[i] = frames[i]
         \/ i = Len(frames) + 1 /\ frames'[i] = f
  BY <1>15
<1>17. BodiesOpen(frames, table', signature)
  BY FramesPreserved DEF StepOK, Base
<1>18. \A i \in DOMAIN frames : frames[i].kind = "function" => Front(frames[i].prefix) # key
  BY <1>1 DEF Base, Clear, BodiesOpen, FrameOpen, OpenBody
<1>19. BodiesOpen(frames', table', signature)
  <2>1. \A i \in DOMAIN frames' : FrameOpen(frames'[i], table', signature)
    BY <1>14, <1>16, <1>17 DEF BodiesOpen
  <2>2. ASSUME NEW i \in DOMAIN frames', NEW j \in DOMAIN frames',
               frames'[i].kind = "function", frames'[j].kind = "function",
               Front(frames'[i].prefix) = Front(frames'[j].prefix)
        PROVE  i = j
    <3>1. CASE i \in DOMAIN frames /\ frames'[i] = frames[i]
      <4>1. CASE j \in DOMAIN frames /\ frames'[j] = frames[j]
        BY <2>2, <3>1, <4>1, <1>17 DEF BodiesOpen
      <4>2. CASE j = Len(frames) + 1 /\ frames'[j] = f
        BY <1>2, <1>6, <1>18, <2>2, <3>1, <4>2
      <4> QED BY <1>16, <4>1, <4>2
    <3>2. CASE i = Len(frames) + 1 /\ frames'[i] = f
      <4>1. CASE j \in DOMAIN frames /\ frames'[j] = frames[j]
        BY <1>2, <1>6, <1>18, <2>2, <3>2, <4>1
      <4>2. CASE j = Len(frames) + 1 /\ frames'[j] = f
        BY <3>2, <4>2
      <4> QED BY <1>16, <4>1, <4>2
    <3> QED BY <1>16, <3>1, <3>2
  <2> QED BY <2>1, <2>2 DEF BodiesOpen
<1>20. \A i \in DOMAIN frames' : frames'[i].vals = << >>
  BY <1>1, <1>6, <1>16, BodyOnTop
<1> QED BY <1>1, <1>10, <1>11, <1>19, <1>20, GrownStep DEF StepOK

(* A body ends, and no other one is of its function.                       *)
LEMMA EndSettles ==
  ASSUME Inv, Base, NEW held, Clear(held), EndFunction
  PROVE  Kept(held)
<1> USE DEF ghosts
<1> DEFINE key == Front(Top.prefix)
           new == [k \in {key} |-> table[key].type]
<1>1. Top.kind = "function" /\ Pop /\ table' = table /\ signature' = Merge(new, signature)
  BY DEF EndFunction
<1>2. /\ DOMAIN signature' = {key} \cup DOMAIN signature
      /\ signature'[key] = table[key].type
      /\ \A k \in DOMAIN signature : k # key => signature'[k] = signature[k]
  BY <1>1 DEF Merge
<1> HIDE DEF key, new
<1>3. \A i \in DOMAIN frames' : frames'[i].vals = << >> /\ frames'[i].kind \in BodyKinds
                               /\ i \in DOMAIN frames /\ frames'[i] = frames[i] /\ i # Len(frames)
  BY <1>1, NothingWaits
<1>4. Top = frames[Len(frames)] /\ Len(frames) \in DOMAIN frames
  BY InvFacts, StackFacts DEF Top
<1>5. ASSUME NEW i \in DOMAIN frames' PROVE FrameOpen(frames'[i], table, signature')
  <2>1. frames'[i] = frames[i] /\ i \in DOMAIN frames /\ i # Len(frames)
        /\ frames'[i].kind \in BodyKinds
    BY <1>3
  <2>2. FrameOpen(frames[i], table, signature)
    BY <2>1 DEF Base, Clear, BodiesOpen
  <2>3. CASE frames[i].kind = "function"
    <3>1. OpenBody(frames[i].prefix, table, signature)
      BY <2>2, <2>3 DEF FrameOpen
    <3>2. Front(frames[i].prefix) # key
      BY <1>1, <1>4, <2>1, <2>3 DEF key, Base, BodiesOpen
    <3>3. OpenBody(frames[i].prefix, table, signature')
      BY <1>2, <3>1, <3>2 DEF OpenBody
    <3> QED BY <2>1, <2>2, <2>3, <3>3 DEF FrameOpen
  <2>4. CASE frames[i].kind # "function"
    BY <2>1, <2>2, <2>4 DEF FrameOpen
  <2> QED BY <2>3, <2>4
<1>6. BodiesOpen(frames', table, signature')
  BY <1>3, <1>5 DEF Base, Clear, BodiesOpen
<1>7. ReadsAvoid(frames', table, held)
  BY <1>3, NothingSettles
<1> QED BY <1>1, <1>6, <1>7 DEF Base, Kept

-----------------------------------------------------------------------------
(* Every step keeps the invariant.                                         *)

LEMMA OperandSettles ==
  ASSUME Inv, Base, NEW held, Clear(held), StepOK, OperandStep
  PROVE  Kept(held)
<1> USE DEF ghosts
<1>1. ASSUME NEW type \in Type \cup {Null}, PushValue([type |-> type, use |-> NoName]),
             UNCHANGED << table, signature >>
      PROVE  Kept(held)
  <2> DEFINE v == [type |-> type, use |-> NoName]
  <2>1. v \in Value /\ PushValue(v)
    BY <1>1, FreshValue
  <2>2. Avoids(v, Top.prefix, table, held)
    BY DEF Avoids
  <2> HIDE DEF v
  <2> QED BY <1>1, <2>1, <2>2, ReadStep
<1>2. ASSUME NEW type \in LiteralType, Literal(type) PROVE Kept(held)
  BY <1>1, <1>2, TypeAssumption DEF Literal
<1>3. CASE NullOperand
  BY <1>1, <1>3 DEF NullOperand
<1>4. ASSUME NEW mixed \in BOOLEAN, Collection(mixed) PROVE Kept(held)
  <2>1. "Array" \in Type
    BY DEF Type
  <2> QED BY <1>1, <1>4, <2>1 DEF Collection
<1>5. ASSUME NEW name \in Name, VariableUse(name) PROVE Kept(held)
  <2> DEFINE key == Lookup(table, Top.prefix, name)
  <2>1. UNCHANGED << table, signature >>
    BY <1>5 DEF VariableUse
  <2>2. PICK v \in Value : PushValue(v) /\ Avoids(v, Top.prefix, table, held)
    <3>1. CASE key = NoKey
      <4>1. [type |-> "Unknown", use |-> name] \in Value
        BY DEF Value, Type
      <4>2. PushValue([type |-> "Unknown", use |-> name])
        BY <1>5, <3>1 DEF VariableUse
      <4> QED BY <3>1, <4>1, <4>2 DEF Avoids
    <3>2. CASE key # NoKey
      <4>1. key \in DOMAIN table /\ table[key].type \in Type
        BY <3>2, InvFacts, TopFacts, LookupFinds DEF TableOK, Symbol
      <4>2. [type |-> table[key].type, use |-> name] \in Value
        BY <4>1 DEF Value
      <4>3. PushValue([type |-> table[key].type, use |-> name])
        BY <1>5, <3>2 DEF VariableUse
      <4>4. Avoids([type |-> table[key].type, use |-> name], Top.prefix, table, held)
        BY <4>1 DEF Avoids, Clear, Known
      <4> QED BY <4>2, <4>3, <4>4
    <3> QED BY <3>1, <3>2
  <2> QED BY <2>1, <2>2, ReadStep
<1>6. ASSUME NEW isComparison \in BOOLEAN, BinaryOp(isComparison) PROVE Kept(held)
  BY <1>6, BinarySettles
<1> QED BY <1>2, <1>3, <1>4, <1>5, <1>6 DEF OperandStep

LEMMA DeclarationSettles ==
  ASSUME Inv, Base, NEW held, Clear(held), StepOK, DeclarationStep
  PROVE  Kept(held)
<1> USE DEF ghosts
<1>1. ASSUME NEW name \in Name, LetClash(name) PROVE Kept(held)
  BY <1>1, NothingMoves DEF LetClash
<1>2. ASSUME NEW name \in Name, NEW type \in DeclaredType \cup {NoType}, Let(name, type)
      PROVE  Kept(held)
  <2>1. "let" \in ExprKinds /\ type \in Type \cup {NoType}
    BY TypeAssumption DEF ExprKinds
  <2> QED BY <1>2, <2>1, EnterStep DEF Let, AtStatement
<1>3. CASE FinishLet
  BY <1>3, LetSettles
<1>4. CASE Return
  <2>1. "return" \in ExprKinds
    BY DEF ExprKinds
  <2> QED BY <1>4, <2>1, EnterStep DEF Return, AtStatement
<1>5. CASE FinishReturn
  BY <1>5, ReturnSettles
<1>6. ASSUME NEW name \in Name, Call(name) PROVE Kept(held)
  <2>1. "call" \in ExprKinds
    BY DEF ExprKinds
  <2> QED BY <1>6, <2>1, EnterStep DEF Call, AtStatement, AtOperand
<1>7. CASE FinishCall
  <2> DEFINE key == Lookup(table, Top.prefix, Top.name)
             type == IF key = NoKey THEN "Unknown" ELSE table[key].type
  <2>1. Top.kind # "program"
    BY <1>7 DEF FinishCall
  <2>2. type \in Type
    <3>1. CASE key = NoKey
      BY <3>1 DEF Type
    <3>2. CASE key # NoKey
      BY <3>2, InvFacts, TopFacts, LookupFinds DEF TableOK, Symbol
    <3> QED BY <3>1, <3>2
  <2>3. CASE Crash
    BY <2>3, NothingMoves DEF Crash
  <2>4. CASE ~Crash
    <3>1. Deliver([type |-> type, use |-> NoName]) /\ UNCHANGED << table, signature >>
      BY <1>7, <2>4 DEF FinishCall
    <3> HIDE DEF type
    <3> QED BY <2>1, <2>2, <3>1, DeliverSettled
  <2> QED BY <2>3, <2>4
<1>8. ASSUME NEW name \in Name, FunctionClash(name) PROVE Kept(held)
  BY <1>8, NothingMoves DEF FunctionClash
<1>9. ASSUME NEW name \in Name, NEW params \in ParamList, FunctionDef(name, params) PROVE Kept(held)
  BY <1>9, FunctionSettles
<1>10. CASE EndFunction
  BY <1>10, EndSettles
<1>11. ASSUME NEW name \in Name, NEW params \in ParamList, NEW type \in DeclaredType,
              Extern(name, params, type)
       PROVE  Kept(held)
  BY <1>11, ExternSettles
<1> QED BY <1>1, <1>2, <1>3, <1>4, <1>5, <1>6, <1>7, <1>8, <1>9, <1>10, <1>11 DEF DeclarationStep

LEMMA ControlSettles ==
  ASSUME Inv, Base, NEW held, Clear(held), ControlStep
  PROVE  Kept(held)
<1> USE DEF ghosts
<1>1. CASE If
  <2>1. "ifCond" \in ExprKinds
    BY DEF ExprKinds
  <2> QED BY <1>1, <2>1, EnterStep DEF If, AtStatement
<1>2. CASE FinishIfCond
  <2>1. Top.kind = "ifCond" /\ UNCHANGED << table, signature >>
    BY <1>2 DEF FinishIfCond
  <2>2. CASE Pop
    BY <2>1, <2>2, LeaveStep
  <2>3. CASE ~Pop
    <3>1. Top.node \in 1..MaxNodes /\ Top.node \in Nat
      BY <2>1, TopFacts DEF FrameOK
    <3>2. /\ IfPrefix(Top.prefix, Top.node) \in Seq(Atom)
          /\ Labelled(IfPrefix(Top.prefix, Top.node)) /\ Separated(IfPrefix(Top.prefix, Top.node))
      BY <3>1, TopFacts, PrefixIsKey, LabelsArePlaced
    <3>3. "then" \in BodyKinds \ {"program", "function"}
      BY DEF BodyKinds
    <3> QED BY <1>2, <2>1, <2>3, <3>1, <3>2, <3>3, BranchStep DEF FinishIfCond
  <2> QED BY <2>2, <2>3
<1>3. CASE Else
  <2>1. /\ ElsePrefix(Top.prefix) \in Seq(Atom)
        /\ Labelled(ElsePrefix(Top.prefix)) /\ Separated(ElsePrefix(Top.prefix))
    BY TopFacts, PrefixIsKey, LabelsArePlaced
  <2>2. "else" \in BodyKinds \ {"program", "function"}
    BY DEF BodyKinds
  <2> QED BY <1>3, <2>1, <2>2, InvFacts, BranchStep DEF Else
<1>4. CASE EndIf
  BY <1>4, LeaveStep DEF EndIf
<1>5. CASE While
  <2>1. "whileCond" \in ExprKinds
    BY DEF ExprKinds
  <2> QED BY <1>5, <2>1, EnterStep DEF While, AtStatement
<1>6. CASE FinishWhileCond
  <2>1. CASE Crash
    BY <2>1, NothingMoves DEF Crash
  <2>2. CASE ~Crash
    <3>1. Top.kind = "whileCond" /\ UNCHANGED << table, signature >>
      BY <1>6, <2>2 DEF FinishWhileCond
    <3>2. Top.node \in 1..MaxNodes /\ Top.node \in Nat
      BY <3>1, TopFacts DEF FrameOK
    <3>3. /\ WhilePrefix(Top.prefix, Top.node) \in Seq(Atom)
          /\ Labelled(WhilePrefix(Top.prefix, Top.node)) /\ Separated(WhilePrefix(Top.prefix, Top.node))
      BY <3>2, TopFacts, PrefixIsKey, LabelsArePlaced
    <3>4. "while" \in BodyKinds \ {"program", "function"}
      BY DEF BodyKinds, LoopKinds
    <3> QED BY <1>6, <2>2, <3>1, <3>2, <3>3, <3>4, BranchStep DEF FinishWhileCond
  <2> QED BY <2>1, <2>2
<1>7. ASSUME NEW name \in Name, For(name) PROVE Kept(held)
  <2>1. StepOK
    BY <1>7, ControlKeeps DEF ControlStep
  <2> QED BY <1>7, <2>1, ForSettles
<1>8. CASE EndLoop
  BY <1>8, LeaveStep DEF EndLoop
<1>9. CASE Break
  BY <1>9, NothingMoves DEF Break
<1>10. ASSUME NEW name \in Name, CollectionOverride(name) PROVE Kept(held)
  BY <1>10, NothingMoves DEF CollectionOverride
<1>11. ASSUME NEW isEmpty \in BOOLEAN, Main(isEmpty) PROVE Kept(held)
  BY <1>11, NothingMoves DEF Main
<1>12. CASE Finish
  BY <1>12, NothingMoves DEF Finish
<1>13. CASE Halted
  BY <1>13, NothingMoves DEF Halted, vars
<1> QED BY <1>1, <1>2, <1>3, <1>4, <1>5, <1>6, <1>7, <1>8, <1>9, <1>10, <1>11, <1>12, <1>13
        DEF ControlStep

LEMMA StepSettles ==
  ASSUME Inv, Base, NEW held, Clear(held), [Next]_vars
  PROVE  Kept(held)
<1>1. StepOK
  BY NextKeeps
<1>2. CASE UNCHANGED vars
  BY <1>2, NothingMoves DEF vars, ghosts
<1>3. CASE Next
  BY <1>1, <1>3, OperandSettles, DeclarationSettles, ControlSettles DEF Next
<1> QED BY <1>2, <1>3

(* The program frame has the empty prefix.                                 *)
LEMMA BaseInit ==
  ASSUME Init
  PROVE  Base /\ \A held : ReadsAvoid(frames, table, held)
<1> DEFINE f == BodyFrame("program", << >>, 0)
<1>1. f.prefix = << >> /\ f.kind = "program" /\ f.vals = << >>
  BY DEF BodyFrame
<1>2. DOMAIN frames = {1} /\ frames[1] = f
  <2> HIDE DEF f
  <2> QED BY DEF Init, f
<1> HIDE DEF f
<1>3. FrameOpen(f, table, signature)
  BY <1>1 DEF FrameOpen, Labelled, Separated
<1>4. BodiesOpen(frames, table, signature)
  BY <1>1, <1>2, <1>3 DEF BodiesOpen
<1>5. \A held : ReadsAvoid(frames, table, held)
  BY <1>1, <1>2, NothingSettles
<1>6. DOMAIN table = {}
  BY DEF Init
<1> QED BY <1>4, <1>5, <1>6 DEF Base, FunctionsNamed

-----------------------------------------------------------------------------
(* The types of functions.                                                 *)

(* A function whose node has a type and that no return takes for another.  *)
Firm(t, sig) == {k \in DOMAIN sig : sig[k] # "Unknown" /\ ~Twin(t, k)}

Drifts(t, sig) ==
  \A f \in DOMAIN sig : t[f].type # sig[f] => sig[f] = "Unknown" \/ Twin(t, f)

ReturnInv ==
  Base /\ ReadsAvoid(frames, table, Firm(table, signature)) /\ Drifts(table, signature)

LEMMA TwinStays ==
  ASSUME NEW t, NEW u, Preserves(t, u), NEW f, Twin(t, f)
  PROVE  Twin(u, f)
BY DEF Twin, Preserves

LEMMA FewerHeld ==
  ASSUME NEW stack, NEW t, NEW held, ReadsAvoid(stack, t, held), NEW less, less \subseteq held
  PROVE  ReadsAvoid(stack, t, less)
BY DEF ReadsAvoid, Avoids

(* A signature is given to the function whose body ends, and that one has  *)
(* had none.                                                               *)
LEMMA SignatureGiven ==
  ASSUME Inv, EndFunction, Drifts(table, signature)
  PROVE  /\ Drifts(table', signature')
         /\ \A held : ReadsAvoid(frames', table', held)
<1> DEFINE key == Front(Top.prefix)
           new == [k \in {key} |-> table[key].type]
<1>1. Top.kind = "function" /\ Pop /\ table' = table /\ signature' = Merge(new, signature)
  BY DEF EndFunction
<1>2. /\ DOMAIN signature' = {key} \cup DOMAIN signature
      /\ signature'[key] = table[key].type
      /\ \A k \in DOMAIN signature : k # key => signature'[k] = signature[k]
  BY <1>1 DEF Merge
<1> HIDE DEF key, new
<1>3. Drifts(table', signature')
  BY <1>1, <1>2 DEF Drifts
<1>4. \A held : ReadsAvoid(frames', table', held)
  BY <1>1, NothingWaits, NothingSettles
<1> QED BY <1>3, <1>4

LEMMA SignatureStays ==
  ASSUME [Next]_vars, ~EndFunction
  PROVE  signature' = signature
BY DEF Next, vars, ghosts, Crash, Halted, OperandStep, DeclarationStep, ControlStep,
       Literal, NullOperand, Collection, VariableUse, BinaryOp, LetClash, Let, FinishLet, Return,
       FinishReturn, Call, FinishCall, FunctionClash, FunctionDef, Extern, If, FinishIfCond, Else,
       EndIf, While, FinishWhileCond, For, EndLoop, Break, CollectionOverride, Main, Finish

LEMMA ReturnInit ==
  ASSUME Init
  PROVE  ReturnInv
<1>1. DOMAIN signature = {}
  BY DEF Init
<1> QED BY <1>1, BaseInit DEF ReturnInv, Drifts

LEMMA ReturnKept ==
  ASSUME Inv, ReturnInv, [Next]_vars
  PROVE  ReturnInv'
<1> DEFINE firm == Firm(table, signature)
<1>1. Clear(firm)
  BY DEF ReturnInv, Clear, Known, Firm, Drifts
<1>2. Kept(firm)
  <2> HIDE DEF firm
  <2> QED BY <1>1, StepSettles DEF ReturnInv
<1>3. CASE EndFunction
  BY <1>2, <1>3, SignatureGiven DEF ReturnInv, Kept
<1>4. CASE ~EndFunction
  <2>1. signature' = signature /\ Preserves(table, table') /\ DOMAIN signature \subseteq DOMAIN table
    BY <1>4, SignatureStays, NextKeeps DEF StepOK, Inv, TypeOK
  <2>2. Firm(table', signature') \subseteq firm
    BY <2>1, TwinStays DEF Firm
  <2>3. ReadsAvoid(frames', table', Firm(table', signature'))
    BY <1>2, <2>2, FewerHeld DEF Kept
  <2>4. ASSUME NEW f \in DOMAIN signature, table'[f].type # signature[f]
        PROVE  signature[f] = "Unknown" \/ Twin(table', f)
    <3>1. CASE f \in firm
      <4>1. table[f].type = signature[f] /\ f \in ReturnTargets(table, Top.prefix)
        BY <1>2, <2>1, <2>4, <3>1 DEF Kept, ReturnInv, Drifts, Firm
      <4>2. Twin(table, f)
        BY <1>1, <4>1, InvFacts, TopFacts, ReturnTop, TargetIsOpen DEF ReturnInv, Base
      <4> QED BY <2>1, <4>2, TwinStays
    <3>2. CASE f \notin firm
      BY <2>1, <3>2, TwinStays DEF Firm
    <3> QED BY <3>1, <3>2
  <2> QED BY <1>2, <2>1, <2>3, <2>4 DEF ReturnInv, Kept, Drifts
<1> QED BY <1>3, <1>4

(* The invariant that the theorem below takes apart.                       *)
THEOREM ReturnInvariance == Spec => []ReturnInv
<1>1. Init => ReturnInv
  BY ReturnInit
<1>2. Inv /\ ReturnInv /\ [Next]_vars => ReturnInv'
  BY ReturnKept
<1> QED BY <1>1, <1>2, Invariance, PTL DEF Spec

(* The type a function node was given (the C prototype gets it) and the    *)
(* type later calls are checked against differ only when the node got      *)
(* none, or when another function has its last segment: then a return of   *)
(* that one may settle this one (:371-:390).                               *)
THEOREM SignaturesDrift == Spec => []SignatureDrift
<1>1. ReturnInv => SignatureDrift
  BY DEF ReturnInv, Drifts, Twin, SignatureDrift
<1> QED BY <1>1, ReturnInvariance, PTL
-----------------------------------------------------------------------------
(* The parameters of functions, for names that no separator is in: a key   *)
(* has then one last separator.                                            *)

PlainNames == \A name \in Name : "_" \notin ToSet(name)

(* Where a prefix ends and a name begins.                                  *)
LEMMA NameIsPlain ==
  ASSUME PlainNames, NEW name \in Name
  PROVE  /\ name \in Seq(Atom) /\ Len(name) \in Nat /\ Len(name) >= 1
         /\ \A i \in 1..Len(name) : name[i] \notin {"_", ":"}
<1>1. name \in Seq(Atom) /\ name # << >>
  BY NameAssumption
<1>2. ToSet(name) \cap {"_", ":"} = {}
  BY IdentifierAssumption DEF PlainNames
<1>3. DOMAIN name = 1..Len(name) /\ Len(name) \in Nat /\ Len(name) >= 1
  BY <1>1, EmptySeq
<1>4. \A i \in 1..Len(name) : name[i] \in ToSet(name)
  BY <1>3 DEF ToSet
<1> QED BY <1>1, <1>2, <1>3, <1>4

(* A key is a prefix and a rest that no separator is in.                   *)
Parts(key, prefix) ==
  /\ Len(key) \in Nat /\ Len(key) > Len(prefix)
  /\ \A j \in 1..Len(prefix) : key[j] = prefix[j]
  /\ \A j \in 1..Len(key) : j > Len(prefix) => key[j] \notin {"_", ":"}

LEMMA NameParts ==
  ASSUME PlainNames, NEW prefix \in Seq(Atom), NEW name \in Name
  PROVE  Parts(prefix \o name, prefix)
<1> DEFINE w == prefix \o name
           n == Len(prefix)
           m == Len(name)
<1>0. m \in Nat /\ m >= 1 /\ n \in Nat
  <2>1. Len(name) \in Nat /\ Len(name) >= 1
    BY NameIsPlain
  <2>2. Len(prefix) \in Nat
    OBVIOUS
  <2> QED BY <2>1, <2>2
<1>1. name \in Seq(Atom) /\ \A i \in 1..m : name[i] \notin {"_", ":"}
  BY NameIsPlain
<1>2. /\ Len(w) = n + m
      /\ \A i \in 1..(n + m) : w[i] = IF i <= n THEN prefix[i] ELSE name[i - n]
  <2>1. /\ Len(prefix \o name) = Len(prefix) + Len(name)
        /\ \A i \in 1..(Len(prefix) + Len(name)) :
             (prefix \o name)[i] = IF i <= Len(prefix) THEN prefix[i] ELSE name[i - Len(prefix)]
    BY <1>1, ConcatProperties
  <2> QED BY <2>1, Zenon DEF w, n, m
<1> HIDE DEF n, m, w
<1>3. \A j \in 1..n : j \in 1..(n + m) /\ j <= n
  BY <1>0
<1>4. \A j \in 1..(n + m) : j > n => j - n \in 1..m /\ ~(j <= n)
  BY <1>0
<1>5. n + m \in Nat /\ n + m > n
  BY <1>0
<1>6. Len(w) \in Nat /\ Len(w) > n
  BY <1>2, <1>5, Zenon
<1>7. \A j \in 1..n : w[j] = prefix[j]
  BY <1>2, <1>3
<1>8. \A j \in 1..Len(w) : j > n => w[j] \notin {"_", ":"}
  BY <1>1, <1>2, <1>4
<1> QED BY <1>6, <1>7, <1>8 DEF Parts, n, w

LEMMA KeyLength == \A key \in Seq(Atom) : Len(key) \in Nat
OBVIOUS

LEMMA TwoOrMore == \A n \in Nat : n >= 2 => n - 1 \in 1..(n - 1) /\ n - 1 # 0
OBVIOUS

LEMMA LastMarks ==
  ASSUME NEW n \in Nat, NEW m \in Nat, NEW l \in Nat, l > n, l > m
  PROVE  /\ n # 0 => n \in 1..n /\ n \in 1..l
         /\ m # 0 => m \in 1..m /\ m \in 1..l
         /\ n > m => n # 0
         /\ m > n => m # 0
         /\ ~(n > m) /\ ~(m > n) => n = m
OBVIOUS

(* A key is under one prefix only.                                         *)
LEMMA SamePrefix ==
  ASSUME NEW w, NEW p \in Seq(Atom), Separated(p), Parts(w, p),
         NEW q \in Seq(Atom), Separated(q), Parts(w, q)
  PROVE  q = p
<1> DEFINE n == Len(p)
           m == Len(q)
           l == Len(w)
<1>1. n \in Nat /\ m \in Nat /\ l \in Nat /\ l > n /\ l > m
  <2>1. Len(w) \in Nat /\ Len(w) > Len(p) /\ Len(w) > Len(q)
    BY DEF Parts
  <2>2. Len(p) \in Nat /\ Len(q) \in Nat
    BY KeyLength
  <2> QED BY <2>1, <2>2
<1>2. /\ \A j \in 1..n : w[j] = p[j]
      /\ \A j \in 1..m : w[j] = q[j]
      /\ \A j \in 1..l : (j > n \/ j > m) => w[j] \notin {"_", ":"}
  BY DEF Parts
<1>3. /\ n # 0 => p[n] \in {"_", ":"}
      /\ m # 0 => q[m] \in {"_", ":"}
  BY FrontFacts, EmptySeq DEF Separated
<1> HIDE DEF n, m, l
<1>4. /\ n # 0 => n \in 1..n /\ n \in 1..l
      /\ m # 0 => m \in 1..m /\ m \in 1..l
      /\ n > m => n # 0
      /\ m > n => m # 0
      /\ ~(n > m) /\ ~(m > n) => n = m
  BY <1>1, LastMarks
<1>5. ~(n > m) /\ ~(m > n)
  <2>1. ASSUME n > m PROVE FALSE
    BY <1>2, <1>3, <1>4, <2>1
  <2>2. ASSUME m > n PROVE FALSE
    BY <1>2, <1>3, <1>4, <2>2
  <2> QED BY <2>1, <2>2
<1>6. n = m
  BY <1>4, <1>5
<1>7. Len(q) = Len(p) /\ \A j \in 1..Len(p) : q[j] = p[j]
  BY <1>2, <1>6 DEF n, m
<1> QED BY <1>7, SeqEqual

(* So is a name.                                                           *)
LEMMA PrefixOfKey ==
  ASSUME PlainNames, NEW p \in Seq(Atom), Separated(p), NEW q \in Seq(Atom), Separated(q),
         NEW x \in Name, NEW y \in Name, p \o x = q \o y
  PROVE  p = q
<1>1. Parts(p \o x, p) /\ Parts(q \o y, q)
  BY NameParts
<1> QED BY <1>1, SamePrefix, Zenon

(* A key under a prefix is the parameter of the function of that prefix    *)
(* only.                                                                   *)
LEMMA Decomposed ==
  ASSUME PlainNames, NEW f \in Seq(Atom), NEW prefix \in Seq(Atom), Separated(prefix),
         NEW x \in Name, NEW name \in Name, (f \o << "_" >>) \o x = prefix \o name
  PROVE  prefix # << >> /\ Last(prefix) = "_" /\ Front(prefix) = f
<1> DEFINE bar == f \o << "_" >>
<1>1. /\ bar \in Seq(Atom) /\ bar # << >> /\ Last(bar) = "_" /\ Front(bar) = f
  BY BarFacts
<1>2. bar \o x = prefix \o name
  OBVIOUS
<1> HIDE DEF bar
<1>3. Separated(bar)
  BY <1>1 DEF Separated
<1>4. prefix = bar
  BY <1>1, <1>2, <1>3, PrefixOfKey, ZenonT(40)
<1> QED BY <1>1, <1>4, Zenon

(* A name under a prefix is under it by one name only.                     *)
LEMMA NameOfKey ==
  ASSUME NEW prefix \in Seq(Atom), NEW x \in Name, NEW y \in Name, prefix \o x = prefix \o y
  PROVE  x = y
<1>1. x \in Seq(Atom) /\ y \in Seq(Atom)
  BY NameAssumption
<1> QED BY <1>1, ConcatSimplifications
-----------------------------------------------------------------------------
(* The invariant of parameters.                                            *)

(* The functions of the program declare their parameters with a type       *)
(* (Parser.cpp:451 rejects a parameter without one).                       *)
KnownTypes == \A params \in ParamList : \A i \in DOMAIN params : params[i].type # "Unknown"

FirstOfName(params, i) == \A j \in 1..(i - 1) : params[j].name # params[i].name
ParamKey(t, f, i) == FunctionPrefix(<< >>, f) \o t[f].declared[i].name

ParamKept(t) ==
  \A f \in DOMAIN t : \A i \in DOMAIN t[f].argTypes :
    LET key == ParamKey(t, f, i)
    IN  FirstOfName(t[f].declared, i) =>
          /\ key \in DOMAIN t /\ ~t[key].isFunction
          /\ t[key].type = t[f].argTypes[i] /\ t[key].type # "Unknown"

ParamKeys(t) ==
  {k \in DOMAIN t : \E f \in DOMAIN t : \E i \in DOMAIN t[f].argTypes :
     FirstOfName(t[f].declared, i) /\ k = ParamKey(t, f, i)}

(* A prefix is that of a symbol in the table or of a branch or loop.       *)
Rooted(t, f) == f \in DOMAIN t \/ (f # << >> /\ Last(f) \in Placed)
PrefixRooted(t, prefix) == prefix # << >> /\ Last(prefix) = "_" => Rooted(t, Front(prefix))
KeysRooted(t) ==
  \A f \in Seq(Atom), x \in Name : (f \o << "_" >>) \o x \in DOMAIN t => Rooted(t, f)

ParamInv ==
  /\ Base /\ ReadsAvoid(frames, table, ParamKeys(table))
  /\ ParamKept(table) /\ KeysRooted(table)

(* New keys under prefixes of the program.                                 *)
LEMMA RootedStays ==
  ASSUME PlainNames, NEW t, NEW u, KeysRooted(t), DOMAIN t \subseteq DOMAIN u,
         \A k \in DOMAIN u \ DOMAIN t : \E prefix \in Seq(Atom), name \in Name :
           k = prefix \o name /\ Separated(prefix) /\ PrefixRooted(u, prefix)
  PROVE  KeysRooted(u)
<1> SUFFICES ASSUME NEW f \in Seq(Atom), NEW x \in Name, (f \o << "_" >>) \o x \in DOMAIN u
             PROVE  Rooted(u, f)
  BY DEF KeysRooted
<1> DEFINE k == (f \o << "_" >>) \o x
<1>1. CASE k \in DOMAIN t
  BY <1>1 DEF KeysRooted, Rooted
<1>2. CASE k \notin DOMAIN t
  <2>1. PICK prefix \in Seq(Atom), name \in Name :
          k = prefix \o name /\ Separated(prefix) /\ PrefixRooted(u, prefix)
    BY <1>2
  <2>2. prefix # << >> /\ Last(prefix) = "_" /\ Front(prefix) = f
    BY <2>1, Decomposed, Zenon
  <2> QED BY <2>1, <2>2 DEF PrefixRooted
<1> QED BY <1>1, <1>2

(* What the label of a branch or loop ends in.                             *)
LEMMA LabelRooted ==
  ASSUME NEW prefix \in Seq(Atom), Labelled(prefix), NEW t
  PROVE  PrefixRooted(t, prefix)
<1> SUFFICES ASSUME prefix # << >>, Last(prefix) = "_"
             PROVE  Rooted(t, Front(prefix))
  BY DEF PrefixRooted
<1> DEFINE f == Front(prefix)
           n == Len(prefix)
<1>1. n \in Nat /\ n >= 2 /\ prefix[n - 1] \in Placed
  BY KeyLength DEF Labelled
<1>2. f \in Seq(Atom) /\ Len(f) = n - 1 /\ \A i \in 1..(n - 1) : f[i] = prefix[i]
  BY FrontFacts
<1> HIDE DEF f, n
<1>3. n - 1 \in 1..(n - 1) /\ n - 1 # 0
  BY <1>1, TwoOrMore
<1>4. f # << >>
  BY <1>2, <1>3, EmptySeq
<1>5. Last(f) = prefix[n - 1]
  BY <1>2, <1>3 DEF Last
<1> QED BY <1>1, <1>4, <1>5 DEF Rooted, f

(* The prefix of what is under analysis.                                   *)
LEMMA TopRooted ==
  ASSUME Inv, Base
  PROVE  PrefixRooted(table, Top.prefix) /\ Separated(Top.prefix)
<1>1. Clear({})
  BY DEF Clear, ReadsAvoid, Avoids, Known
<1>2. OpenBody(Top.prefix, table, signature) \/ Labelled(Top.prefix)
  BY <1>1, ReturnTop
<1>3. Separated(Top.prefix) /\ Top.prefix \in Seq(Atom)
  BY <1>1, ReturnTop, TopFacts
<1>4. CASE OpenBody(Top.prefix, table, signature)
  BY <1>3, <1>4 DEF OpenBody, PrefixRooted, Rooted
<1>5. CASE Labelled(Top.prefix)
  BY <1>3, <1>5, LabelRooted
<1> QED BY <1>2, <1>3, <1>4, <1>5

(* No function gets parameters.                                            *)
SameParams(t, u) ==
  \A f \in DOMAIN u :
    \/ u[f].argTypes = << >>
    \/ f \in DOMAIN t /\ u[f].argTypes = t[f].argTypes /\ u[f].declared = t[f].declared

LEMMA ParamsStay ==
  ASSUME NEW t, NEW u, ParamKept(t), SameParams(t, u),
         \A k \in ParamKeys(t) : k \in DOMAIN u /\ u[k] = t[k]
  PROVE  ParamKept(u) /\ ParamKeys(u) \subseteq ParamKeys(t)
<1>1. ASSUME NEW f \in DOMAIN u, NEW i \in DOMAIN u[f].argTypes, FirstOfName(u[f].declared, i)
      PROVE  /\ f \in DOMAIN t /\ u[f].argTypes = t[f].argTypes /\ u[f].declared = t[f].declared
             /\ ParamKey(u, f, i) = ParamKey(t, f, i) /\ ParamKey(t, f, i) \in ParamKeys(t)
  <2>1. f \in DOMAIN t /\ u[f].argTypes = t[f].argTypes /\ u[f].declared = t[f].declared
    BY DEF SameParams
  <2>2. ParamKey(u, f, i) = ParamKey(t, f, i)
    BY <2>1 DEF ParamKey
  <2>3. i \in DOMAIN t[f].argTypes /\ FirstOfName(t[f].declared, i)
    BY <1>1, <2>1
  <2>4. ParamKey(t, f, i) \in DOMAIN t
    BY <2>1, <2>3 DEF ParamKept
  <2> QED BY <2>1, <2>2, <2>3, <2>4 DEF ParamKeys
<1>2. ParamKept(u)
  <2> SUFFICES ASSUME NEW f \in DOMAIN u, NEW i \in DOMAIN u[f].argTypes,
                      FirstOfName(u[f].declared, i)
               PROVE  LET key == ParamKey(u, f, i)
                      IN  /\ key \in DOMAIN u /\ ~u[key].isFunction
                          /\ u[key].type = u[f].argTypes[i] /\ u[key].type # "Unknown"
    BY DEF ParamKept
  <2> DEFINE key == ParamKey(t, f, i)
  <2>1. /\ f \in DOMAIN t /\ u[f].argTypes = t[f].argTypes /\ u[f].declared = t[f].declared
        /\ ParamKey(u, f, i) = key /\ key \in ParamKeys(t)
    BY <1>1
  <2>2. /\ ~t[key].isFunction /\ t[key].type = t[f].argTypes[i] /\ t[key].type # "Unknown"
    BY <2>1 DEF ParamKept
  <2>3. key \in DOMAIN u /\ u[key] = t[key]
    BY <2>1
  <2> HIDE DEF key
  <2> QED BY <2>1, <2>2, <2>3
<1>3. ParamKeys(u) \subseteq ParamKeys(t)
  BY <1>1 DEF ParamKeys
<1> QED BY <1>2, <1>3

(* A symbol without parameters is entered.                                 *)
LEMMA InsertRooted ==
  ASSUME PlainNames, NEW t, KeysRooted(t), NEW prefix \in Seq(Atom), NEW name \in Name,
         Separated(prefix), PrefixRooted(t, prefix), NEW symbol, symbol.argTypes = << >>,
         NEW key, key = prefix \o name, NEW u, u = Insert(t, key, symbol)
  PROVE  KeysRooted(u) /\ SameParams(t, u)
<1>1. /\ DOMAIN u = DOMAIN t \cup {key}
      /\ \A k \in DOMAIN u : u[k] = IF k \in DOMAIN t THEN t[k] ELSE symbol
  BY DEF Insert, Merge
<1>2. PrefixRooted(u, prefix)
  BY <1>1 DEF PrefixRooted, Rooted
<1>3. KeysRooted(u)
  <2>1. DOMAIN t \subseteq DOMAIN u
    BY <1>1
  <2>2. \A k \in DOMAIN u \ DOMAIN t : \E p \in Seq(Atom), x \in Name :
          k = p \o x /\ Separated(p) /\ PrefixRooted(u, p)
    BY <1>1, <1>2, Zenon
  <2> QED BY <2>1, <2>2, RootedStays, Zenon
<1>4. SameParams(t, u)
  BY <1>1 DEF SameParams
<1> QED BY <1>3, <1>4

(* The type of a symbol is set.                                            *)
LEMMA RetypeRooted ==
  ASSUME NEW t, TableOK(t), KeysRooted(t), NEW key \in DOMAIN t, NEW type,
         NEW u, u = [t EXCEPT ![key].type = type]
  PROVE  KeysRooted(u) /\ SameParams(t, u)
<1>1. DOMAIN u = DOMAIN t
  OBVIOUS
<1>2. ASSUME NEW f \in DOMAIN t
      PROVE  u[f].argTypes = t[f].argTypes /\ u[f].declared = t[f].declared
  <2>1. t[f] \in Symbol
    BY DEF TableOK
  <2>2. u[f] = t[f] \/ u[f] = [t[f] EXCEPT !.type = type]
    OBVIOUS
  <2> QED BY <2>1, <2>2 DEF Symbol
<1>3. SameParams(t, u)
  BY <1>1, <1>2 DEF SameParams
<1>4. KeysRooted(u)
  BY <1>1 DEF KeysRooted, Rooted
<1> QED BY <1>3, <1>4

(* What the steps that define no function enter.                           *)
LEMMA TableMoves ==
  ASSUME PlainNames, Inv, Base, KeysRooted(table), [Next]_vars,
         \A name \in Name, params \in ParamList : ~FunctionDef(name, params)
  PROVE  KeysRooted(table') /\ SameParams(table, table')
<1> USE DEF ghosts
<1>1. CASE table' = table
  BY <1>1 DEF SameParams
<1>2. ASSUME NEW isComparison \in BOOLEAN, BinaryOp(isComparison), table' # table
      PROVE  KeysRooted(table') /\ SameParams(table, table')
  <2>0. PICK use \in Name :
          LET key == Lookup(table, Top.prefix, use)
          IN  key # NoKey /\ \E type : table' = [table EXCEPT ![key].type = type]
    <3> DEFINE left == Top.vals[Len(Top.vals) - 1]
    <3>1. /\ left.use # NoName /\ Lookup(table, Top.prefix, left.use) # NoKey
          /\ \E type : table' = [table EXCEPT ![Lookup(table, Top.prefix, left.use)].type = type]
      BY <1>2 DEF BinaryOp, Crash
    <3>2. left \in Value
      <4> DEFINE n == Len(Top.vals)
      <4>1. n >= 2 /\ n \in Nat
        BY <1>2, TopFacts DEF BinaryOp
      <4>2. n - 1 \in 1..n
        BY <4>1
      <4> HIDE DEF n
      <4>3. Top.vals[n - 1] \in Value
        BY <4>2, TopFacts, ElementOfSeq DEF n
      <4> QED BY <4>3 DEF n
    <3>3. left.use \in Name
      BY <3>1, <3>2 DEF Value
    <3> QED BY <3>1, <3>3
  <2> DEFINE key == Lookup(table, Top.prefix, use)
  <2>1. PICK type : table' = [table EXCEPT ![key].type = type]
    BY <2>0
  <2>2. key \in DOMAIN table
    BY <2>0, InvFacts, TopFacts, LookupFinds
  <2> HIDE DEF key
  <2>3. table' = [table EXCEPT ![key].type = type]
    BY <2>1 DEF key
  <2> QED BY <2>2, <2>3, InvFacts, RetypeRooted
<1>3. ASSUME FinishReturn, table' # table
      PROVE  KeysRooted(table') /\ SameParams(table, table')
  <2>0. PICK k \in ReturnTargets(table, Top.prefix) :
          \E type : table' = [table EXCEPT ![k].type = type]
    BY <1>3 DEF FinishReturn, Crash
  <2>1. PICK type : table' = [table EXCEPT ![k].type = type]
    BY <2>0
  <2>2. k \in DOMAIN table
    BY DEF ReturnTargets
  <2> QED BY <2>1, <2>2, InvFacts, RetypeRooted
<1>4. ASSUME FinishLet, table' # table
      PROVE  KeysRooted(table') /\ SameParams(table, table')
  <2>1. PICK type : table' = Insert(table, Top.prefix \o Top.name, Variable(type, Top.id))
    BY <1>4 DEF FinishLet
  <2>2. Top.name \in Name /\ Top.prefix \in Seq(Atom)
    BY <1>4, TopFacts DEF FinishLet, FrameOK
  <2>3. Variable(type, Top.id).argTypes = << >>
    BY DEF Variable
  <2>4. PrefixRooted(table, Top.prefix) /\ Separated(Top.prefix)
    BY TopRooted
  <2> QED BY <2>1, <2>2, <2>3, <2>4, InsertRooted, Zenon
<1>5. ASSUME NEW name \in Name, For(name)
      PROVE  KeysRooted(table') /\ SameParams(table, table')
  <2> DEFINE prefix == ForPrefix(Top.prefix)
             symbol == Variable("Int", nodes + 1)
  <2>1. table' = Insert(table, prefix \o name, symbol)
    BY <1>5 DEF For
  <2>2. prefix \in Seq(Atom) /\ Labelled(prefix) /\ Separated(prefix)
    BY TopFacts, PrefixIsKey, LabelsArePlaced
  <2>3. symbol.argTypes = << >>
    BY DEF Variable
  <2> HIDE DEF prefix, symbol
  <2>4. PrefixRooted(table, prefix)
    BY <2>2, LabelRooted
  <2> QED BY <2>1, <2>2, <2>3, <2>4, InsertRooted, Zenon
<1>6. ASSUME NEW name \in Name, NEW params \in ParamList, NEW type \in DeclaredType,
             Extern(name, params, type)
      PROVE  KeysRooted(table') /\ SameParams(table, table')
  <2> DEFINE symbol == Function(type, << >>, 0, params)
  <2>1. table' = Insert(table, name, symbol)
    BY <1>6 DEF Extern
  <2>2. symbol.argTypes = << >>
    BY DEF Function
  <2> HIDE DEF symbol
  <2>3. << >> \in Seq(Atom) /\ name = << >> \o name
    <3>1. name \in Seq(Atom)
      BY NameAssumption
    <3> QED BY <3>1, ConcatEmptySeq
  <2>4. Separated(<< >>) /\ PrefixRooted(table, << >>)
    BY DEF Separated, PrefixRooted
  <2> QED BY <2>1, <2>2, <2>3, <2>4, InsertRooted, Zenon
<1>7. \/ table' = table
      \/ \E isComparison \in BOOLEAN : BinaryOp(isComparison)
      \/ FinishReturn \/ FinishLet
      \/ \E name \in Name : For(name)
      \/ \E name \in Name, params \in ParamList, type \in DeclaredType : Extern(name, params, type)
  BY DEF Next, vars, Crash, Halted, OperandStep, DeclarationStep, ControlStep,
       Literal, NullOperand, Collection, VariableUse, LetClash, Let, Return,
       Call, FinishCall, FunctionClash, EndFunction, If, FinishIfCond, Else,
       EndIf, While, FinishWhileCond, EndLoop, Break, CollectionOverride, Main, Finish
<1> QED BY <1>1, <1>2, <1>3, <1>4, <1>5, <1>6, <1>7

(* The parameters of a new function: the first of a name has its type.     *)
ParamsUnder(new, prefix, params, scope) ==
  /\ \A k \in DOMAIN new : /\ \E name \in Name : k = prefix \o name
                           /\ new[k].argTypes = << >> /\ new[k].scope = scope
  /\ \A i \in DOMAIN params : FirstOfName(params, i) =>
       LET key == prefix \o params[i].name
       IN  key \in DOMAIN new /\ ~new[key].isFunction /\ new[key].type = params[i].type

LEMMA ParamsEntered ==
  ASSUME NEW prefix \in Seq(Atom), NEW params \in ParamList, NEW scope,
         NEW new, new = ParamSymbols(prefix, params, scope)
  PROVE  ParamsUnder(new, prefix, params, scope)
<1>1. \A i \in DOMAIN params : params[i].name \in Name
  <2>1. params \in Seq(Param)
    BY ParamAssumption
  <2>2. \A i \in DOMAIN params : params[i] \in Param
    BY <2>1
  <2> QED BY <2>2 DEF Param
<1>2. DOMAIN params \subseteq Int /\ \A i, j \in DOMAIN params : i < j => i \in 1..(j - 1)
  <2>1. params \in Seq(Param)
    BY ParamAssumption
  <2>2. DOMAIN params = 1..Len(params) /\ Len(params) \in Nat
    BY <2>1
  <2>3. \A n \in Nat : 1..n \subseteq Int /\ \A i, j \in 1..n : i < j => i \in 1..(j - 1)
    OBVIOUS
  <2> QED BY <2>2, <2>3, Zenon
<1> DEFINE Chosen(key) ==
             CHOOSE i \in DOMAIN params :
               /\ prefix \o params[i].name = key
               /\ \A j \in 1..(i - 1) : prefix \o params[j].name # key
<1>3. /\ DOMAIN new = {prefix \o params[i].name : i \in DOMAIN params}
      /\ \A k \in DOMAIN new : new[k] = Variable(params[Chosen(k)].type, scope)
  BY Zenon DEF ParamSymbols
<1>4. ASSUME NEW i \in DOMAIN params, FirstOfName(params, i)
      PROVE  params[Chosen(prefix \o params[i].name)].type = params[i].type
  <2> DEFINE key == prefix \o params[i].name
             c == Chosen(key)
  <2>1. \A j \in DOMAIN params : prefix \o params[j].name = key => params[j].name = params[i].name
    BY <1>1, NameOfKey, Zenon
  <2>2. \A j \in 1..(i - 1) : j \in DOMAIN params
    <3>1. params \in Seq(Param)
      BY ParamAssumption
    <3>2. DOMAIN params = 1..Len(params) /\ Len(params) \in Nat
      BY <3>1
    <3>3. \A n \in Nat : \A m \in 1..n : \A j \in 1..(m - 1) : j \in 1..n
      OBVIOUS
    <3> QED BY <3>2, <3>3, Zenon
  <2>3. \A j \in 1..(i - 1) : prefix \o params[j].name # key
    BY <1>4, <2>1, <2>2, Zenon DEF FirstOfName
  <2>4. /\ c \in DOMAIN params /\ prefix \o params[c].name = key
        /\ \A j \in 1..(c - 1) : prefix \o params[j].name # key
    <3>1. \E j \in DOMAIN params : /\ prefix \o params[j].name = key
                                   /\ \A l \in 1..(j - 1) : prefix \o params[l].name # key
      BY <2>3, Zenon
    <3> QED BY <3>1, Zenon
  <2>5. prefix \o params[i].name = key
    OBVIOUS
  <2> HIDE DEF key, c, Chosen
  <2>6. ~(c < i)
    BY <1>2, <2>3, <2>4, Zenon
  <2>7. ~(i < c)
    BY <1>2, <2>4, <2>5, Zenon
  <2>8. \A a, b \in Int : ~(a < b) /\ ~(b < a) => a = b
    OBVIOUS
  <2>9. c = i
    BY <1>2, <2>4, <2>6, <2>7, <2>8, Zenon
  <2> QED BY <2>9 DEF key, c
<1> HIDE DEF Chosen
<1>5. \A k \in DOMAIN new : /\ new[k].argTypes = << >> /\ new[k].scope = scope
                            /\ ~new[k].isFunction /\ new[k].type = params[Chosen(k)].type
  <2>1. \A type : /\ Variable(type, scope).argTypes = << >>
                  /\ Variable(type, scope).scope = scope
                  /\ ~Variable(type, scope).isFunction
                  /\ Variable(type, scope).type = type
    BY DEF Variable
  <2> QED BY <1>3, <2>1, Zenon
<1>6. \A i \in DOMAIN params : prefix \o params[i].name \in DOMAIN new
  BY <1>3, Zenon
<1>7. \A k \in DOMAIN new : \E name \in Name : k = prefix \o name
  BY <1>1, <1>3, Zenon
<1> QED BY <1>4, <1>5, <1>6, <1>7, Zenon DEF ParamsUnder

(* What a function definition enters: the function and, under its prefix,  *)
(* where nothing is yet, its parameters.                                   *)
FunctionUnder(key, prefix, params) ==
  /\ key \in Seq(Atom) /\ prefix \in Seq(Atom) /\ prefix # << >>
  /\ prefix = key \o << "_" >> /\ Last(prefix) = "_" /\ Front(prefix) = key
  /\ ~Rooted(table, key) /\ \A x \in Name : prefix \o x \notin DOMAIN table
  /\ DOMAIN table \subseteq DOMAIN table' /\ key \in DOMAIN table'
  /\ \A k \in DOMAIN table : table'[k] = table[k]
  /\ table'[key] = Function("Unknown", ParamTypes(params), Top.id, params)
  /\ \A k \in DOMAIN table' \ DOMAIN table :
       \/ k = key
       \/ /\ \E x \in Name : k = prefix \o x
          /\ table'[k].argTypes = << >> /\ table'[k].scope = nodes + 1
  /\ \A i \in DOMAIN params : FirstOfName(params, i) =>
       LET k == prefix \o params[i].name
       IN  k \in DOMAIN table' /\ ~table'[k].isFunction /\ table'[k].type = params[i].type
  /\ KeysRooted(table')

LEMMA FunctionTable ==
  ASSUME PlainNames, Inv, Base, KeysRooted(table),
         NEW name \in Name, NEW params \in ParamList, FunctionDef(name, params),
         NEW key, key = Top.prefix \o name,
         NEW prefix, prefix = FunctionPrefix(Top.prefix, name)
  PROVE  FunctionUnder(key, prefix, params)
<1> DEFINE new == ParamSymbols(prefix, params, nodes + 1)
           with == Merge(table, new)
           symbol == Function("Unknown", ParamTypes(params), Top.id, params)
<1>1. key \notin DOMAIN table /\ table' = Insert(with, key, symbol)
  BY DEF FunctionDef
<1>2. /\ key \in Seq(Atom) /\ prefix \in Seq(Atom) /\ prefix # << >> /\ Front(prefix) = key
      /\ prefix = key \o << "_" >> /\ Last(prefix) = "_"
  <2>1. prefix = key \o << "_" >>
    BY DEF FunctionPrefix
  <2>2. key \in Seq(Atom)
    BY TopFacts, FunctionPrefixFacts
  <2> QED BY <2>1, <2>2, BarFacts
<1>3. key # << >> /\ Last(key) \notin Placed
  BY TopFacts, KeyIsNamed
<1>4. key \notin DOMAIN new
  BY TopFacts, KeyNotParam
<1>5. Top.prefix \in Seq(Atom)
  BY TopFacts
<1> HIDE DEF symbol
<1>6. ParamsUnder(new, prefix, params, nodes + 1)
  <2>1. new = ParamSymbols(prefix, params, nodes + 1)
    BY DEF new
  <2>2. prefix \in Seq(Atom)
    BY <1>2
  <2> HIDE DEF new
  <2> QED BY <2>1, <2>2, ParamsEntered
<1> HIDE DEF new
<1>7. /\ DOMAIN table' = DOMAIN table \cup DOMAIN new \cup {key}
      /\ \A k \in DOMAIN table : table'[k] = table[k]
      /\ \A k \in DOMAIN new \ DOMAIN table : table'[k] = new[k]
      /\ table'[key] = symbol
  BY <1>1, <1>4 DEF Insert, Merge
<1>8. ~Rooted(table, key) /\ \A x \in Name : prefix \o x \notin DOMAIN table
  <2>1. ~Rooted(table, key)
    BY <1>1, <1>3 DEF Rooted
  <2> QED BY <1>2, <2>1 DEF KeysRooted
<1>9. \A i \in DOMAIN params : params[i].name \in Name
  <2>1. params \in Seq(Param)
    BY ParamAssumption
  <2>2. \A i \in DOMAIN params : params[i] \in Param
    BY <2>1
  <2> QED BY <2>2 DEF Param
<1>10. \A k \in DOMAIN table' \ DOMAIN table :
         \/ k = key
         \/ /\ \E x \in Name : k = prefix \o x
            /\ table'[k].argTypes = << >> /\ table'[k].scope = nodes + 1
  BY <1>6, <1>7 DEF ParamsUnder
<1>11. \A i \in DOMAIN params : FirstOfName(params, i) =>
         LET k == prefix \o params[i].name
         IN  k \in DOMAIN table' /\ ~table'[k].isFunction /\ table'[k].type = params[i].type
  BY <1>6, <1>7, <1>8, <1>9 DEF ParamsUnder
<1>12. KeysRooted(table')
  <2>1. PrefixRooted(table', Top.prefix) /\ Separated(Top.prefix)
    BY <1>7, TopRooted DEF PrefixRooted, Rooted
  <2>2. PrefixRooted(table', prefix) /\ Separated(prefix)
    BY <1>2, <1>7 DEF PrefixRooted, Rooted, Separated
  <2>3. \A k \in DOMAIN table' \ DOMAIN table : \E p \in Seq(Atom), x \in Name :
          k = p \o x /\ Separated(p) /\ PrefixRooted(table', p)
    BY <1>2, <1>5, <1>10, <2>1, <2>2, Zenon
  <2>4. DOMAIN table \subseteq DOMAIN table'
    BY <1>7
  <2> QED BY <2>3, <2>4, RootedStays, Zenon
<1>13. DOMAIN table \subseteq DOMAIN table' /\ key \in DOMAIN table'
  BY <1>7
<1> QED BY <1>2, <1>7, <1>8, <1>10, <1>11, <1>12, <1>13, Zenon DEF symbol, FunctionUnder

(* The parameters of the new function have its types, and those of the     *)
(* others keep theirs.                                                     *)
LEMMA FunctionEntered ==
  ASSUME PlainNames, KnownTypes, Inv, Base, ParamKept(table), KeysRooted(table),
         NEW name \in Name, NEW params \in ParamList, FunctionDef(name, params)
  PROVE  ParamKept(table') /\ KeysRooted(table')
<1> DEFINE key == Top.prefix \o name
           prefix == FunctionPrefix(Top.prefix, name)
           symbol == Function("Unknown", ParamTypes(params), Top.id, params)
<1>1. key = Top.prefix \o name /\ prefix = FunctionPrefix(Top.prefix, name)
  OBVIOUS
<1>2. symbol.argTypes = ParamTypes(params) /\ symbol.declared = params
  BY DEF Function
<1>3. \A i \in DOMAIN params : params[i].type # "Unknown"
  BY DEF KnownTypes
<1> HIDE DEF key, prefix
<1>u. FunctionUnder(key, prefix, params)
  BY <1>1, FunctionTable
<1>4. /\ key \in Seq(Atom) /\ prefix = key \o << "_" >>
      /\ \A k \in DOMAIN table : k \in DOMAIN table' /\ table'[k] = table[k]
      /\ table'[key] = symbol
      /\ \A k \in DOMAIN table' \ DOMAIN table : k = key \/ DOMAIN table'[k].argTypes = {}
      /\ \A i \in DOMAIN params : FirstOfName(params, i) =>
           LET k == prefix \o params[i].name
           IN  k \in DOMAIN table' /\ ~table'[k].isFunction /\ table'[k].type = params[i].type
      /\ KeysRooted(table')
  <2>1. DOMAIN << >> = {}
    OBVIOUS
  <2> QED BY <1>u, <2>1, Zenon DEF FunctionUnder
<1>5. FunctionPrefix(<< >>, key) = prefix
  <2>1. << >> \o key = key
    BY <1>4, ConcatEmptySeq
  <2> QED BY <1>4, <2>1 DEF FunctionPrefix
<1> HIDE DEF symbol
<1>6. ASSUME NEW f \in DOMAIN table', NEW i \in DOMAIN table'[f].argTypes,
             FirstOfName(table'[f].declared, i)
      PROVE  LET k == ParamKey(table', f, i)
             IN  /\ k \in DOMAIN table' /\ ~table'[k].isFunction
                 /\ table'[k].type = table'[f].argTypes[i] /\ table'[k].type # "Unknown"
  <2>1. CASE f \in DOMAIN table
    <3> DEFINE k == ParamKey(table, f, i)
    <3>1. table'[f] = table[f] /\ ParamKey(table', f, i) = k
      BY <1>4, <2>1 DEF ParamKey
    <3>2. /\ k \in DOMAIN table /\ ~table[k].isFunction
          /\ table[k].type = table[f].argTypes[i] /\ table[k].type # "Unknown"
      BY <1>6, <2>1, <3>1 DEF ParamKept
    <3> HIDE DEF k
    <3> QED BY <1>4, <3>1, <3>2
  <2>2. CASE f = key
    <3> DEFINE k == prefix \o params[i].name
    <3>1. table'[f].argTypes = ParamTypes(params) /\ table'[f].declared = params
      BY <1>2, <1>4, <2>2
    <3>2. i \in DOMAIN params /\ table'[f].argTypes[i] = params[i].type /\ FirstOfName(params, i)
      BY <1>6, <3>1 DEF ParamTypes
    <3>3. ParamKey(table', f, i) = k
      BY <1>5, <2>2, <3>1 DEF ParamKey
    <3>4. k \in DOMAIN table' /\ ~table'[k].isFunction /\ table'[k].type = params[i].type
      BY <1>4, <3>2
    <3> HIDE DEF k
    <3> QED BY <1>3, <3>2, <3>3, <3>4
  <2>3. CASE f \notin DOMAIN table /\ f # key
    BY <1>4, <1>6, <2>3
  <2> QED BY <2>1, <2>2, <2>3
<1>7. ParamKept(table')
  BY <1>6 DEF ParamKept
<1> QED BY <1>4, <1>7

(* A function body is entered where no operand waits.                      *)
LEMMA FunctionWaits ==
  ASSUME Inv, NEW name \in Name, NEW params \in ParamList, FunctionDef(name, params)
  PROVE  \A i \in DOMAIN frames' : frames'[i].vals = << >>
<1> DEFINE prefix == FunctionPrefix(Top.prefix, name)
           f == BodyFrame("function", prefix, nodes + 1)
<1>1. Top.kind \in BodyKinds /\ frames' = Append(frames, f)
  BY DEF FunctionDef, AtStatement, Push
<1>2. f \in Frame /\ f.vals = << >>
  <2>1. prefix \in Seq(Atom) /\ prefix # << >>
    BY TopFacts, FunctionPrefixFacts
  <2>2. "function" \in BodyKinds
    BY DEF BodyKinds
  <2> HIDE DEF prefix
  <2> QED BY <2>1, <2>2, InvFacts, BodyFrameFacts
<1> HIDE DEF f
<1>3. /\ frames \in Seq(Frame) /\ DOMAIN frames = 1..Len(frames) /\ Len(frames) \in Nat
      /\ DOMAIN frames' = 1..(Len(frames) + 1)
      /\ \A i \in 1..Len(frames) : frames'[i] = frames[i]
      /\ frames'[Len(frames) + 1] = f
  BY <1>1, <1>2, InvFacts, StackFacts, AppendFacts
<1>4. \A i \in DOMAIN frames : frames[i].vals = << >>
  BY <1>1, BodyOnTop
<1> QED BY <1>2, <1>3, <1>4

LEMMA ParamInit ==
  ASSUME Init
  PROVE  ParamInv
<1>1. DOMAIN table = {}
  BY DEF Init
<1>2. ReadsAvoid(frames, table, ParamKeys(table))
  BY BaseInit
<1> QED BY <1>1, <1>2, BaseInit DEF ParamInv, ParamKept, KeysRooted

LEMMA ParamNext ==
  ASSUME PlainNames, KnownTypes, Inv, ParamInv, [Next]_vars
  PROVE  ParamInv'
<1> DEFINE held == ParamKeys(table)
<1>1. Clear(held)
  BY DEF ParamInv, ParamKept, ParamKeys, Clear, Known
<1>2. /\ held \subseteq DOMAIN table
      /\ \A k \in held : ~table[k].isFunction
  BY DEF ParamInv, ParamKept, ParamKeys
<1>3. Kept(held)
  <2> HIDE DEF held
  <2> QED BY <1>1, StepSettles DEF ParamInv
<1>4. ASSUME NEW name \in Name, NEW params \in ParamList, FunctionDef(name, params)
      PROVE  ParamInv'
  <2>1. ParamKept(table') /\ KeysRooted(table')
    BY <1>4, FunctionEntered DEF ParamInv
  <2>2. \A i \in DOMAIN frames' : frames'[i].vals = << >>
    BY <1>4, FunctionWaits
  <2>3. ReadsAvoid(frames', table', ParamKeys(table'))
    BY <2>2, NothingSettles
  <2> QED BY <1>3, <2>1, <2>3 DEF ParamInv, Kept
<1>5. CASE \A name \in Name, params \in ParamList : ~FunctionDef(name, params)
  <2>1. KeysRooted(table') /\ SameParams(table, table')
    BY <1>5, TableMoves DEF ParamInv
  <2>2. DOMAIN table \subseteq DOMAIN table'
    BY NextKeeps DEF StepOK, Preserves
  <2>3. \A k \in held : k \in DOMAIN table' /\ table'[k] = table[k]
    <3> HIDE DEF held
    <3> QED BY <1>2, <1>3, <2>2 DEF Kept, ReturnTargets
  <2>4. ParamKept(table') /\ ParamKeys(table') \subseteq held
    BY <2>1, <2>3, ParamsStay DEF ParamInv
  <2>5. ReadsAvoid(frames', table', ParamKeys(table'))
    BY <1>3, <2>4, FewerHeld DEF Kept
  <2> QED BY <1>3, <2>1, <2>4, <2>5 DEF ParamInv, Kept
<1> QED BY <1>4, <1>5

(* A call is checked against the types the body sees: the first parameter  *)
(* of a name keeps, under the prefix of its function (:299), the type that *)
(* the function's argumentTypes has for it (:314), whatever is inferred    *)
(* (:126), settled (:371-:390) or declared afterwards.  It needs names     *)
(* without '_' and parameters of a known type (Parser.cpp:451).            *)
THEOREM ParamsKept ==
  ASSUME PlainNames, KnownTypes
  PROVE  Spec => []ParamsKeepTheirTypes
<1>1. Init => ParamInv
  BY ParamInit
<1>2. Inv /\ ParamInv /\ [Next]_vars => ParamInv'
  BY ParamNext
<1>3. ParamInv => ParamsKeepTheirTypes
  <2> SUFFICES ASSUME ParamInv PROVE ParamsKeepTheirTypes
    OBVIOUS
  <2>1. ParamKept(table)
    BY DEF ParamInv
  <2> QED BY <2>1, Zenon DEF ParamKept, ParamKey, FirstOfName, ParamsKeepTheirTypes
<1> QED BY <1>1, <1>2, <1>3, Invariance, PTL DEF Spec

=============================================================================
