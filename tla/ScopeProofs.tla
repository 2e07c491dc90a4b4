----------------------------- MODULE ScopeProofs -----------------------------
(* The theorem about the scopes of the analyser: a look-up finds nothing   *)
(* that a closed scope declared.                                           *)
EXTENDS ManglingProofs

-----------------------------------------------------------------------------
(* The atoms of prefixes.                                                  *)

(* No two nodes of the program are at one place (Semantic.cpp:17).         *)
DistinctPlaces == \A m, n \in 1..MaxNodes : Position[m] = Position[n] => m = n

(* No for labels a key.                                                    *)
ForFree(key) == "for" \notin ToSet(key)

LEMMA ConcatAtoms ==
  ASSUME NEW p \in Seq(Atom), NEW q \in Seq(Atom)
  PROVE  /\ ToSet(p \o q) = ToSet(p) \cup ToSet(q)
         /\ ForFree(p \o q) <=> ForFree(p) /\ ForFree(q)
<1>1. ToSet(p \o q) = ToSet(p) \cup ToSet(q)
  BY ToSetConcat, Zenon
<1> QED BY <1>1 DEF ForFree

LEMMA ShortSets ==
  ASSUME NEW a, NEW b, NEW c
  PROVE  /\ ToSet(<< a >>) = {a} /\ ToSet(<< a, b >>) = {a, b} /\ ToSet(<< a, b, c >>) = {a, b, c}
         /\ DOMAIN << a >> = 1..1 /\ DOMAIN << a, b >> = 1..2 /\ DOMAIN << a, b, c >> = 1..3
<1>1. /\ DOMAIN << a >> = 1..1 /\ DOMAIN << a, b >> = 1..2 /\ DOMAIN << a, b, c >> = 1..3
  OBVIOUS
<1>2. 1..1 = {1} /\ 1..2 = {1, 2} /\ 1..3 = {1, 2, 3}
  OBVIOUS
<1>3. /\ << a >>[1] = a
      /\ << a, b >>[1] = a /\ << a, b >>[2] = b
      /\ << a, b, c >>[1] = a /\ << a, b, c >>[2] = b /\ << a, b, c >>[3] = c
  OBVIOUS
<1>4. ToSet(<< a >>) = {a}
  BY <1>1, <1>2, <1>3 DEF ToSet
<1>5. ToSet(<< a, b >>) = {a, b}
  BY <1>1, <1>2, <1>3 DEF ToSet
<1>6. ToSet(<< a, b, c >>) = {a, b, c}
  BY <1>1, <1>2, <1>3 DEF ToSet
<1> QED BY <1>1, <1>4, <1>5, <1>6

(* What labels are made of.                                                *)
LEMMA LabelAtoms ==
  ASSUME NEW p \in Seq(Atom)
  PROVE  /\ ToSet(ElsePrefix(p)) = ToSet(p) \cup {"else", ":"}
         /\ ToSet(ForPrefix(p)) = ToSet(p) \cup {"for", ForPosition, "_"}
         /\ \A n \in 1..MaxNodes :
              /\ ToSet(IfPrefix(p, n)) = ToSet(p) \cup {"if", Position[n], "_"}
              /\ ToSet(WhilePrefix(p, n)) = ToSet(p) \cup {"while", Position[n], "_"}
<1>1. {"_", ":", "if", "else", "while", "for"} \subseteq Atom
  BY WordAssumption DEF Word
<1>2. ASSUME NEW a \in Atom, NEW b \in Atom
      PROVE  /\ ToSet(p \o << a, b >>) = ToSet(p) \cup {a, b}
             /\ ToSet(p \o << a, b, "_" >>) = ToSet(p) \cup {a, b, "_"}
  <2>1. "_" \in Atom
    BY <1>1
  <2> DEFINE q == << a, b >>
             r == << a, b, "_" >>
  <2>2. q \in Seq(Atom) /\ r \in Seq(Atom)
    BY <2>1, ShortSeq, Zenon
  <2>3. ToSet(q) = {a, b} /\ ToSet(r) = {a, b, "_"}
    BY ShortSets, Zenon
  <2> HIDE DEF q, r
  <2>4. ToSet(p \o q) = ToSet(p) \cup {a, b} /\ ToSet(p \o r) = ToSet(p) \cup {a, b, "_"}
    BY <2>2, <2>3, ConcatAtoms
  <2> QED BY <2>4 DEF q, r
<1>3. ToSet(ElsePrefix(p)) = ToSet(p) \cup {"else", ":"}
  <2>1. "else" \in Atom /\ ":" \in Atom
    BY <1>1
  <2> QED BY <1>2, <2>1, Zenon DEF ElsePrefix
<1>4. ToSet(ForPrefix(p)) = ToSet(p) \cup {"for", ForPosition, "_"}
  <2>1. "for" \in Atom /\ ForPosition \in Atom
    BY <1>1, PositionAssumption
  <2> QED BY <1>2, <2>1, Zenon DEF ForPrefix
<1>5. ASSUME NEW n \in 1..MaxNodes
      PROVE  /\ ToSet(IfPrefix(p, n)) = ToSet(p) \cup {"if", Position[n], "_"}
             /\ ToSet(WhilePrefix(p, n)) = ToSet(p) \cup {"while", Position[n], "_"}
  <2>1. "if" \in Atom /\ "while" \in Atom /\ Position[n] \in Atom
    BY <1>1, PositionAssumption
  <2> QED BY <1>2, <2>1, Zenon DEF IfPrefix, WhilePrefix
<1> QED BY <1>3, <1>4, <1>5

(* A position is no word and in no name.                                   *)
LEMMA PlacesApart ==
  ASSUME NEW a \in Placed
  PROVE  a \notin {"_", ":", "if", "else", "while", "for"} /\ \A name \in Name : a \notin ToSet(name)
BY IdentifierAssumption DEF Word

-----------------------------------------------------------------------------
(* The invariant of scopes.                                                *)

IsCond(f) == f.kind \in {"ifCond", "whileCond"}

(* An expression is in the scope of the frame below it.                    *)
Chained(s) ==
  \A i \in DOMAIN s : s[i].kind \in ExprKinds =>
    i - 1 \in DOMAIN s /\ s[i].prefix = s[i - 1].prefix /\ s[i].id = s[i - 1].id

(* A prefix is of one scope and, but for expressions, of one frame.        *)
OneScope(s) ==
  \A i, j \in DOMAIN s : ForFree(s[i].prefix) /\ s[i].prefix = s[j].prefix =>
    /\ s[i].id = s[j].id
    /\ s[i].kind \in BodyKinds /\ s[j].kind \in BodyKinds => i = j

(* What a prefix has up to a ':' is the prefix of a frame: the searches of *)
(* FindVariableInScopes stay in open scopes.                               *)
Reached(s, i, p) ==
  \A k \in DOMAIN p : p[k] = ":" => \E j \in 1..i : s[j].prefix = SubSeq(p, 1, k)
LabelsOpen(s) == \A i \in DOMAIN s : Reached(s, i, s[i].prefix)

(* The else of a branch under analysis is not.                             *)
ElseAhead(s) ==
  \A i, j \in DOMAIN s : s[i].kind = "then" /\ ForFree(s[i].prefix) =>
    s[j].prefix # ElsePrefix(s[i].prefix)

ThenEnds(s) ==
  \A i \in DOMAIN s : s[i].kind = "then" => s[i].prefix # << >> /\ Last(s[i].prefix) = "_"

Grounded(s) == 1 \in DOMAIN s /\ s[1].prefix = << >> /\ s[1].id = 0

CondsSeen(s, n) == \A i \in DOMAIN s : IsCond(s[i]) => s[i].node <= n

(* A symbol under the prefix of a frame is of its scope; none is under the *)
(* else of a branch under analysis.                                        *)
Owned(s, t) ==
  \A i \in DOMAIN s : \A name \in Name :
    LET key == s[i].prefix \o name
    IN  ForFree(key) /\ key \in DOMAIN t => t[key].scope = s[i].id

ElseFree(s, t) ==
  \A i \in DOMAIN s : \A name \in Name :
    LET key == ElsePrefix(s[i].prefix) \o name
    IN  s[i].kind = "then" /\ ForFree(key) => key \notin DOMAIN t

(* The positions of the nodes to come, and of the conditions under         *)
(* analysis, label nothing yet.                                            *)
Ahead(s, n) == {m \in 1..MaxNodes : m > n \/ \E i \in DOMAIN s : IsCond(s[i]) /\ s[i].node = m}

Unlabelled(s, t, n) ==
  \A m \in Ahead(s, n) :
    /\ \A key \in DOMAIN t : ForFree(key) => Position[m] \notin ToSet(key)
    /\ \A i \in DOMAIN s : ForFree(s[i].prefix) => Position[m] \notin ToSet(s[i].prefix)

FramesOK(s, n) ==
  /\ Chained(s) /\ OneScope(s) /\ LabelsOpen(s) /\ ElseAhead(s) /\ ThenEnds(s)
  /\ Grounded(s) /\ CondsSeen(s, n)

ScopesOK(s, t, n) == FramesOK(s, n) /\ Owned(s, t) /\ ElseFree(s, t) /\ Unlabelled(s, t, n)

ScopeInv == Base /\ KeysRooted(table) /\ ScopesOK(frames, table, nodes)

-----------------------------------------------------------------------------
(* What a step does to the frames.                                         *)

(* Some of the frames of s, with other operands.                           *)
SameFrame(f, g) == f.kind = g.kind /\ f.prefix = g.prefix /\ f.id = g.id /\ f.node = g.node
Shape(s, u) ==
  \E l \in Nat :
    /\ l >= 1 /\ DOMAIN u = 1..l /\ 1..l \subseteq DOMAIN s
    /\ \A i \in 1..l : SameFrame(u[i], s[i])

LEMMA ShapeScopes ==
  ASSUME NEW s, NEW u, NEW t, NEW n \in Nat, NEW m \in Nat, n <= m,
         DOMAIN s \subseteq Nat \ {0}, ScopesOK(s, t, n), Shape(s, u),
         \A i \in DOMAIN s : s[i].node \in Nat
  PROVE  ScopesOK(u, t, m)
<1>1. /\ \A i \in DOMAIN u : i \in DOMAIN s /\ SameFrame(u[i], s[i]) /\ i \in Nat /\ i >= 1
      /\ \A i \in DOMAIN u : \A j \in 1..i : j \in DOMAIN u
      /\ 1 \in DOMAIN u
  <2>1. PICK l \in Nat : /\ l >= 1 /\ DOMAIN u = 1..l /\ 1..l \subseteq DOMAIN s
                         /\ \A i \in 1..l : SameFrame(u[i], s[i])
    BY DEF Shape
  <2>2. 1 \in 1..l /\ \A i \in 1..l : i \in Nat /\ i >= 1 /\ \A j \in 1..i : j \in 1..l
    BY <2>1
  <2> QED BY <2>1, <2>2
<1>2. Chained(u)
  <2> SUFFICES ASSUME NEW i \in DOMAIN u, u[i].kind \in ExprKinds
               PROVE  i - 1 \in DOMAIN u /\ u[i].prefix = u[i - 1].prefix /\ u[i].id = u[i - 1].id
    BY DEF Chained
  <2>1. i - 1 \in DOMAIN s /\ s[i].prefix = s[i - 1].prefix /\ s[i].id = s[i - 1].id
    BY <1>1 DEF ScopesOK, FramesOK, Chained, SameFrame
  <2>2. i - 1 \in 1..i
    BY <1>1, <2>1
  <2>3. i - 1 \in DOMAIN u
    BY <1>1, <2>2
  <2> QED BY <1>1, <2>1, <2>3 DEF SameFrame
<1>3. OneScope(u)
  BY <1>1 DEF ScopesOK, FramesOK, OneScope, SameFrame
<1>4. LabelsOpen(u)
  <2> SUFFICES ASSUME NEW i \in DOMAIN u, NEW k \in DOMAIN u[i].prefix, u[i].prefix[k] = ":"
               PROVE  \E j \in 1..i : u[j].prefix = SubSeq(u[i].prefix, 1, k)
    BY DEF LabelsOpen, Reached
  <2>1. u[i].prefix = s[i].prefix /\ i \in DOMAIN s
    BY <1>1 DEF SameFrame
  <2>2. PICK j \in 1..i : s[j].prefix = SubSeq(s[i].prefix, 1, k)
    BY <2>1 DEF ScopesOK, FramesOK, LabelsOpen, Reached
  <2>3. u[j].prefix = s[j].prefix
    BY <1>1 DEF SameFrame
  <2> QED BY <2>1, <2>2, <2>3
<1>5. ElseAhead(u) /\ ThenEnds(u)
  <2>1. ElseAhead(u)
    BY <1>1 DEF ScopesOK, FramesOK, ElseAhead, SameFrame
  <2>2. ThenEnds(u)
    BY <1>1 DEF ScopesOK, FramesOK, ThenEnds, SameFrame
  <2> QED BY <2>1, <2>2
<1>6. Grounded(u)
  BY <1>1 DEF ScopesOK, FramesOK, Grounded, SameFrame
<1>7. CondsSeen(u, m)
  <2> SUFFICES ASSUME NEW i \in DOMAIN u, IsCond(u[i]) PROVE u[i].node <= m
    BY DEF CondsSeen
  <2>1. i \in DOMAIN s /\ s[i].node = u[i].node /\ IsCond(s[i])
    BY <1>1 DEF SameFrame, IsCond
  <2>2. s[i].node <= n /\ s[i].node \in Nat
    BY <2>1 DEF ScopesOK, FramesOK, CondsSeen
  <2> QED BY <2>1, <2>2
<1>8. Owned(u, t) /\ ElseFree(u, t)
  BY <1>1 DEF ScopesOK, Owned, ElseFree, SameFrame
<1>9. Ahead(u, m) \subseteq Ahead(s, n)
  <2>1. \A k \in 1..MaxNodes : k > m => k > n
    BY BoundAssumption
  <2> QED BY <1>1, <2>1 DEF Ahead, SameFrame, IsCond
<1>10. Unlabelled(u, t, m)
  BY <1>1, <1>9 DEF ScopesOK, Unlabelled, SameFrame
<1> QED BY <1>2, <1>3, <1>4, <1>5, <1>6, <1>7, <1>8, <1>10 DEF ScopesOK, FramesOK

(* Symbols are entered under the prefix of a frame and of its scope.       *)
Spelled(s) == \A i \in DOMAIN s : s[i].prefix \in Seq(Atom) /\ Separated(s[i].prefix)
Grown(s, t, u) ==
  /\ \A k \in DOMAIN t : k \in DOMAIN u /\ u[k].scope = t[k].scope
  /\ \A k \in DOMAIN u \ DOMAIN t : ForFree(k) =>
       \E i \in DOMAIN s, name \in Name : k = s[i].prefix \o name /\ u[k].scope = s[i].id

LEMMA GrownScopes ==
  ASSUME PlainNames, NEW s, NEW t, NEW u, NEW n, Spelled(s), ScopesOK(s, t, n), Grown(s, t, u)
  PROVE  ScopesOK(s, u, n)
<1>1. \A name \in Name : name \in Seq(Atom)
  BY NameAssumption
<1>2. ASSUME NEW p \in Seq(Atom), Separated(p), NEW name \in Name,
             p \o name \in DOMAIN u \ DOMAIN t, ForFree(p \o name)
      PROVE  /\ ForFree(p)
             /\ \E i \in DOMAIN s : s[i].prefix = p /\ u[p \o name].scope = s[i].id
  <2> DEFINE key == p \o name
  <2>1. PICK i \in DOMAIN s, x \in Name : key = s[i].prefix \o x /\ u[key].scope = s[i].id
    BY <1>2 DEF Grown
  <2>2. p = s[i].prefix
    <3>1. s[i].prefix \in Seq(Atom) /\ Separated(s[i].prefix)
      BY DEF Spelled
    <3>2. p \o name = s[i].prefix \o x
      BY <2>1
    <3> QED BY <1>2, <3>1, <3>2, PrefixOfKey, Zenon
  <2>3. ForFree(p)
    BY <1>1, <1>2, ConcatAtoms
  <2> QED BY <2>1, <2>2, <2>3
<1>3. Owned(s, u)
  <2> SUFFICES ASSUME NEW i \in DOMAIN s, NEW name \in Name,
                      ForFree(s[i].prefix \o name), s[i].prefix \o name \in DOMAIN u
               PROVE  u[s[i].prefix \o name].scope = s[i].id
    BY DEF Owned
  <2> DEFINE key == s[i].prefix \o name
  <2>1. CASE key \in DOMAIN t
    BY <2>1 DEF ScopesOK, Owned, Grown
  <2>2. CASE key \notin DOMAIN t
    <3>1. s[i].prefix \in Seq(Atom) /\ Separated(s[i].prefix)
      BY DEF Spelled
    <3>2. ForFree(s[i].prefix) /\ \E j \in DOMAIN s : s[j].prefix = s[i].prefix /\ u[key].scope = s[j].id
      BY <1>2, <2>2, <3>1
    <3> HIDE DEF key
    <3>3. u[key].scope = s[i].id
      BY <3>2 DEF ScopesOK, FramesOK, OneScope
    <3> QED BY <3>3 DEF key
  <2> QED BY <2>1, <2>2
<1>4. ElseFree(s, u)
  <2> SUFFICES ASSUME NEW i \in DOMAIN s, NEW name \in Name, s[i].kind = "then",
                      ForFree(ElsePrefix(s[i].prefix) \o name),
                      ElsePrefix(s[i].prefix) \o name \in DOMAIN u
               PROVE  FALSE
    BY DEF ElseFree
  <2> DEFINE p == ElsePrefix(s[i].prefix)
  <2>1. p \o name \notin DOMAIN t
    BY DEF ScopesOK, ElseFree
  <2>2. s[i].prefix \in Seq(Atom)
    BY DEF Spelled
  <2>3. p \in Seq(Atom) /\ Separated(p)
    BY <2>2, PrefixIsKey, LabelsArePlaced
  <2>4. ForFree(p) => ForFree(s[i].prefix)
    BY <2>2, LabelAtoms DEF ForFree
  <2> HIDE DEF p
  <2>5. ForFree(p) /\ \E j \in DOMAIN s : s[j].prefix = p
    BY <1>2, <2>1, <2>3 DEF p
  <2> QED BY <2>4, <2>5 DEF p, ScopesOK, FramesOK, ElseAhead
<1>5. Unlabelled(s, u, n)
  <2> SUFFICES ASSUME NEW m \in Ahead(s, n), NEW key \in DOMAIN u, ForFree(key)
               PROVE  Position[m] \notin ToSet(key)
    BY DEF ScopesOK, Unlabelled
  <2>1. CASE key \in DOMAIN t
    BY <2>1 DEF ScopesOK, Unlabelled
  <2>2. CASE key \notin DOMAIN t
    <3>1. PICK i \in DOMAIN s, x \in Name : key = s[i].prefix \o x
      BY <2>2 DEF Grown
    <3>2. /\ s[i].prefix \in Seq(Atom) /\ x \in Seq(Atom)
          /\ ToSet(key) = ToSet(s[i].prefix) \cup ToSet(x) /\ ForFree(s[i].prefix)
      BY <1>1, <3>1, ConcatAtoms DEF Spelled
    <3>3. Position[m] \in Placed
      BY DEF Ahead, Placed
    <3>4. Position[m] \notin ToSet(x)
      BY <3>3, PlacesApart
    <3>5. Position[m] \notin ToSet(s[i].prefix)
      BY <3>2 DEF ScopesOK, Unlabelled
    <3> QED BY <3>2, <3>4, <3>5
  <2> QED BY <2>1, <2>2
<1> QED BY <1>3, <1>4, <1>5 DEF ScopesOK

(* The index of a frame that is pushed.                                    *)
LEMMA PushedIndex ==
  \A l \in Nat : l >= 1 =>
    /\ l \in 1..l /\ l + 1 \in 1..(l + 1) /\ (l + 1) - 1 = l /\ 1 \in 1..l
    /\ \A i \in 1..(l + 1) : i \in 1..l \/ i = l + 1
    /\ \A i \in 1..l : i \in 1..(l + 1) /\ i \in 1..i /\ \A j \in 1..i : j \in 1..l
    /\ \A i \in 1..l : i \in 1..(l + 1)
OBVIOUS

Pushed(s, f, u, l) ==
  /\ l \in Nat /\ l >= 1 /\ DOMAIN s = 1..l /\ DOMAIN u = 1..(l + 1)
  /\ \A i \in 1..l : u[i] = s[i] /\ s[i] \in Frame
  /\ u[l + 1] = f /\ Last(s) = s[l]

LEMMA PushedFacts ==
  ASSUME NEW s \in Seq(Frame), s # << >>, NEW f \in Frame
  PROVE  Pushed(s, f, Append(s, f), Len(s))
<1>1. Len(s) \in Nat /\ Len(s) >= 1 /\ DOMAIN s = 1..Len(s) /\ Last(s) = s[Len(s)]
  BY FrontFacts
<1>2. /\ DOMAIN Append(s, f) = 1..(Len(s) + 1)
      /\ \A i \in 1..Len(s) : Append(s, f)[i] = s[i]
      /\ Append(s, f)[Len(s) + 1] = f
  BY AppendFacts
<1>3. \A i \in 1..Len(s) : s[i] \in Frame
  BY <1>1, ElementOfSeq
<1> QED BY <1>1, <1>2, <1>3 DEF Pushed

(* An expression is entered.                                               *)
LEMMA ExprScopes ==
  ASSUME NEW s \in Seq(Frame), s # << >>, NEW t, NEW n \in Nat, ScopesOK(s, t, n),
         NEW f \in Frame, f.kind \in ExprKinds, f.prefix = Last(s).prefix, f.id = Last(s).id,
         f.node = n + 1
  PROVE  ScopesOK(Append(s, f), t, n + 1)
<1> DEFINE u == Append(s, f)
           l == Len(s)
<1>1. /\ l \in Nat /\ l >= 1 /\ DOMAIN s = 1..l /\ DOMAIN u = 1..(l + 1)
      /\ \A i \in 1..l : u[i] = s[i] /\ s[i] \in Frame
      /\ u[l + 1] = f /\ f.prefix = s[l].prefix /\ f.id = s[l].id
  <2>1. Pushed(s, f, u, l)
    BY PushedFacts DEF u, l
  <2> HIDE DEF u, l
  <2> QED BY <2>1 DEF Pushed
<1> HIDE DEF u, l
<1>2. /\ l \in 1..l /\ l + 1 \in 1..(l + 1) /\ (l + 1) - 1 = l /\ 1 \in 1..l
      /\ \A i \in 1..(l + 1) : i \in 1..l \/ i = l + 1
      /\ \A i \in 1..l : i \in 1..(l + 1)
  BY <1>1, PushedIndex
<1>3. f.kind \notin BodyKinds /\ f.kind # "then"
  BY KindsDisjoint DEF ExprKinds
<1>4. \A i \in DOMAIN u : \E j \in DOMAIN s :
        /\ u[i].prefix = s[j].prefix /\ u[i].id = s[j].id
        /\ (u[i].kind \in BodyKinds \/ u[i].kind = "then") => i = j /\ u[i] = s[i]
  BY <1>1, <1>2, <1>3
<1>5. Chained(u)
  <2> SUFFICES ASSUME NEW i \in DOMAIN u, u[i].kind \in ExprKinds
               PROVE  i - 1 \in DOMAIN u /\ u[i].prefix = u[i - 1].prefix /\ u[i].id = u[i - 1].id
    BY DEF Chained
  <2>1. CASE i \in 1..l
    <3>1. i - 1 \in DOMAIN s /\ s[i].prefix = s[i - 1].prefix /\ s[i].id = s[i - 1].id
      BY <1>1, <2>1 DEF ScopesOK, FramesOK, Chained
    <3> QED BY <1>1, <1>2, <2>1, <3>1
  <2>2. CASE i = l + 1
    BY <1>1, <1>2, <2>2
  <2> QED BY <1>1, <1>2, <2>1, <2>2
<1>6. OneScope(u)
  BY <1>4 DEF ScopesOK, FramesOK, OneScope
<1>7. LabelsOpen(u)
  <2> SUFFICES ASSUME NEW i \in DOMAIN u, NEW k \in DOMAIN u[i].prefix, u[i].prefix[k] = ":"
               PROVE  \E j \in 1..i : u[j].prefix = SubSeq(u[i].prefix, 1, k)
    BY DEF LabelsOpen, Reached
  <2>1. PICK h \in 1..l : h \in 1..i /\ u[i].prefix = s[h].prefix
    <3>1. CASE i \in 1..l
      <4>1. i \in 1..i
        BY <3>1
      <4> QED BY <1>1, <3>1, <4>1
    <3>2. CASE i = l + 1
      <4>1. l \in 1..i
        BY <1>1, <3>2
      <4> QED BY <1>1, <1>2, <3>2, <4>1
    <3> QED BY <1>1, <1>2, <3>1, <3>2
  <2>2. PICK j \in 1..h : s[j].prefix = SubSeq(s[h].prefix, 1, k)
    BY <1>1, <2>1 DEF ScopesOK, FramesOK, LabelsOpen, Reached
  <2>3. j \in 1..i /\ j \in 1..l
    <3>1. h \in Nat /\ i \in Nat /\ h <= i /\ h <= l
      BY <1>1, <2>1
    <3> QED BY <1>1, <3>1
  <2> QED BY <1>1, <2>1, <2>2, <2>3
<1>8. ElseAhead(u)
  BY <1>4 DEF ScopesOK, FramesOK, ElseAhead
<1>9. ThenEnds(u)
  <2>1. \A i \in DOMAIN u : u[i].kind = "then" => i \in DOMAIN s /\ u[i] = s[i]
    BY <1>4
  <2> QED BY <2>1 DEF ScopesOK, FramesOK, ThenEnds
<1>10. Grounded(u)
  BY <1>1, <1>2 DEF ScopesOK, FramesOK, Grounded
<1>11. CondsSeen(u, n + 1)
  <2> SUFFICES ASSUME NEW i \in DOMAIN u, IsCond(u[i]) PROVE u[i].node <= n + 1
    BY DEF CondsSeen
  <2>1. CASE i \in 1..l
    <3>1. s[i].node \in Nat
      BY <1>1, <2>1 DEF Frame
    <3>2. s[i].node <= n
      BY <1>1, <2>1 DEF ScopesOK, FramesOK, CondsSeen
    <3>3. s[i].node <= n + 1
      BY <3>1, <3>2
    <3> QED BY <1>1, <2>1, <3>3
  <2>2. CASE i = l + 1
    BY <1>1, <2>2
  <2> QED BY <1>1, <1>2, <2>1, <2>2
<1>12. Owned(u, t)
  BY <1>4 DEF ScopesOK, Owned
<1>13. ElseFree(u, t)
  BY <1>4 DEF ScopesOK, ElseFree
<1>14. Ahead(u, n + 1) \subseteq Ahead(s, n)
  <2>1. \A k \in 1..MaxNodes : k >= n + 1 => k > n
    BY BoundAssumption
  <2>2. \A k \in 1..MaxNodes : k > n + 1 => k >= n + 1
    BY BoundAssumption
  <2>3. n + 1 >= n + 1
    OBVIOUS
  <2> QED BY <1>1, <1>2, <2>1, <2>2, <2>3 DEF Ahead
<1>15. Unlabelled(u, t, n + 1)
  BY <1>4, <1>14 DEF ScopesOK, Unlabelled
<1> QED BY <1>5, <1>6, <1>7, <1>8, <1>9, <1>10, <1>11, <1>12, <1>13, <1>15 DEF ScopesOK, FramesOK, u

(* The prefixes of the else branches.                                      *)
LEMMA ElseFacts ==
  ASSUME NEW p \in Seq(Atom), NEW q \in Seq(Atom)
  PROVE  /\ ElsePrefix(p) \in Seq(Atom) /\ Last(ElsePrefix(p)) = ":"
         /\ ElsePrefix(p) = ElsePrefix(q) => p = q
         /\ ForFree(ElsePrefix(p)) <=> ForFree(p)
<1> DEFINE t == << "else", ":" >>
<1>1. t \in Seq(Atom) /\ t # << >> /\ Last(t) = ":"
  <2>1. "else" \in Atom /\ ":" \in Atom
    BY WordAssumption DEF Word
  <2>2. t \in Seq(Atom)
    BY <2>1, ShortSeq, Zenon
  <2>3. Len(t) = 2 /\ t # << >> /\ t[2] = ":"
    OBVIOUS
  <2> QED BY <2>2, <2>3 DEF Last
<1>2. ElsePrefix(p) = p \o t /\ ElsePrefix(q) = q \o t
  BY DEF ElsePrefix
<1> HIDE DEF t
<1>3. Last(p \o t) = ":" /\ p \o t \in Seq(Atom)
  BY <1>1, ConcatEnds
<1>4. p \o t = q \o t => p = q
  BY <1>1, ConcatSimplifications, Zenon
<1>5. ForFree(ElsePrefix(p)) <=> ForFree(p)
  BY LabelAtoms DEF ForFree
<1> QED BY <1>2, <1>3, <1>4, <1>5

(* A body is entered under a prefix that has not been in use.              *)
ReachedBelow(s, p) ==
  \A k \in DOMAIN p : p[k] = ":" /\ k # Len(p) => \E j \in DOMAIN s : s[j].prefix = SubSeq(p, 1, k)

Unused(s, t, n, f) ==
  /\ \A i \in DOMAIN s :
       /\ s[i].prefix # f.prefix
       /\ s[i].kind = "then" => f.prefix # ElsePrefix(s[i].prefix)
       /\ f.kind = "then" => s[i].prefix # ElsePrefix(f.prefix)
  /\ \A name \in Name :
       /\ ForFree(f.prefix \o name) => f.prefix \o name \notin DOMAIN t
       /\ f.kind = "then" /\ ForFree(ElsePrefix(f.prefix) \o name) =>
            ElsePrefix(f.prefix) \o name \notin DOMAIN t
  /\ \A m \in Ahead(s, n) : Position[m] \notin ToSet(f.prefix)

LEMMA BodyScopes ==
  ASSUME NEW s \in Seq(Frame), s # << >>, NEW t, NEW n, ScopesOK(s, t, n),
         NEW f \in Frame, f.kind \in BodyKinds, ReachedBelow(s, f.prefix),
         f.kind = "then" => f.prefix # << >> /\ Last(f.prefix) = "_",
         ForFree(f.prefix) => Unused(s, t, n, f)
  PROVE  ScopesOK(Append(s, f), t, n)
<1> DEFINE u == Append(s, f)
           l == Len(s)
<1>1. /\ l \in Nat /\ l >= 1 /\ DOMAIN s = 1..l /\ DOMAIN u = 1..(l + 1)
      /\ \A i \in 1..l : u[i] = s[i] /\ s[i] \in Frame
      /\ u[l + 1] = f
  <2>1. Pushed(s, f, u, l)
    BY PushedFacts DEF u, l
  <2> HIDE DEF u, l
  <2> QED BY <2>1 DEF Pushed
<1> HIDE DEF u, l
<1>2. l \in 1..l /\ l + 1 \in 1..(l + 1) /\ 1 \in 1..l
      /\ \A i \in 1..l : i \in 1..(l + 1)
  BY <1>1, PushedIndex
<1>3. \A i \in DOMAIN u : \/ i \in DOMAIN s /\ u[i] = s[i]
                          \/ i = l + 1 /\ u[i] = f
  <2>1. \A i \in 1..(l + 1) : i \in 1..l \/ i = l + 1
    BY <1>1, PushedIndex
  <2> QED BY <1>1, <2>1
<1>4. f.kind \notin ExprKinds /\ ~IsCond(f) /\ f.prefix \in Seq(Atom)
  BY KindsDisjoint DEF Frame, IsCond, ExprKinds
<1>5. \A i \in DOMAIN s : s[i].prefix \in Seq(Atom)
  BY <1>1 DEF Frame
<1>6. \A name \in Name : name \in Seq(Atom)
  BY NameAssumption
<1>7. Chained(u)
  <2> SUFFICES ASSUME NEW i \in DOMAIN u, u[i].kind \in ExprKinds
               PROVE  i - 1 \in DOMAIN u /\ u[i].prefix = u[i - 1].prefix /\ u[i].id = u[i - 1].id
    BY DEF Chained
  <2>1. i \in DOMAIN s /\ u[i] = s[i]
    BY <1>3, <1>4
  <2>2. i - 1 \in DOMAIN s /\ s[i].prefix = s[i - 1].prefix /\ s[i].id = s[i - 1].id
    BY <2>1 DEF ScopesOK, FramesOK, Chained
  <2> QED BY <1>1, <1>2, <2>1, <2>2
<1>8. OneScope(u)
  <2> SUFFICES ASSUME NEW i \in DOMAIN u, NEW j \in DOMAIN u, ForFree(u[i].prefix),
                      u[i].prefix = u[j].prefix
               PROVE  /\ u[i].id = u[j].id
                      /\ u[i].kind \in BodyKinds /\ u[j].kind \in BodyKinds => i = j
    BY DEF OneScope
  <2>1. CASE i \in DOMAIN s /\ u[i] = s[i] /\ j \in DOMAIN s /\ u[j] = s[j]
    BY <2>1 DEF ScopesOK, FramesOK, OneScope
  <2>2. CASE i = l + 1 /\ u[i] = f /\ j = l + 1
    BY <2>2
  <2>3. CASE i = l + 1 /\ u[i] = f /\ j \in DOMAIN s /\ u[j] = s[j]
    BY <2>3 DEF Unused
  <2>4. CASE j = l + 1 /\ u[j] = f /\ i \in DOMAIN s /\ u[i] = s[i]
    BY <2>4 DEF Unused
  <2> QED BY <1>3, <2>1, <2>2, <2>3, <2>4
<1>9. LabelsOpen(u)
  <2> SUFFICES ASSUME NEW i \in DOMAIN u, NEW k \in DOMAIN u[i].prefix, u[i].prefix[k] = ":"
               PROVE  \E j \in 1..i : u[j].prefix = SubSeq(u[i].prefix, 1, k)
    BY DEF LabelsOpen, Reached
  <2>1. CASE i \in DOMAIN s /\ u[i] = s[i]
    <3>1. PICK j \in 1..i : s[j].prefix = SubSeq(s[i].prefix, 1, k)
      BY <2>1 DEF ScopesOK, FramesOK, LabelsOpen, Reached
    <3>2. j \in 1..l
      BY <1>1, <2>1, PushedIndex
    <3> QED BY <1>1, <2>1, <3>1, <3>2
  <2>2. CASE i = l + 1 /\ u[i] = f
    <3>1. CASE k = Len(f.prefix)
      <4>1. SubSeq(f.prefix, 1, k) = f.prefix
        BY <1>4, <3>1, SubSeqFull
      <4>2. i \in 1..i
        BY <1>1, <2>2
      <4> QED BY <2>2, <4>1, <4>2
    <3>2. CASE k # Len(f.prefix)
      <4>1. PICK j \in DOMAIN s : s[j].prefix = SubSeq(f.prefix, 1, k)
        BY <2>2, <3>2 DEF ReachedBelow
      <4>2. j \in 1..i /\ u[j] = s[j]
        BY <1>1, <1>2, <2>2
      <4> QED BY <2>2, <4>1, <4>2
    <3> QED BY <3>1, <3>2
  <2> QED BY <1>3, <2>1, <2>2
<1>10. ElseAhead(u)
  <2> SUFFICES ASSUME NEW i \in DOMAIN u, NEW j \in DOMAIN u, u[i].kind = "then",
                      ForFree(u[i].prefix), u[j].prefix = ElsePrefix(u[i].prefix)
               PROVE  FALSE
    BY DEF ElseAhead
  <2>1. CASE i \in DOMAIN s /\ u[i] = s[i] /\ j \in DOMAIN s /\ u[j] = s[j]
    BY <2>1 DEF ScopesOK, FramesOK, ElseAhead
  <2>2. CASE i = l + 1 /\ u[i] = f /\ u[j] = f
    <3>1. Last(f.prefix) = "_"
      BY <2>2
    <3>2. Last(ElsePrefix(f.prefix)) = ":"
      BY <1>4, ElseFacts
    <3> QED BY <2>2, <3>1, <3>2
  <2>3. CASE i = l + 1 /\ u[i] = f /\ j \in DOMAIN s /\ u[j] = s[j]
    BY <2>3 DEF Unused
  <2>4. CASE j = l + 1 /\ u[j] = f /\ i \in DOMAIN s /\ u[i] = s[i]
    <3>1. ForFree(ElsePrefix(s[i].prefix)) /\ s[i].prefix \in Seq(Atom)
      BY <1>5, <2>4, ElseFacts, Zenon
    <3>2. ForFree(f.prefix)
      BY <2>4, <3>1
    <3> QED BY <2>4, <3>2 DEF Unused
  <2> QED BY <1>3, <2>1, <2>2, <2>3, <2>4
<1>11. ThenEnds(u)
  BY <1>3 DEF ScopesOK, FramesOK, ThenEnds
<1>12. Grounded(u)
  BY <1>1, <1>2 DEF ScopesOK, FramesOK, Grounded
<1>13. CondsSeen(u, n)
  BY <1>3, <1>4 DEF ScopesOK, FramesOK, CondsSeen
<1>14. Owned(u, t)
  <2> SUFFICES ASSUME NEW i \in DOMAIN u, NEW name \in Name,
                      ForFree(u[i].prefix \o name), u[i].prefix \o name \in DOMAIN t
               PROVE  t[u[i].prefix \o name].scope = u[i].id
    BY DEF Owned
  <2>1. CASE i \in DOMAIN s /\ u[i] = s[i]
    BY <2>1 DEF ScopesOK, Owned
  <2>2. CASE i = l + 1 /\ u[i] = f
    <3>1. ForFree(f.prefix)
      BY <1>4, <1>6, <2>2, ConcatAtoms
    <3> QED BY <2>2, <3>1 DEF Unused
  <2> QED BY <1>3, <2>1, <2>2
<1>15. ElseFree(u, t)
  <2> SUFFICES ASSUME NEW i \in DOMAIN u, NEW name \in Name, u[i].kind = "then",
                      ForFree(ElsePrefix(u[i].prefix) \o name)
               PROVE  ElsePrefix(u[i].prefix) \o name \notin DOMAIN t
    BY DEF ElseFree
  <2>1. CASE i \in DOMAIN s /\ u[i] = s[i]
    BY <2>1 DEF ScopesOK, ElseFree
  <2>2. CASE i = l + 1 /\ u[i] = f
    <3>1. ElsePrefix(f.prefix) \in Seq(Atom) /\ (ForFree(ElsePrefix(f.prefix)) <=> ForFree(f.prefix))
      BY <1>4, ElseFacts
    <3>2. ForFree(f.prefix)
      BY <1>6, <2>2, <3>1, ConcatAtoms
    <3> QED BY <2>2, <3>2 DEF Unused
  <2> QED BY <1>3, <2>1, <2>2
<1>16. Ahead(u, n) \subseteq Ahead(s, n)
  BY <1>3, <1>4 DEF Ahead
<1>17. Unlabelled(u, t, n)
  BY <1>3, <1>16 DEF ScopesOK, Unlabelled, Unused
<1> QED BY <1>7, <1>8, <1>9, <1>10, <1>11, <1>12, <1>13, <1>14, <1>15, <1>17
        DEF ScopesOK, FramesOK, u

-----------------------------------------------------------------------------
(* The frames of a state of the analysis.                                  *)

LEMMA FramesSpelled ==
  ASSUME NEW s, NEW keys, WellStacked(s, keys), NEW t, NEW sig, BodiesOpen(s, t, sig)
  PROVE  Spelled(s)
<1>1. \A i \in DOMAIN s : s[i] \in Frame
  BY ElementOfSeq DEF WellStacked
<1> QED BY <1>1 DEF Spelled, BodiesOpen, FrameOpen, Frame

LEMMA FramesRooted ==
  ASSUME Inv, Base, NEW i \in DOMAIN frames
  PROVE  PrefixRooted(table, frames[i].prefix)
<1> DEFINE p == frames[i].prefix
<1>1. p \in Seq(Atom)
  BY InvFacts, FramesSpelled DEF Base, Spelled
<1>2. OpenBody(p, table, signature) \/ Labelled(p)
  BY DEF Base, BodiesOpen, FrameOpen
<1> HIDE DEF p
<1>3. OpenBody(p, table, signature) => PrefixRooted(table, p)
  BY DEF OpenBody, PrefixRooted, Rooted
<1>4. Labelled(p) => PrefixRooted(table, p)
  BY <1>1, LabelRooted
<1> QED BY <1>2, <1>3, <1>4 DEF p

(* What the steps that define no function do to the scopes of symbols.     *)
LEMMA InsertGrows ==
  ASSUME NEW s, NEW t, NEW key, NEW symbol,
         ForFree(key) => \E i \in DOMAIN s, name \in Name :
           key = s[i].prefix \o name /\ symbol.scope = s[i].id
  PROVE  Grown(s, t, Insert(t, key, symbol))
<1> DEFINE u == Insert(t, key, symbol)
<1>1. /\ DOMAIN u = DOMAIN t \cup {key}
      /\ \A k \in DOMAIN t : u[k] = t[k]
      /\ key \notin DOMAIN t => u[key] = symbol
  BY DEF Insert, Merge
<1> HIDE DEF u
<1>2. Grown(s, t, u)
  BY <1>1 DEF Grown
<1> QED BY <1>2 DEF u

LEMMA RetypeGrows ==
  ASSUME NEW s, NEW t, TableOK(t), NEW key \in DOMAIN t, NEW type
  PROVE  Grown(s, t, [t EXCEPT ![key].type = type])
<1> DEFINE u == [t EXCEPT ![key].type = type]
<1>1. DOMAIN u = DOMAIN t
  OBVIOUS
<1>2. ASSUME NEW f \in DOMAIN t
      PROVE  u[f].scope = t[f].scope
  <2>1. t[f] \in Symbol
    BY DEF TableOK
  <2>2. u[f] = t[f] \/ u[f] = [t[f] EXCEPT !.type = type]
    OBVIOUS
  <2> QED BY <2>1, <2>2 DEF Symbol
<1> HIDE DEF u
<1>3. Grown(s, t, u)
  BY <1>1, <1>2 DEF Grown
<1> QED BY <1>3 DEF u

LEMMA TableGrows ==
  ASSUME Inv, Grounded(frames), [Next]_vars,
         \A name \in Name, params \in ParamList : ~FunctionDef(name, params)
  PROVE  Grown(frames, table, table')
<1> USE DEF ghosts
<1>0. Len(frames) \in DOMAIN frames /\ Top = frames[Len(frames)]
  BY InvFacts, StackFacts, TopFacts
<1>1. CASE table' = table
  BY <1>1 DEF Grown
<1>2. ASSUME NEW isComparison \in BOOLEAN, BinaryOp(isComparison), table' # table
      PROVE  Grown(frames, table, table')
  <2> DEFINE use == Top.vals[Len(Top.vals) - 1].use
             key == Lookup(table, Top.prefix, use)
  <2>1. key # NoKey /\ \E type : table' = [table EXCEPT ![key].type = type]
    BY <1>2 DEF BinaryOp, Crash
  <2>2. PICK type : table' = [table EXCEPT ![key].type = type]
    BY <2>1
  <2> HIDE DEF use
  <2>3. key \in DOMAIN table
    BY <2>1, InvFacts, TopFacts, LookupFinds
  <2> HIDE DEF key
  <2> QED BY <2>2, <2>3, InvFacts, RetypeGrows
<1>3. ASSUME FinishReturn, table' # table
      PROVE  Grown(frames, table, table')
  <2>0. PICK k \in ReturnTargets(table, Top.prefix) :
          \E type : table' = [table EXCEPT ![k].type = type]
    BY <1>3 DEF FinishReturn, Crash
  <2>1. PICK type : table' = [table EXCEPT ![k].type = type]
    BY <2>0
  <2>2. k \in DOMAIN table
    BY DEF ReturnTargets
  <2> QED BY <2>1, <2>2, InvFacts, RetypeGrows
<1>4. ASSUME FinishLet, table' # table
      PROVE  Grown(frames, table, table')
  <2>1. PICK type : table' = Insert(table, Top.prefix \o Top.name, Variable(type, Top.id))
    BY <1>4 DEF FinishLet
  <2>2. Top.name \in Name
    BY <1>4, TopFacts DEF FinishLet, FrameOK
  <2>3. Variable(type, Top.id).scope = Top.id
    BY DEF Variable
  <2>4. \E i \in DOMAIN frames, name \in Name :
          Top.prefix \o Top.name = frames[i].prefix \o name /\ Variable(type, Top.id).scope = frames[i].id
    BY <1>0, <2>2, <2>3
  <2> QED BY <2>1, <2>4, InsertGrows
<1>5. ASSUME NEW name \in Name, For(name)
      PROVE  Grown(frames, table, table')
  <2> DEFINE prefix == ForPrefix(Top.prefix)
             symbol == Variable("Int", nodes + 1)
  <2>1. table' = Insert(table, prefix \o name, symbol)
    BY <1>5 DEF For
  <2>2. prefix \in Seq(Atom) /\ ~ForFree(prefix)
    BY TopFacts, PrefixIsKey, LabelAtoms DEF ForFree
  <2> HIDE DEF prefix, symbol
  <2>3. ~ForFree(prefix \o name)
    BY <2>2, NameAssumption, ConcatAtoms
  <2> QED BY <2>1, <2>3, InsertGrows
<1>6. ASSUME NEW name \in Name, NEW params \in ParamList, NEW type \in DeclaredType,
             Extern(name, params, type)
      PROVE  Grown(frames, table, table')
  <2> DEFINE symbol == Function(type, << >>, 0, params)
  <2>1. table' = Insert(table, name, symbol)
    BY <1>6 DEF Extern
  <2>2. symbol.scope = 0
    BY DEF Function
  <2> HIDE DEF symbol
  <2>3. name = << >> \o name
    BY NameAssumption, ConcatEmptySeq
  <2>4. \E i \in DOMAIN frames, x \in Name :
          name = frames[i].prefix \o x /\ symbol.scope = frames[i].id
    BY <2>2, <2>3 DEF Grounded
  <2> QED BY <2>1, <2>4, InsertGrows
<1>7. \/ table' = table
      \/ \E isComparison \in BOOLEAN : BinaryOp(isComparison)
      \/ FinishReturn \/ FinishLet
      \/ \E name \in Name : For(name)
      \/ \E name \in Name, params \in ParamList, type \in DeclaredType : Extern(name, params, type)
  BY DEF Next, vars, Crash, Halted, OperandStep, DeclarationStep, ControlStep,
       Literal, NullOperand, Collection, VariableUse, LetClash, Let, Return,
       Call, FinishCall, FunctionClash, EndFunction, If, FinishIfCond, Else,
       EndIf, While, FinishWhileCond, EndLoop, Break, CollectionOverride, Main, Finish
<1> QED BY <1>1, <1>2, <1>3, <1>4, <1>5, <1>6, <1>7

-----------------------------------------------------------------------------
(* The steps.                                                              *)

LEMMA Shapes ==
  ASSUME NEW s, NEW keys, WellStacked(s, keys)
  PROVE  /\ Shape(s, s)
         /\ Last(s).kind # "program" => Shape(s, Front(s))
         /\ \A vals : Shape(s, [s EXCEPT ![Len(s)].vals = vals])
<1> DEFINE l == Len(s)
<1>1. l \in Nat /\ l >= 1 /\ DOMAIN s = 1..l /\ Last(s) = s[l] /\ Last(s) \in Frame
  BY FrontFacts DEF WellStacked
<1>2. DOMAIN Front(s) = 1..(l - 1) /\ \A i \in 1..(l - 1) : Front(s)[i] = s[i]
  BY StackFacts
<1>3. Last(s).kind # "program" => l # 1
  BY <1>1 DEF WellStacked
<1>4. /\ l >= 1 /\ 1..l \subseteq 1..l
      /\ l # 1 => l - 1 \in Nat /\ l - 1 >= 1 /\ 1..(l - 1) \subseteq 1..l
  <2>1. l \in Nat /\ l >= 1
    BY <1>1
  <2> HIDE DEF l
  <2> QED BY <2>1
<1>5. Shape(s, s)
  BY <1>1, <1>4 DEF Shape, SameFrame
<1>6. ASSUME Last(s).kind # "program" PROVE Shape(s, Front(s))
  <2>1. l - 1 \in Nat /\ l - 1 >= 1 /\ 1..(l - 1) \subseteq DOMAIN s
    BY <1>1, <1>3, <1>4, <1>6
  <2> HIDE DEF l
  <2>2. \A i \in 1..(l - 1) : SameFrame(Front(s)[i], s[i])
    BY <1>2 DEF SameFrame
  <2> QED BY <1>2, <2>1, <2>2 DEF Shape
<1>7. ASSUME NEW vals PROVE Shape(s, [s EXCEPT ![l].vals = vals])
  <2> DEFINE u == [s EXCEPT ![l].vals = vals]
  <2> HIDE DEF l
  <2>1. DOMAIN u = 1..l
    BY <1>1
  <2>2. \A i \in 1..l : u[i] = s[i] \/ (u[i] = [s[l] EXCEPT !.vals = vals] /\ i = l)
    BY <1>1
  <2>3. s[l] \in Frame
    BY <1>1
  <2>4. SameFrame([s[l] EXCEPT !.vals = vals], s[l])
    BY <2>3 DEF Frame, SameFrame
  <2>5. \A i \in 1..l : SameFrame(u[i], s[i])
    BY <2>2, <2>4 DEF SameFrame
  <2> HIDE DEF u
  <2>6. Shape(s, u)
    BY <1>1, <1>4, <2>1, <2>5 DEF Shape
  <2> QED BY <2>6 DEF u
<1> QED BY <1>5, <1>6, <1>7

LEMMA ShapeOfShape ==
  ASSUME NEW s, NEW u, NEW w, Shape(s, u), Shape(u, w)
  PROVE  Shape(s, w)
<1>1. PICK l \in Nat : /\ l >= 1 /\ DOMAIN u = 1..l /\ 1..l \subseteq DOMAIN s
                       /\ \A i \in 1..l : SameFrame(u[i], s[i])
  BY DEF Shape
<1>2. PICK m \in Nat : /\ m >= 1 /\ DOMAIN w = 1..m /\ 1..m \subseteq DOMAIN u
                       /\ \A i \in 1..m : SameFrame(w[i], u[i])
  BY DEF Shape
<1>3. 1..m \subseteq DOMAIN s /\ \A i \in 1..m : SameFrame(w[i], s[i])
  BY <1>1, <1>2 DEF SameFrame
<1> QED BY <1>2, <1>3 DEF Shape

(* The steps, by what they do to the frames.                               *)
Enters ==
  \E kind \in ExprKinds, name \in Name \cup {NoName}, type \in Type \cup {NoType} :
    /\ kind = "let" => name \in Name
    /\ nodes < MaxNodes /\ nodes' = nodes + 1 /\ Push(ExprFrame(kind, name, type))
Leaves == Top.kind # "program" /\ nodes' = nodes /\ Pop
Delivers == Top.kind = "call" /\ nodes' = nodes /\ \E v : Deliver(v)
Reads ==
  nodes' \in {nodes, nodes + 1} /\ \E vals : frames' = [frames EXCEPT ![Len(frames)].vals = vals]
Stays == nodes' \in {nodes, nodes + 1} /\ frames' = frames
Branches ==
  \/ /\ Top.kind = "ifCond" /\ nodes' = nodes
     /\ frames' = Append(Below, BodyFrame("then", IfPrefix(Top.prefix, Top.node), Top.node))
  \/ /\ Top.kind = "whileCond" /\ nodes' = nodes
     /\ frames' = Append(Below, BodyFrame("while", WhilePrefix(Top.prefix, Top.node), Top.node))

LEMMA OperandShapes ==
  ASSUME Inv, OperandStep
  PROVE  Reads \/ Stays
<1> USE DEF ghosts
<1>0. /\ frames[Len(frames)] = Top /\ Len(frames) \in DOMAIN frames
  BY InvFacts, StackFacts, TopFacts
<1>1. ASSUME NEW v, PushValue(v)
      PROVE  \E vals : frames' = [frames EXCEPT ![Len(frames)].vals = vals]
  <2>1. frames' = [frames EXCEPT ![Len(frames)].vals = Append(frames[Len(frames)].vals, v)]
    BY <1>0, <1>1 DEF PushValue
  <2> QED BY <2>1
<1>2. CASE \E type \in LiteralType : Literal(type)
  BY <1>1, <1>2 DEF Literal, AtOperand, Reads
<1>3. CASE NullOperand
  BY <1>1, <1>3 DEF NullOperand, AtOperand, Reads
<1>4. CASE \E mixed \in BOOLEAN : Collection(mixed)
  BY <1>1, <1>4 DEF Collection, AtOperand, Reads
<1>5. CASE \E name \in Name : VariableUse(name)
  BY <1>1, <1>5 DEF VariableUse, AtOperand, Reads
<1>6. ASSUME NEW isComparison \in BOOLEAN, BinaryOp(isComparison)
      PROVE  Reads \/ Stays
  <2>1. \/ nodes' = nodes /\ frames' = frames
        \/ nodes' = nodes /\ \E e : frames' = [frames EXCEPT ![Len(frames)].vals =
                                      Append(SubSeq(@, 1, Len(Top.vals) - 2), e)]
    BY <1>6 DEF BinaryOp, Crash
  <2>2. ASSUME NEW e, frames' = [frames EXCEPT ![Len(frames)].vals =
                                      Append(SubSeq(@, 1, Len(Top.vals) - 2), e)]
        PROVE  \E vals : frames' = [frames EXCEPT ![Len(frames)].vals = vals]
    <3>1. frames' = [frames EXCEPT ![Len(frames)].vals =
                       Append(SubSeq(frames[Len(frames)].vals, 1, Len(Top.vals) - 2), e)]
      BY <2>2
    <3> QED BY <3>1
  <2> QED BY <2>1, <2>2 DEF Reads, Stays
<1> QED BY <1>2, <1>3, <1>4, <1>5, <1>6 DEF OperandStep

LEMMA DeclarationShapes ==
  ASSUME Inv, DeclarationStep
  PROVE  \/ Enters \/ Leaves \/ Delivers \/ Stays
         \/ \E name \in Name, params \in ParamList : FunctionDef(name, params)
<1> USE DEF ghosts
<1>1. {"let", "return", "ifCond", "whileCond", "call"} \subseteq ExprKinds
      /\ NoName \in Name \cup {NoName} /\ NoType \in Type \cup {NoType}
  BY DEF ExprKinds
<1>2. CASE \E name \in Name : LetClash(name) \/ FunctionClash(name)
  BY <1>2 DEF LetClash, FunctionClash, AtStatement, Stays
<1>3. ASSUME NEW name \in Name, NEW type \in DeclaredType \cup {NoType}, Let(name, type)
      PROVE  Enters
  <2>1. type \in Type \cup {NoType}
    BY TypeAssumption
  <2>2. nodes < MaxNodes /\ nodes' = nodes + 1 /\ Push(ExprFrame("let", name, type))
    BY <1>3 DEF Let, AtStatement
  <2> QED BY <1>1, <2>1, <2>2 DEF Enters
<1>4. CASE FinishLet
  BY <1>4 DEF FinishLet, Leaves
<1>5. CASE Return
  <2>1. nodes < MaxNodes /\ nodes' = nodes + 1 /\ Push(ExprFrame("return", NoName, NoType))
    BY <1>5 DEF Return, AtStatement
  <2> QED BY <1>1, <2>1 DEF Enters
<1>6. CASE FinishReturn
  BY <1>6 DEF FinishReturn, Crash, Leaves, Stays
<1>7. ASSUME NEW name \in Name, Call(name)
      PROVE  Enters
  <2>1. nodes < MaxNodes /\ nodes' = nodes + 1 /\ Push(ExprFrame("call", name, NoType))
    BY <1>7 DEF Call, AtStatement, AtOperand
  <2> QED BY <1>1, <2>1 DEF Enters
<1>8. CASE FinishCall
  BY <1>8 DEF FinishCall, Crash, Delivers, Stays
<1>9. CASE EndFunction
  BY <1>9 DEF EndFunction, Leaves
<1>10. CASE \E name \in Name, params \in ParamList, type \in DeclaredType : Extern(name, params, type)
  BY <1>10 DEF Extern, AtStatement, Stays
<1> QED BY <1>2, <1>3, <1>4, <1>5, <1>6, <1>7, <1>8, <1>9, <1>10 DEF DeclarationStep

LEMMA ControlShapes ==
  ASSUME Inv, ControlStep
  PROVE  Enters \/ Leaves \/ Stays \/ Branches \/ Else \/ \E name \in Name : For(name)
<1> USE DEF ghosts
<1>1. {"let", "return", "ifCond", "whileCond", "call"} \subseteq ExprKinds
      /\ NoName \in Name \cup {NoName} /\ NoType \in Type \cup {NoType}
  BY DEF ExprKinds
<1>2. CASE If
  <2>1. nodes < MaxNodes /\ nodes' = nodes + 1 /\ Push(ExprFrame("ifCond", NoName, NoType))
    BY <1>2 DEF If, AtStatement
  <2> QED BY <1>1, <2>1 DEF Enters
<1>3. CASE While
  <2>1. nodes < MaxNodes /\ nodes' = nodes + 1 /\ Push(ExprFrame("whileCond", NoName, NoType))
    BY <1>3 DEF While, AtStatement
  <2> QED BY <1>1, <2>1 DEF Enters
<1>4. CASE FinishIfCond
  BY <1>4 DEF FinishIfCond, Leaves, Branches
<1>5. CASE FinishWhileCond
  BY <1>5 DEF FinishWhileCond, Crash, Stays, Branches
<1>6. CASE EndIf
  BY <1>6 DEF EndIf, Leaves
<1>7. CASE EndLoop
  BY <1>7 DEF EndLoop, LoopKinds, Leaves
<1>8. CASE Break \/ Finish \/ Halted \/ \E isEmpty \in BOOLEAN : Main(isEmpty)
  BY <1>8 DEF Break, Finish, Halted, vars, Main, AtStatement, Stays
<1>9. CASE \E name \in Name : CollectionOverride(name)
  BY <1>9 DEF CollectionOverride, AtStatement, Stays
<1> QED BY <1>2, <1>3, <1>4, <1>5, <1>6, <1>7, <1>8, <1>9 DEF ControlStep

-----------------------------------------------------------------------------
(* Bodies are entered under new prefixes.                                  *)

LEMMA StartFacts ==
  ASSUME NEW w \in Seq(Atom), NEW k \in DOMAIN w
  PROVE  /\ SubSeq(w, 1, k) \in Seq(Atom) /\ Len(SubSeq(w, 1, k)) = k
         /\ \A i \in 1..k : SubSeq(w, 1, k)[i] = w[i]
         /\ k \in Nat /\ k >= 1 /\ k <= Len(w)
<1>1. k \in Nat /\ k >= 1 /\ k <= Len(w) /\ k - 1 + 1 = k /\ \A i \in 1..k : i \in 1..Len(w) /\ 1 + i - 1 = i
  <2>1. k \in 1..Len(w) /\ Len(w) \in Nat
    OBVIOUS
  <2>2. \A l \in Nat : \A j \in 1..l :
          /\ j \in Nat /\ j >= 1 /\ j <= l /\ j - 1 + 1 = j
          /\ \A i \in 1..j : i \in 1..l /\ 1 + i - 1 = i
    OBVIOUS
  <2> QED BY <2>1, <2>2, Zenon
<1>2. 1 \in Int /\ k \in Int /\ \A i \in 1..k : w[i] \in Atom
  BY <1>1
<1>3. /\ SubSeq(w, 1, k) \in Seq(Atom)
      /\ Len(SubSeq(w, 1, k)) = IF 1 <= k THEN k - 1 + 1 ELSE 0
      /\ \A i \in 1..(k - 1 + 1) : SubSeq(w, 1, k)[i] = w[1 + i - 1]
  BY <1>2, SubSeqProperties
<1> QED BY <1>1, <1>3

LEMMA SameStart ==
  ASSUME NEW w \in Seq(Atom), NEW v \in Seq(Atom), NEW k \in DOMAIN w, k \in DOMAIN v,
         \A i \in 1..k : w[i] = v[i]
  PROVE  SubSeq(w, 1, k) = SubSeq(v, 1, k)
<1>1. /\ SubSeq(w, 1, k) \in Seq(Atom) /\ Len(SubSeq(w, 1, k)) = k
      /\ \A i \in 1..k : SubSeq(w, 1, k)[i] = w[i]
  BY StartFacts
<1>2. /\ SubSeq(v, 1, k) \in Seq(Atom) /\ Len(SubSeq(v, 1, k)) = k
      /\ \A i \in 1..k : SubSeq(v, 1, k)[i] = v[i]
  BY StartFacts
<1> QED BY <1>1, <1>2, SeqEqual

(* Where the ':' of a label are.                                           *)
LEMMA ConcatParts ==
  ASSUME NEW p \in Seq(Atom), NEW q \in Seq(Atom), NEW k \in DOMAIN (p \o q), k # Len(p \o q)
  PROVE  \/ k \in DOMAIN p /\ (p \o q)[k] = p[k] /\ SubSeq(p \o q, 1, k) = SubSeq(p, 1, k)
         \/ \E j \in Nat : j >= 1 /\ j < Len(q) /\ (p \o q)[k] = q[j]
<1> DEFINE w == p \o q
           n == Len(p)
           m == Len(q)
<1>1. /\ n \in Nat /\ m \in Nat /\ Len(w) = n + m /\ DOMAIN w = 1..(n + m) /\ DOMAIN p = 1..n
      /\ \A i \in 1..(n + m) : w[i] = IF i <= n THEN p[i] ELSE q[i - n]
  BY ConcatProperties
<1>2. w \in Seq(Atom)
  BY ConcatProperties
<1>3. k \in 1..(n + m) /\ k # n + m
  BY <1>1
<1> HIDE DEF n, m, w
<1>4. CASE k <= n
  <2>1. k \in 1..n /\ w[k] = p[k]
    BY <1>1, <1>3, <1>4
  <2>2. \A i \in 1..k : i \in 1..(n + m) /\ i <= n /\ i \in 1..n
    BY <1>1, <1>3, <1>4
  <2>3. \A i \in 1..k : w[i] = p[i]
    BY <1>1, <2>2
  <2>4. SubSeq(w, 1, k) = SubSeq(p, 1, k)
    BY <1>1, <1>2, <1>3, <2>1, <2>3, SameStart
  <2> QED BY <1>1, <2>1, <2>4 DEF w
<1>5. CASE ~(k <= n)
  <2>1. k - n \in Nat /\ k - n >= 1 /\ k - n < m
    BY <1>1, <1>3, <1>5
  <2>2. w[k] = q[k - n]
    BY <1>1, <1>3, <1>5
  <2> QED BY <2>1, <2>2 DEF w, m
<1> QED BY <1>4, <1>5

LEMMA ReachedLabel ==
  ASSUME NEW s, NEW p \in Seq(Atom), NEW q \in Seq(Atom),
         \A j \in Nat : j >= 1 /\ j < Len(q) => q[j] # ":",
         \A k \in DOMAIN p : p[k] = ":" => \E j \in DOMAIN s : s[j].prefix = SubSeq(p, 1, k)
  PROVE  ReachedBelow(s, p \o q)
<1> SUFFICES ASSUME NEW k \in DOMAIN (p \o q), (p \o q)[k] = ":", k # Len(p \o q)
             PROVE  \E j \in DOMAIN s : s[j].prefix = SubSeq(p \o q, 1, k)
  BY DEF ReachedBelow
<1>1. k \in DOMAIN p /\ (p \o q)[k] = p[k] /\ SubSeq(p \o q, 1, k) = SubSeq(p, 1, k)
  BY ConcatParts
<1> QED BY <1>1

(* The labels of branches and loops.                                       *)
LEMMA LabelsReached ==
  ASSUME NEW s, NEW p \in Seq(Atom),
         \A k \in DOMAIN p : p[k] = ":" => \E j \in DOMAIN s : s[j].prefix = SubSeq(p, 1, k)
  PROVE  /\ ReachedBelow(s, ElsePrefix(p)) /\ ReachedBelow(s, ForPrefix(p))
         /\ \A n \in 1..MaxNodes : ReachedBelow(s, IfPrefix(p, n)) /\ ReachedBelow(s, WhilePrefix(p, n))
         /\ \A name \in Name : ReachedBelow(s, FunctionPrefix(p, name))
<1>1. {"_", ":", "if", "else", "while", "for"} \subseteq Atom
  BY WordAssumption DEF Word
<1>2. ASSUME NEW a \in Atom, NEW b \in Atom, a # ":", b # ":"
      PROVE  ReachedBelow(s, p \o << a, b, "_" >>)
  <2> DEFINE q == << a, b, "_" >>
  <2>1. q \in Seq(Atom)
    BY <1>1, ShortSeq, Zenon
  <2>2. Len(q) = 3 /\ q[1] = a /\ q[2] = b
    OBVIOUS
  <2> HIDE DEF q
  <2>3. \A j \in Nat : j >= 1 /\ j < 3 => j = 1 \/ j = 2
    OBVIOUS
  <2>4. \A j \in Nat : j >= 1 /\ j < Len(q) => q[j] # ":"
    BY <1>2, <2>2, <2>3
  <2>5. ReachedBelow(s, p \o q)
    BY <2>1, <2>4, ReachedLabel
  <2> QED BY <2>5 DEF q
<1>3. ReachedBelow(s, ElsePrefix(p))
  <2> DEFINE q == << "else", ":" >>
  <2>1. "else" \in Atom /\ ":" \in Atom
    BY <1>1
  <2>2. q \in Seq(Atom)
    BY <2>1, ShortSeq, Zenon
  <2>3. Len(q) = 2 /\ q[1] = "else"
    OBVIOUS
  <2> HIDE DEF q
  <2>4. \A j \in Nat : j >= 1 /\ j < 2 => j = 1
    OBVIOUS
  <2>5. \A j \in Nat : j >= 1 /\ j < Len(q) => q[j] # ":"
    BY <2>3, <2>4
  <2>6. ReachedBelow(s, p \o q)
    BY <2>2, <2>5, ReachedLabel
  <2> QED BY <2>6 DEF q, ElsePrefix
<1>4. ReachedBelow(s, ForPrefix(p))
  <2>1. "for" \in Atom /\ ForPosition \in Atom /\ ForPosition # ":"
    BY <1>1, PositionAssumption, PlacesApart DEF Placed
  <2> QED BY <1>2, <2>1, Zenon DEF ForPrefix
<1>5. ASSUME NEW n \in 1..MaxNodes
      PROVE  ReachedBelow(s, IfPrefix(p, n)) /\ ReachedBelow(s, WhilePrefix(p, n))
  <2>1. "if" \in Atom /\ "while" \in Atom /\ Position[n] \in Atom /\ Position[n] # ":"
    BY <1>1, PositionAssumption, PlacesApart DEF Placed
  <2> QED BY <1>2, <2>1, Zenon DEF IfPrefix, WhilePrefix
<1>6. ASSUME NEW name \in Name
      PROVE  ReachedBelow(s, FunctionPrefix(p, name))
  <2> DEFINE bar == << "_" >>
             q == name \o bar
  <2>1. name \in Seq(Atom) /\ bar \in Seq(Atom) /\ Len(bar) = 1
        /\ FunctionPrefix(p, name) = (p \o name) \o bar
    BY NameAssumption, BarFacts DEF FunctionPrefix
  <2> HIDE DEF bar
  <2>2. q \in Seq(Atom) /\ Len(q) = Len(name) + Len(bar)
    BY <2>1, ConcatProperties, Zenon
  <2>4. name \in Seq(Atom) /\ bar \in Seq(Atom)
    BY <2>1
  <2>5. (p \o name) \o bar = p \o (name \o bar)
    BY <2>4, ConcatAssociative
  <2>3. \A j \in Nat : j >= 1 /\ j < Len(q) => q[j] # ":"
    <3> SUFFICES ASSUME NEW j \in Nat, j >= 1, j < Len(q) PROVE q[j] # ":"
      OBVIOUS
    <3>1. Len(q) = Len(name) + 1 /\ Len(name) \in Nat
      BY <2>1, <2>2
    <3>2. \A i \in 1..Len(name) : q[i] = name[i]
      BY <2>1
    <3> HIDE DEF q
    <3>3. j \in 1..Len(name)
      BY <3>1
    <3>4. DOMAIN name = 1..Len(name)
      BY <2>1
    <3>5. name[j] \in ToSet(name)
      BY <3>3, <3>4 DEF ToSet
    <3> QED BY <3>2, <3>3, <3>5, IdentifierAssumption
  <2>6. FunctionPrefix(p, name) = p \o q
    BY <2>1, <2>5
  <2> HIDE DEF q
  <2>7. ReachedBelow(s, p \o q)
    BY <2>2, <2>3, ReachedLabel
  <2> QED BY <2>6, <2>7
<1> QED BY <1>3, <1>4, <1>5, <1>6

-----------------------------------------------------------------------------
(* Every step keeps the scopes.                                            *)

LEMMA EntersScope ==
  ASSUME Inv, NEW t, ScopesOK(frames, t, nodes), Enters
  PROVE  ScopesOK(frames', t, nodes')
<1>1. PICK kind \in ExprKinds, name \in Name \cup {NoName}, type \in Type \cup {NoType} :
        /\ kind = "let" => name \in Name
        /\ nodes < MaxNodes /\ nodes' = nodes + 1 /\ Push(ExprFrame(kind, name, type))
  BY DEF Enters
<1> DEFINE f == ExprFrame(kind, name, type)
<1>2. f \in Frame /\ f.kind = kind
  BY <1>1, ExprFrameFacts
<1>3. f.prefix = Last(frames).prefix /\ f.id = Last(frames).id /\ f.node = nodes + 1
  BY DEF ExprFrame, Top
<1>4. frames' = Append(frames, f)
  BY <1>1 DEF Push
<1>5. frames \in Seq(Frame) /\ frames # << >> /\ nodes \in Nat
  BY InvFacts DEF WellStacked
<1> HIDE DEF f
<1>6. ScopesOK(Append(frames, f), t, nodes + 1)
  BY <1>2, <1>3, <1>5, ExprScopes
<1> QED BY <1>1, <1>4, <1>6

LEMMA NodeOrder ==
  /\ \A i \in Nat : i <= i /\ i <= i + 1 /\ i + 1 \in Nat
  /\ \A i, j, k \in Nat : k > j /\ i <= j => k # i
  /\ \A n \in Nat : \A k \in 1..n : k \in Nat
OBVIOUS

(* What is below a frame that is left.                                     *)
LEMMA BelowScopes ==
  ASSUME Inv, NEW t, ScopesOK(frames, t, nodes), Top.kind # "program",
         NEW m \in Nat, nodes <= m
  PROVE  /\ ScopesOK(Below, t, m)
         /\ Below \in Seq(Frame) /\ Below # << >>
         /\ \A i \in DOMAIN Below : /\ i \in DOMAIN frames /\ i # Len(frames)
                                    /\ Below[i] = frames[i] /\ Below[i] \in Frame
<1>1. WellStacked(frames, DOMAIN table) /\ nodes \in Nat
  BY InvFacts
<1>2. Shape(frames, Below)
  BY <1>1, Shapes DEF Below, Top
<1>3. WellStacked(Below, DOMAIN table)
  BY <1>1, PopStacked DEF Below, Top
<1>4. /\ DOMAIN frames \subseteq Nat \ {0}
      /\ \A i \in DOMAIN frames : frames[i].node \in Nat
  <2>1. frames \in Seq(Frame)
    BY <1>1 DEF WellStacked
  <2>2. \A i \in DOMAIN frames : frames[i] \in Frame /\ i \in Nat \ {0}
    BY <2>1
  <2> QED BY <2>2 DEF Frame
<1>5. ScopesOK(Below, t, m)
  BY <1>1, <1>2, <1>4, ShapeScopes
<1>6. \A i \in DOMAIN Below : i \in DOMAIN frames /\ i # Len(frames) /\ Below[i] = frames[i]
  <2>1. /\ DOMAIN Below = 1..(Len(frames) - 1) /\ DOMAIN frames = 1..Len(frames) /\ Len(frames) \in Nat
        /\ \A i \in 1..(Len(frames) - 1) : Below[i] = frames[i]
    BY <1>1, StackFacts DEF Below
  <2>2. \A l \in Nat : \A i \in 1..(l - 1) : i \in 1..l /\ i # l
    OBVIOUS
  <2> QED BY <2>1, <2>2
<1>7. \A i \in DOMAIN Below : Below[i] \in Frame
  <2>1. Below \in Seq(Frame)
    BY <1>3 DEF WellStacked
  <2> QED BY <2>1
<1> QED BY <1>3, <1>5, <1>6, <1>7 DEF WellStacked

(* The condition of an if or of a while has ended: its position labels the *)
(* body and has labelled nothing before.                                   *)
LEMMA PlaceUnused ==
  ASSUME NEW s, NEW t, NEW n, NEW f \in Frame, NEW m \in 1..MaxNodes,
         Position[m] \in ToSet(f.prefix),
         \A key \in DOMAIN t : ForFree(key) => Position[m] \notin ToSet(key),
         \A i \in DOMAIN s : /\ s[i].prefix \in Seq(Atom)
                             /\ ForFree(s[i].prefix) => Position[m] \notin ToSet(s[i].prefix),
         \A k \in Ahead(s, n) : Position[k] \notin ToSet(f.prefix),
         ForFree(f.prefix)
  PROVE  Unused(s, t, n, f)
<1> DEFINE p == f.prefix
<1>1. p \in Seq(Atom)
  BY DEF Frame
<1>2. /\ ElsePrefix(p) \in Seq(Atom) /\ ToSet(ElsePrefix(p)) = ToSet(p) \cup {"else", ":"}
      /\ ForFree(ElsePrefix(p))
  BY <1>1, ElseFacts, LabelAtoms
<1>3. Position[m] \notin {"else", ":"}
  BY PlacesApart DEF Placed
<1>4. ASSUME NEW i \in DOMAIN s
      PROVE  /\ s[i].prefix # p
             /\ p # ElsePrefix(s[i].prefix)
             /\ s[i].prefix # ElsePrefix(p)
  <2>1. s[i].prefix # p /\ s[i].prefix # ElsePrefix(p)
    BY <1>2
  <2>2. ASSUME p = ElsePrefix(s[i].prefix) PROVE FALSE
    <3>1. /\ ToSet(p) = ToSet(s[i].prefix) \cup {"else", ":"}
          /\ ForFree(s[i].prefix)
      BY <2>2, ElseFacts, LabelAtoms
    <3> QED BY <1>3, <3>1
  <2> QED BY <2>1, <2>2
<1>5. ASSUME NEW name \in Name, NEW q \in Seq(Atom), Position[m] \in ToSet(q), ForFree(q \o name)
      PROVE  q \o name \notin DOMAIN t
  <2>1. ToSet(q \o name) = ToSet(q) \cup ToSet(name)
    BY NameAssumption, ConcatAtoms
  <2> QED BY <1>5, <2>1
<1> QED BY <1>1, <1>2, <1>4, <1>5 DEF Unused

LEMMA CondScopes ==
  ASSUME DistinctPlaces, Inv, NEW t, ScopesOK(frames, t, nodes), IsCond(Top),
         NEW kind \in {"then", "while"}, NEW prefix \in Seq(Atom), NEW a, a # "_", a \notin Placed,
         ToSet(prefix) = ToSet(Top.prefix) \cup {a, Position[Top.node], "_"},
         prefix # << >>, Last(prefix) = "_", ReachedBelow(Below, prefix),
         frames' = Append(Below, BodyFrame(kind, prefix, Top.node))
  PROVE  ScopesOK(frames', t, nodes)
<1> DEFINE f == BodyFrame(kind, prefix, Top.node)
           m == Top.node
           l == Len(frames)
<1>1. /\ Top = frames[l] /\ l \in DOMAIN frames /\ Top.prefix \in Seq(Atom)
      /\ Top.kind # "program" /\ Top.kind # "call"
      /\ m \in 1..MaxNodes /\ m \in Nat /\ nodes \in Nat
  <2>1. Top = frames[l] /\ l \in DOMAIN frames /\ Top.prefix \in Seq(Atom) /\ nodes \in Nat
    BY InvFacts, TopFacts, StackFacts
  <2>2. Top.kind # "program" /\ Top.kind # "call"
    BY DEF IsCond
  <2>3. m \in 1..MaxNodes /\ m \in Nat
    BY TopFacts DEF FrameOK, IsCond
  <2> QED BY <2>1, <2>2, <2>3
<1>2. /\ f \in Frame /\ f.kind = kind /\ f.prefix = prefix /\ kind \in BodyKinds
  <2>1. kind \in BodyKinds /\ kind # "function"
    BY DEF BodyKinds, LoopKinds
  <2> QED BY <1>1, <2>1, BodyFrameFacts DEF BodyFrame
<1>3. /\ ScopesOK(Below, t, nodes)
      /\ Below \in Seq(Frame) /\ Below # << >>
      /\ \A i \in DOMAIN Below : /\ i \in DOMAIN frames /\ i # l
                                 /\ Below[i] = frames[i] /\ Below[i] \in Frame
  <2>1. nodes \in Nat
    BY <1>1
  <2>2. nodes <= nodes
    BY <2>1, NodeOrder, Zenon
  <2> QED BY <1>1, <2>1, <2>2, BelowScopes
<1> HIDE DEF f, m, l
<1>4. m \in Ahead(frames, nodes)
  <2>1. l \in DOMAIN frames /\ IsCond(frames[l]) /\ frames[l].node = m
    BY <1>1 DEF m
  <2> QED BY <1>1, <2>1 DEF Ahead
<1>5. /\ \A key \in DOMAIN t : ForFree(key) => Position[m] \notin ToSet(key)
      /\ \A i \in DOMAIN frames : ForFree(frames[i].prefix) => Position[m] \notin ToSet(frames[i].prefix)
  BY <1>4 DEF ScopesOK, Unlabelled
<1>6. ASSUME NEW k \in Ahead(Below, nodes), ForFree(prefix)
      PROVE  Position[k] \notin ToSet(prefix)
  <2>1. \A i \in DOMAIN Below : ~IsCond(Below[i])
    <3>1. WellStacked(frames, DOMAIN table) /\ Last(frames).kind # "call"
      BY <1>1, InvFacts DEF Top
    <3>2. \A i \in DOMAIN Below : i \in 1..(Len(frames) - 1)
      BY <3>1, StackFacts DEF Below
    <3>3. \A i \in DOMAIN Below : Below[i].kind \in BodyKinds
      BY <1>3, <3>1, <3>2, OnlyCallsInside
    <3> QED BY <3>3, KindsDisjoint DEF IsCond, ExprKinds
  <2>2. k > nodes /\ k \in 1..MaxNodes
    BY <2>1 DEF Ahead
  <2>3. m <= nodes
    BY <1>1 DEF ScopesOK, FramesOK, CondsSeen, m
  <2>4. k # m
    <3>1. k \in Nat /\ nodes \in Nat /\ m \in Nat
      BY <1>1, <2>2, BoundAssumption, NodeOrder, Zenon
    <3> QED BY <2>2, <2>3, <3>1, NodeOrder, Zenon
  <2>5. Position[k] # Position[m]
    BY <1>1, <2>2, <2>4 DEF DistinctPlaces
  <2>6. k \in Ahead(frames, nodes)
    BY <2>2 DEF Ahead
  <2>7. ForFree(Top.prefix)
    BY <1>6 DEF ForFree
  <2>8. Position[k] \notin ToSet(Top.prefix)
    BY <1>1, <2>6, <2>7 DEF ScopesOK, Unlabelled
  <2>9. Position[k] \in Placed /\ Position[k] # "_"
    BY <2>2, PlacesApart DEF Placed
  <2> QED BY <2>5, <2>8, <2>9 DEF m
<1>7. ForFree(f.prefix) => Unused(Below, t, nodes, f)
  <2> SUFFICES ASSUME ForFree(f.prefix) PROVE Unused(Below, t, nodes, f)
    OBVIOUS
  <2>1. Position[m] \in ToSet(f.prefix)
    BY <1>2 DEF m
  <2>2. \A i \in DOMAIN Below :
          /\ Below[i].prefix \in Seq(Atom)
          /\ ForFree(Below[i].prefix) => Position[m] \notin ToSet(Below[i].prefix)
    <3> QED BY <1>3, <1>5 DEF Frame
  <2>3. \A k \in Ahead(Below, nodes) : Position[k] \notin ToSet(f.prefix)
    BY <1>2, <1>6
  <2> QED BY <1>1, <1>2, <1>5, <2>1, <2>2, <2>3, PlaceUnused
<1>8. ScopesOK(Append(Below, f), t, nodes)
  BY <1>2, <1>3, <1>7, BodyScopes
<1> QED BY <1>8 DEF f

(* The ':' of the prefix under analysis.                                   *)
Opened(s, p) == \A k \in DOMAIN p : p[k] = ":" => \E j \in DOMAIN s : s[j].prefix = SubSeq(p, 1, k)

LEMMA TopOpened ==
  ASSUME Inv, NEW t, ScopesOK(frames, t, nodes)
  PROVE  /\ Opened(frames, Top.prefix)
         /\ IsCond(Top) \/ Top.kind = "then" => Opened(Below, Top.prefix)
<1> DEFINE l == Len(frames)
           p == Top.prefix
<1>1. /\ l \in Nat /\ l \in DOMAIN frames /\ DOMAIN frames = 1..l
      /\ Top = frames[l] /\ p \in Seq(Atom)
      /\ DOMAIN Below = 1..(l - 1) /\ \A i \in 1..(l - 1) : Below[i] = frames[i]
  BY InvFacts, TopFacts, StackFacts DEF Below
<1> HIDE DEF l
<1>2. \A k \in DOMAIN p : p[k] = ":" => \E j \in 1..l : frames[j].prefix = SubSeq(p, 1, k)
  BY <1>1 DEF ScopesOK, FramesOK, LabelsOpen, Reached
<1>3. Opened(frames, p)
  BY <1>1, <1>2 DEF Opened
<1>4. ASSUME IsCond(Top) PROVE Opened(Below, p)
  <2>1. l - 1 \in DOMAIN frames /\ frames[l - 1].prefix = p
    BY <1>1, <1>4 DEF ScopesOK, FramesOK, Chained, IsCond, ExprKinds
  <2>2. \A k \in DOMAIN p : p[k] = ":" => \E j \in 1..(l - 1) : frames[j].prefix = SubSeq(p, 1, k)
    <3> HIDE DEF p
    <3> QED BY <2>1 DEF ScopesOK, FramesOK, LabelsOpen, Reached
  <2> HIDE DEF p
  <2> QED BY <1>1, <2>2 DEF Opened
<1>5. ASSUME Top.kind = "then" PROVE Opened(Below, p)
  <2> SUFFICES ASSUME NEW k \in DOMAIN p, p[k] = ":"
               PROVE  \E j \in DOMAIN Below : Below[j].prefix = SubSeq(p, 1, k)
    BY DEF Opened
  <2>1. Last(p) = "_"
    BY <1>1, <1>5 DEF ScopesOK, FramesOK, ThenEnds
  <2>2. PICK j \in 1..l : frames[j].prefix = SubSeq(p, 1, k)
    BY <1>2
  <2>3. Len(SubSeq(p, 1, k)) = k
    BY <1>1, StartFacts
  <2>4. k # Len(p)
    BY <2>1 DEF Last
  <2>5. j # l
    BY <1>1, <2>2, <2>3, <2>4
  <2>6. j \in 1..(l - 1)
    <3>1. \A n \in Nat : \A i \in 1..n : i # n => i \in 1..(n - 1)
      OBVIOUS
    <3> QED BY <1>1, <2>5, <3>1
  <2> QED BY <1>1, <2>2, <2>6
<1> QED BY <1>3, <1>4, <1>5

LEMMA LabelEnds ==
  ASSUME NEW p \in Seq(Atom), NEW n \in 1..MaxNodes
  PROVE  /\ IfPrefix(p, n) # << >> /\ Last(IfPrefix(p, n)) = "_"
         /\ WhilePrefix(p, n) # << >> /\ Last(WhilePrefix(p, n)) = "_"
<1> SUFFICES ASSUME NEW a \in Atom, NEW b \in Atom
             PROVE  p \o << a, b, "_" >> # << >> /\ Last(p \o << a, b, "_" >>) = "_"
  <2>1. "if" \in Atom /\ "while" \in Atom /\ Position[n] \in Atom
    BY WordAssumption, PositionAssumption DEF Word
  <2> QED BY <2>1 DEF IfPrefix, WhilePrefix
<1> DEFINE q == << a, b, "_" >>
<1>1. "_" \in Atom
  BY WordAssumption DEF Word
<1>2. q \in Seq(Atom)
  BY <1>1, ShortSeq, Zenon
<1>3. Len(q) = 3 /\ q # << >> /\ q[3] = "_"
  OBVIOUS
<1>4. Last(q) = "_"
  BY <1>3 DEF Last
<1> HIDE DEF q
<1>5. p \o q # << >> /\ Last(p \o q) = Last(q)
  BY <1>2, <1>3, ConcatEnds, Zenon
<1> QED BY <1>4, <1>5 DEF q

LEMMA BranchScopes ==
  ASSUME DistinctPlaces, Inv, NEW t, ScopesOK(frames, t, nodes), Branches
  PROVE  ScopesOK(frames', t, nodes')
<1> DEFINE p == Top.prefix
           m == Top.node
<1>1. p \in Seq(Atom)
  BY TopFacts
<1>2. IsCond(Top) /\ m \in 1..MaxNodes /\ nodes' = nodes
  BY TopFacts DEF Branches, IsCond, FrameOK
<1>3. Opened(Below, p)
  BY <1>2, TopOpened
<1>4. /\ IfPrefix(p, m) \in Seq(Atom) /\ WhilePrefix(p, m) \in Seq(Atom)
      /\ ToSet(IfPrefix(p, m)) = ToSet(p) \cup {"if", Position[m], "_"}
      /\ ToSet(WhilePrefix(p, m)) = ToSet(p) \cup {"while", Position[m], "_"}
      /\ ReachedBelow(Below, IfPrefix(p, m)) /\ ReachedBelow(Below, WhilePrefix(p, m))
      /\ IfPrefix(p, m) # << >> /\ Last(IfPrefix(p, m)) = "_"
      /\ WhilePrefix(p, m) # << >> /\ Last(WhilePrefix(p, m)) = "_"
  <2> HIDE DEF p, m
  <2>1. IfPrefix(p, m) \in Seq(Atom) /\ WhilePrefix(p, m) \in Seq(Atom)
    BY <1>1, <1>2, PrefixIsKey
  <2>2. /\ ToSet(IfPrefix(p, m)) = ToSet(p) \cup {"if", Position[m], "_"}
        /\ ToSet(WhilePrefix(p, m)) = ToSet(p) \cup {"while", Position[m], "_"}
    BY <1>1, <1>2, LabelAtoms
  <2>3. ReachedBelow(Below, IfPrefix(p, m)) /\ ReachedBelow(Below, WhilePrefix(p, m))
    BY <1>1, <1>2, <1>3, LabelsReached DEF Opened
  <2>4. /\ IfPrefix(p, m) # << >> /\ Last(IfPrefix(p, m)) = "_"
        /\ WhilePrefix(p, m) # << >> /\ Last(WhilePrefix(p, m)) = "_"
    BY <1>1, <1>2, LabelEnds
  <2> QED BY <2>1, <2>2, <2>3, <2>4
<1>5. "if" # "_" /\ "while" # "_" /\ "if" \notin Placed /\ "while" \notin Placed
  BY PlacesApart
<1>6. CASE frames' = Append(Below, BodyFrame("then", IfPrefix(p, m), m))
  <2>1. "then" \in {"then", "while"}
    OBVIOUS
  <2> QED BY <1>2, <1>4, <1>5, <1>6, <2>1, CondScopes
<1>7. CASE frames' = Append(Below, BodyFrame("while", WhilePrefix(p, m), m))
  <2>1. "while" \in {"then", "while"}
    OBVIOUS
  <2> QED BY <1>2, <1>4, <1>5, <1>7, <2>1, CondScopes
<1> QED BY <1>6, <1>7 DEF Branches

(* The else of a branch: its label is no longer ahead.                     *)
LEMMA ElseScopes ==
  ASSUME Inv, ScopesOK(frames, table, nodes), Else
  PROVE  ScopesOK(frames', table, nodes')
<1> DEFINE p == Top.prefix
           f == BodyFrame("else", ElsePrefix(p), nodes + 1)
           l == Len(frames)
<1>1. /\ Top = frames[l] /\ l \in DOMAIN frames /\ p \in Seq(Atom)
      /\ Top.kind = "then" /\ Top.kind # "program"
      /\ nodes \in Nat /\ nodes + 1 \in Nat /\ nodes <= nodes + 1
      /\ nodes' = nodes + 1 /\ frames' = Append(Below, f)
  <2>1. Top = frames[l] /\ l \in DOMAIN frames /\ p \in Seq(Atom) /\ nodes \in Nat
    BY InvFacts, TopFacts, StackFacts
  <2>2. nodes + 1 \in Nat /\ nodes <= nodes + 1
    BY <2>1, NodeOrder, Zenon
  <2> QED BY <2>1, <2>2 DEF Else
<1>2. ElsePrefix(p) \in Seq(Atom) /\ (ForFree(ElsePrefix(p)) <=> ForFree(p))
      /\ ToSet(ElsePrefix(p)) = ToSet(p) \cup {"else", ":"}
      /\ Last(ElsePrefix(p)) = ":"
  BY <1>1, ElseFacts, LabelAtoms
<1>3. /\ f \in Frame /\ f.kind = "else" /\ f.prefix = ElsePrefix(p) /\ "else" \in BodyKinds
  <2>1. "else" \in BodyKinds /\ "else" # "function"
    BY DEF BodyKinds
  <2> QED BY <1>1, <1>2, <2>1, BodyFrameFacts DEF BodyFrame
<1>4. /\ ScopesOK(Below, table, nodes + 1)
      /\ Below \in Seq(Frame) /\ Below # << >>
      /\ \A i \in DOMAIN Below : /\ i \in DOMAIN frames /\ i # l
                                 /\ Below[i] = frames[i] /\ Below[i] \in Frame
  BY <1>1, BelowScopes
<1>5. ReachedBelow(Below, ElsePrefix(p))
  BY <1>1, TopOpened, LabelsReached DEF Opened
<1> HIDE DEF f, l, p
<1>6. Top.prefix = p /\ frames[l].prefix = p /\ frames[l].kind = "then"
  BY <1>1 DEF p
<1>7. ASSUME ForFree(f.prefix) PROVE Unused(Below, table, nodes + 1, f)
  <2>1. ForFree(p) /\ ForFree(ElsePrefix(p))
    BY <1>2, <1>3, <1>7
  <2>2. ASSUME NEW i \in DOMAIN Below
        PROVE  /\ Below[i].prefix # ElsePrefix(p)
               /\ Below[i].kind = "then" => ElsePrefix(p) # ElsePrefix(Below[i].prefix)
    <3>1. Below[i].prefix # ElsePrefix(p)
      BY <1>1, <1>4, <1>6, <2>1 DEF ScopesOK, FramesOK, ElseAhead
    <3>2. ASSUME Below[i].kind = "then", ElsePrefix(p) = ElsePrefix(Below[i].prefix)
          PROVE  FALSE
      <4>1. Below[i].prefix \in Seq(Atom)
        BY <1>4 DEF Frame
      <4>2. p = Below[i].prefix
        BY <1>1, <3>2, <4>1, ElseFacts
      <4>3. "then" \in BodyKinds
        BY DEF BodyKinds
      <4>4. frames[i].prefix = p /\ frames[i].kind = "then" /\ i \in DOMAIN frames /\ i # l
        BY <1>4, <3>2, <4>2
      <4> QED BY <1>1, <1>6, <2>1, <4>3, <4>4 DEF ScopesOK, FramesOK, OneScope
    <3> QED BY <3>1, <3>2
  <2>3. \A name \in Name : ForFree(ElsePrefix(p) \o name) => ElsePrefix(p) \o name \notin DOMAIN table
    BY <1>1, <1>6 DEF ScopesOK, ElseFree
  <2>4. ASSUME NEW m \in Ahead(Below, nodes + 1) PROVE Position[m] \notin ToSet(ElsePrefix(p))
    <3>1. m \in Ahead(frames, nodes)
      <4>1. m \in 1..MaxNodes
        BY DEF Ahead
      <4>2. m > nodes + 1 => m > nodes
        <5>1. m \in Nat /\ nodes \in Nat
          BY <1>1, <4>1, BoundAssumption, NodeOrder, Zenon
        <5>2. \A i, j \in Nat : i > j + 1 => i > j
          OBVIOUS
        <5> QED BY <5>1, <5>2, Zenon
      <4> QED BY <1>4, <4>1, <4>2 DEF Ahead
    <3>2. Position[m] \notin ToSet(p)
      BY <1>1, <1>6, <2>1, <3>1 DEF ScopesOK, Unlabelled
    <3>3. Position[m] \in Placed
      BY <3>1 DEF Ahead, Placed
    <3> QED BY <1>2, <3>2, <3>3, PlacesApart
  <2>5. "else" # "then"
    OBVIOUS
  <2> QED BY <1>3, <2>2, <2>3, <2>4, <2>5 DEF Unused
<1>8. ReachedBelow(Below, f.prefix) /\ f.kind # "then" /\ f.kind \in BodyKinds
  BY <1>3, <1>5 DEF p
<1>9. ScopesOK(Append(Below, f), table, nodes + 1)
  BY <1>3, <1>4, <1>7, <1>8, BodyScopes
<1> QED BY <1>1, <1>9

(* More nodes have been seen.                                              *)
LEMMA LaterScopes ==
  ASSUME Inv, NEW t, ScopesOK(frames, t, nodes), NEW u, Shape(frames, u),
         NEW m, m \in {nodes, nodes + 1}
  PROVE  ScopesOK(u, t, m)
<1>1. nodes \in Nat /\ m \in Nat /\ nodes <= m
  <2>1. nodes \in Nat
    BY InvFacts
  <2> QED BY <2>1, NodeOrder, Zenon
<1>2. /\ DOMAIN frames \subseteq Nat \ {0}
      /\ \A i \in DOMAIN frames : frames[i].node \in Nat
  <2>1. frames \in Seq(Frame)
    BY InvFacts DEF WellStacked
  <2>2. \A i \in DOMAIN frames : frames[i] \in Frame /\ i \in Nat \ {0}
    BY <2>1
  <2> QED BY <2>2 DEF Frame
<1> QED BY <1>1, <1>2, ShapeScopes

LEMMA ForScopes ==
  ASSUME Inv, NEW t, ScopesOK(frames, t, nodes), NEW name \in Name, For(name)
  PROVE  ScopesOK(frames', t, nodes')
<1> DEFINE p == Top.prefix
           f == BodyFrame("for", ForPrefix(p), nodes + 1)
<1>1. nodes' = nodes + 1 /\ frames' = Append(frames, f) /\ p \in Seq(Atom)
      /\ frames \in Seq(Frame) /\ frames # << >> /\ nodes \in Nat /\ nodes + 1 \in Nat
  <2>1. p \in Seq(Atom) /\ frames \in Seq(Frame) /\ frames # << >> /\ nodes \in Nat
    BY TopFacts, InvFacts DEF WellStacked
  <2>2. nodes + 1 \in Nat
    BY <2>1, NodeOrder, Zenon
  <2> QED BY <2>1, <2>2 DEF For, AtStatement, Push
<1>2. ForPrefix(p) \in Seq(Atom) /\ ~ForFree(ForPrefix(p))
  BY <1>1, PrefixIsKey, LabelAtoms DEF ForFree
<1>3. /\ f \in Frame /\ f.kind = "for" /\ f.prefix = ForPrefix(p) /\ "for" \in BodyKinds
  <2>1. "for" \in BodyKinds /\ "for" # "function"
    BY DEF BodyKinds, LoopKinds
  <2> QED BY <1>1, <1>2, <2>1, BodyFrameFacts DEF BodyFrame
<1>4. ReachedBelow(frames, ForPrefix(p))
  BY <1>1, TopOpened, LabelsReached DEF Opened
<1>5. ScopesOK(frames, t, nodes + 1)
  <2>1. Shape(frames, frames)
    BY InvFacts, Shapes
  <2> QED BY <2>1, LaterScopes
<1> HIDE DEF f
<1>6. ReachedBelow(frames, f.prefix) /\ f.kind # "then" /\ f.kind \in BodyKinds /\ ~ForFree(f.prefix)
  BY <1>2, <1>3, <1>4
<1>7. ScopesOK(Append(frames, f), t, nodes + 1)
  BY <1>1, <1>3, <1>5, <1>6, BodyScopes
<1> QED BY <1>1, <1>7

(* A function: nothing has been under its prefix.                          *)
LEMMA FunctionUnused ==
  ASSUME Inv, Base, ScopesOK(frames, table, nodes + 1),
         NEW name \in Name, NEW params, NEW key, key = Top.prefix \o name,
         NEW prefix, FunctionUnder(key, prefix, params),
         NEW f \in Frame, f.kind = "function", f.prefix = prefix, ForFree(prefix)
  PROVE  Unused(frames, table, nodes + 1, f)
<1>1. /\ key \in Seq(Atom) /\ prefix \in Seq(Atom) /\ prefix # << >>
      /\ prefix = key \o << "_" >> /\ Last(prefix) = "_" /\ Front(prefix) = key
      /\ ~Rooted(table, key) /\ \A x \in Name : prefix \o x \notin DOMAIN table
  BY DEF FunctionUnder
<1>2. Top = frames[Len(frames)] /\ Len(frames) \in DOMAIN frames /\ Top.prefix \in Seq(Atom)
  BY InvFacts, TopFacts, StackFacts
<1>3. << "_" >> \in Seq(Atom) /\ ToSet(<< "_" >>) = {"_"}
  BY <1>1, BarFacts, ShortSets
<1>4. ToSet(prefix) = ToSet(Top.prefix) \cup ToSet(name) \cup {"_"} /\ ForFree(Top.prefix)
  <2>1. ToSet(prefix) = ToSet(key) \cup {"_"}
    <3>1. ToSet(key \o << "_" >>) = ToSet(key) \cup ToSet(<< "_" >>)
      BY <1>1, <1>3, ConcatAtoms, Zenon
    <3> QED BY <1>1, <1>3, <3>1, Zenon
  <2>2. ToSet(key) = ToSet(Top.prefix) \cup ToSet(name)
    BY <1>2, NameAssumption, ConcatAtoms
  <2> QED BY <2>1, <2>2 DEF ForFree
<1>5. ASSUME NEW i \in DOMAIN frames
      PROVE  /\ frames[i].prefix # prefix
             /\ prefix # ElsePrefix(frames[i].prefix)
  <2>1. frames[i].prefix # prefix
    BY <1>1, FramesRooted DEF PrefixRooted
  <2>2. frames[i].prefix \in Seq(Atom)
    BY InvFacts, FramesSpelled DEF Base, Spelled
  <2>3. Last(ElsePrefix(frames[i].prefix)) = ":"
    BY <2>2, ElseFacts
  <2> QED BY <1>1, <2>1, <2>3
<1>6. ASSUME NEW m \in Ahead(frames, nodes + 1) PROVE Position[m] \notin ToSet(prefix)
  <2>1. Position[m] \in Placed
    BY DEF Ahead, Placed
  <2>2. Position[m] \notin ToSet(Top.prefix)
    BY <1>2, <1>4 DEF ScopesOK, Unlabelled
  <2> QED BY <1>4, <2>1, <2>2, PlacesApart
<1>7. f.kind # "then"
  OBVIOUS
<1> QED BY <1>1, <1>5, <1>6, <1>7 DEF Unused

LEMMA FunctionScopes ==
  ASSUME PlainNames, Inv, Base, KeysRooted(table), ScopesOK(frames, table, nodes),
         Inv', Base', NEW name \in Name, NEW params \in ParamList, FunctionDef(name, params)
  PROVE  KeysRooted(table') /\ ScopesOK(frames', table', nodes')
<1> DEFINE p == Top.prefix
           key == p \o name
           prefix == FunctionPrefix(p, name)
           f == BodyFrame("function", prefix, nodes + 1)
           l == Len(frames)
<1>1. /\ nodes' = nodes + 1 /\ frames' = Append(frames, f)
      /\ p \in Seq(Atom) /\ frames \in Seq(Frame) /\ frames # << >> /\ nodes \in Nat /\ nodes + 1 \in Nat
      /\ Last(frames).prefix = p /\ Last(frames).id = Top.id
  <2>1. p \in Seq(Atom) /\ frames \in Seq(Frame) /\ frames # << >> /\ nodes \in Nat
    BY TopFacts, InvFacts DEF WellStacked
  <2>2. nodes + 1 \in Nat
    BY <2>1, NodeOrder, Zenon
  <2> QED BY <2>1, <2>2 DEF FunctionDef, AtStatement, Push, Top
<1>2. FunctionUnder(key, prefix, params)
  BY FunctionTable
<1>3. ReachedBelow(frames, prefix)
  BY <1>1, TopOpened, LabelsReached DEF Opened
<1>4. ScopesOK(frames, table, nodes + 1)
  <2>1. Shape(frames, frames)
    BY InvFacts, Shapes
  <2> QED BY <2>1, LaterScopes
<1> HIDE DEF prefix, l
<1>5. /\ f \in Frame /\ f.kind = "function" /\ f.prefix = prefix /\ f.id = nodes + 1
      /\ "function" \in BodyKinds
  <2>1. "function" \in BodyKinds
    BY DEF BodyKinds
  <2>2. prefix \in Seq(Atom) /\ prefix # << >>
    BY <1>2 DEF FunctionUnder
  <2>3. Front(prefix) \in DOMAIN table'
    BY <1>2 DEF FunctionUnder
  <2> QED BY <1>1, <2>1, <2>2, <2>3, BodyFrameFacts DEF BodyFrame
<1> HIDE DEF f
<1>6. ForFree(f.prefix) => Unused(frames, table, nodes + 1, f)
  BY <1>2, <1>4, <1>5, FunctionUnused
<1>7. f.kind \in BodyKinds /\ f.kind # "then" /\ ReachedBelow(frames, f.prefix)
  BY <1>3, <1>5
<1>8. ScopesOK(frames', table, nodes + 1)
  BY <1>1, <1>4, <1>5, <1>6, <1>7, BodyScopes
<1>9. Spelled(frames')
  <2>1. WellStacked(frames', DOMAIN table') /\ BodiesOpen(frames', table', signature')
    BY DEF Inv, TypeOK, Base
  <2> QED BY <2>1, FramesSpelled
<1>10. Grown(frames', table, table')
  <2>1. Pushed(frames, f, frames', l)
    BY <1>1, <1>5, PushedFacts DEF l
  <2>2. l \in DOMAIN frames' /\ l + 1 \in DOMAIN frames'
        /\ frames'[l].prefix = p /\ frames'[l].id = Top.id
        /\ frames'[l + 1].prefix = prefix /\ frames'[l + 1].id = nodes + 1
    <3>1. l \in 1..l /\ l \in 1..(l + 1) /\ l + 1 \in 1..(l + 1)
      BY <2>1, PushedIndex DEF Pushed
    <3> QED BY <1>1, <1>5, <2>1, <3>1 DEF Pushed
  <2>3. \A k \in DOMAIN table : k \in DOMAIN table' /\ table'[k].scope = table[k].scope
    BY <1>2 DEF FunctionUnder
  <2>4. table'[key].scope = Top.id
    <3>1. table'[key] = Function("Unknown", ParamTypes(params), Top.id, params)
      BY <1>2 DEF FunctionUnder
    <3>2. Function("Unknown", ParamTypes(params), Top.id, params).scope = Top.id
      BY DEF Function
    <3> QED BY <3>1, <3>2
  <2>5. ASSUME NEW k \in DOMAIN table' \ DOMAIN table
        PROVE  \E i \in DOMAIN frames', x \in Name :
                 k = frames'[i].prefix \o x /\ table'[k].scope = frames'[i].id
    <3>1. CASE k = key
      BY <2>2, <2>4, <3>1
    <3>2. CASE k # key
      <4>1. PICK x \in Name : k = prefix \o x
        BY <1>2, <3>2 DEF FunctionUnder
      <4>2. table'[k].scope = nodes + 1
        BY <1>2, <3>2 DEF FunctionUnder
      <4> QED BY <2>2, <4>1, <4>2
    <3> QED BY <3>1, <3>2
  <2> QED BY <2>3, <2>5 DEF Grown
<1>11. ScopesOK(frames', table', nodes + 1)
  BY <1>8, <1>9, <1>10, GrownScopes
<1> QED BY <1>1, <1>2, <1>11 DEF FunctionUnder

LEMMA DeliverShape ==
  ASSUME Inv, Delivers
  PROVE  Shape(frames, frames')
<1>1. PICK v : Deliver(v)
  BY DEF Delivers
<1>2. WellStacked(frames, DOMAIN table) /\ Last(frames).kind # "program"
  BY InvFacts DEF Delivers, Top
<1>3. WellStacked(Below, DOMAIN table) /\ Shape(frames, Below)
  BY <1>2, PopStacked, Shapes DEF Below
<1>4. CASE frames' = Below
  BY <1>3, <1>4
<1>5. CASE frames' # Below
  <2>1. frames' = [Below EXCEPT ![Len(Below)].vals = Append(@, v)]
    BY <1>1, <1>5 DEF Deliver
  <2>2. frames' = [Below EXCEPT ![Len(Below)].vals = Append(Below[Len(Below)].vals, v)]
    BY <2>1
  <2> DEFINE vals == Append(Below[Len(Below)].vals, v)
  <2> HIDE DEF vals
  <2>3. frames' = [Below EXCEPT ![Len(Below)].vals = vals]
    BY <2>2 DEF vals
  <2>4. Shape(Below, frames')
    BY <1>3, <2>3, Shapes
  <2> QED BY <1>3, <2>4, ShapeOfShape
<1> QED BY <1>4, <1>5

LEMMA ScopesKept ==
  ASSUME PlainNames, DistinctPlaces, Inv, ScopeInv, [Next]_vars
  PROVE  ScopeInv'
<1>1. Base /\ KeysRooted(table) /\ ScopesOK(frames, table, nodes)
  BY DEF ScopeInv
<1>2. Clear({})
  BY DEF Clear, ReadsAvoid, Avoids, Known
<1>3. Base'
  BY <1>1, <1>2, StepSettles DEF Kept
<1>4. Inv'
  BY NextKeeps DEF StepOK
<1>5. ASSUME NEW name \in Name, NEW params \in ParamList, FunctionDef(name, params)
      PROVE  KeysRooted(table') /\ ScopesOK(frames', table', nodes')
  BY <1>1, <1>3, <1>4, <1>5, FunctionScopes
<1>6. ASSUME \A name \in Name, params \in ParamList : ~FunctionDef(name, params)
      PROVE  KeysRooted(table') /\ ScopesOK(frames', table', nodes')
  <2>1. KeysRooted(table')
    BY <1>1, <1>6, TableMoves
  <2> SUFFICES ScopesOK(frames', table', nodes')
    BY <2>1
  <2>2. Grown(frames, table, table')
    BY <1>1, <1>6, TableGrows DEF ScopesOK, FramesOK
  <2>3. Spelled(frames)
    BY <1>1, InvFacts, FramesSpelled DEF Base
  <2>4. ScopesOK(frames, table', nodes)
    BY <1>1, <2>2, <2>3, GrownScopes
  <2>5. CASE Enters
    BY <2>4, <2>5, EntersScope
  <2>6. CASE Leaves
    <3>1. Shape(frames, frames')
      BY <2>6, InvFacts, Shapes DEF Leaves, Pop, Below, Top
    <3>2. nodes' \in {nodes, nodes + 1}
      BY <2>6 DEF Leaves
    <3> QED BY <2>4, <3>1, <3>2, LaterScopes
  <2>7. CASE Delivers
    <3>1. nodes' \in {nodes, nodes + 1}
      BY <2>7 DEF Delivers
    <3> QED BY <2>4, <2>7, <3>1, DeliverShape, LaterScopes
  <2>8. CASE Reads
    <3>1. Shape(frames, frames')
      <4>1. PICK vals : frames' = [frames EXCEPT ![Len(frames)].vals = vals]
        BY <2>8 DEF Reads
      <4>2. Shape(frames, [frames EXCEPT ![Len(frames)].vals = vals])
        BY <1>1, InvFacts, Shapes
      <4> QED BY <4>1, <4>2
    <3>2. nodes' \in {nodes, nodes + 1}
      BY <2>8 DEF Reads
    <3> QED BY <2>4, <3>1, <3>2, LaterScopes
  <2>9. CASE Stays
    <3>1. Shape(frames, frames')
      BY <2>9, InvFacts, Shapes DEF Stays
    <3>2. nodes' \in {nodes, nodes + 1}
      BY <2>9 DEF Stays
    <3> QED BY <2>4, <3>1, <3>2, LaterScopes
  <2>10. CASE Branches
    BY <2>4, <2>10, BranchScopes
  <2>11. CASE Else
    <3>1. table' = table
      BY <2>11 DEF Else
    <3> QED BY <1>1, <2>11, <3>1, ElseScopes
  <2>12. CASE \E name \in Name : For(name)
    BY <2>4, <2>12, ForScopes
  <2>13. Enters \/ Leaves \/ Delivers \/ Reads \/ Stays \/ Branches \/ Else \/ \E name \in Name : For(name)
    <3>1. CASE OperandStep
      BY <3>1, OperandShapes
    <3>2. CASE DeclarationStep
      BY <1>6, <3>2, DeclarationShapes
    <3>3. CASE ControlStep
      BY <3>3, ControlShapes
    <3>4. CASE UNCHANGED vars
      BY <3>4 DEF vars, Stays
    <3> QED BY <3>1, <3>2, <3>3, <3>4 DEF Next
  <2> QED BY <2>5, <2>6, <2>7, <2>8, <2>9, <2>10, <2>11, <2>12, <2>13
<1>7. KeysRooted(table') /\ ScopesOK(frames', table', nodes')
  BY <1>5, <1>6
<1> QED BY <1>3, <1>7 DEF ScopeInv

LEMMA ScopesInit ==
  ASSUME Init
  PROVE  ScopeInv
<1> DEFINE f == BodyFrame("program", << >>, 0)
<1>1. f.prefix = << >> /\ f.kind = "program" /\ f.id = 0
  BY DEF BodyFrame
<1>2. DOMAIN frames = {1} /\ frames[1] = f
  <2> HIDE DEF f
  <2> QED BY DEF Init, f
<1> HIDE DEF f
<1>3. DOMAIN table = {} /\ nodes = 0
  BY DEF Init
<1>4. DOMAIN << >> = {}
  OBVIOUS
<1>5. f.kind \notin ExprKinds /\ ~IsCond(f) /\ f.kind # "then"
  BY <1>1 DEF ExprKinds, IsCond
<1>6. FramesOK(frames, nodes)
  <2>1. Chained(frames) /\ OneScope(frames) /\ ElseAhead(frames) /\ ThenEnds(frames)
    BY <1>2, <1>5 DEF Chained, OneScope, ElseAhead, ThenEnds
  <2>2. LabelsOpen(frames)
    BY <1>1, <1>2, <1>4 DEF LabelsOpen, Reached
  <2>3. Grounded(frames) /\ CondsSeen(frames, nodes)
    BY <1>1, <1>2, <1>5 DEF Grounded, CondsSeen
  <2> QED BY <2>1, <2>2, <2>3 DEF FramesOK
<1>7. Unlabelled(frames, table, nodes)
  BY <1>1, <1>2, <1>3, <1>4 DEF Unlabelled, ToSet
<1>8. Owned(frames, table) /\ ElseFree(frames, table) /\ KeysRooted(table)
  BY <1>3 DEF Owned, ElseFree, KeysRooted
<1> QED BY <1>6, <1>7, <1>8, BaseInit DEF ScopeInv, ScopesOK

LEMMA ScopesFound ==
  ASSUME Inv, ScopeInv
  PROVE  ScopeSoundness
<1> DEFINE p == Top.prefix
           l == Len(frames)
<1> SUFFICES ASSUME NEW name \in Name, Lookup(table, p, name) # NoKey,
                    ~(\E j \in DOMAIN Lookup(table, p, name) : Lookup(table, p, name)[j] = "for")
             PROVE  table[Lookup(table, p, name)].scope \in OpenScopes
  BY DEF ScopeSoundness
<1> DEFINE key == Lookup(table, p, name)
<1>1. /\ p \in Seq(Atom) /\ l \in DOMAIN frames /\ frames[l].prefix = p
      /\ ScopesOK(frames, table, nodes)
  BY InvFacts, TopFacts, StackFacts DEF ScopeInv
<1>2. PICK s \in SearchScopes(p) : key = s \o name /\ key \in DOMAIN table
  BY <1>1, LookupHits
<1>3. ForFree(key)
  BY DEF ForFree, ToSet
<1>4. Opened(frames, p)
  BY <1>1, TopOpened
<1> HIDE DEF key
<1>5. \E i \in DOMAIN frames : frames[i].prefix = s
  <2>1. CASE s = p
    BY <1>1, <2>1
  <2>2. CASE s = << >>
    BY <1>1, <2>2 DEF ScopesOK, FramesOK, Grounded
  <2>3. ASSUME NEW k \in 1..(Len(p) - 1), p[k] = ":", s = SubSeq(p, 1, k)
        PROVE  \E i \in DOMAIN frames : frames[i].prefix = s
    <3>1. k \in DOMAIN p
      <4>1. \A n \in Nat : \A i \in 1..(n - 1) : i \in 1..n
        OBVIOUS
      <4>2. DOMAIN p = 1..Len(p) /\ Len(p) \in Nat
        BY <1>1
      <4> QED BY <4>1, <4>2
    <3> QED BY <1>4, <2>3, <3>1 DEF Opened
  <2> QED BY <2>1, <2>2, <2>3 DEF SearchScopes
<1>6. PICK i \in DOMAIN frames : frames[i].prefix = s
  BY <1>5
<1>7. table[key].scope = frames[i].id
  BY <1>1, <1>2, <1>3, <1>6 DEF ScopesOK, Owned
<1> QED BY <1>7 DEF OpenScopes, key

(* FindVariableInScopes (:55-:77) resolves a name to no declaration of a   *)
(* scope that is closed, whatever the program: mangling by the position of *)
(* the branch or loop (:17, :445, :461) keeps the bodies of a function     *)
(* apart, and the prefixes it tries are those of the scopes that are open. *)
(* It needs names without '_' and nodes at distinct places; keys with the  *)
(* label of a for are excepted, as the property says.                      *)
THEOREM ScopesSound ==
  ASSUME PlainNames, DistinctPlaces
  PROVE  Spec => []ScopeSoundness
<1>1. Init => ScopeInv
  BY ScopesInit
<1>2. Inv /\ ScopeInv /\ [Next]_vars => ScopeInv'
  BY ScopesKept
<1>3. Inv /\ ScopeInv => ScopeSoundness
  BY ScopesFound
<1> QED BY <1>1, <1>2, <1>3, Invariance, PTL DEF Spec
=============================================================================
