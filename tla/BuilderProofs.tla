--------------------------- MODULE BuilderProofs ----------------------------
(* Theorems about the C back end, for programs of any size.                *)
EXTENDS Builder, CommonLemmas

-----------------------------------------------------------------------------
(* What is inductive.                                                      *)

(* There is one scope until it is left.                                    *)
OneScope == Len(allocatedStrings) + left = 1

(* No string is registered twice in a scope.                               *)
Distinct(s) == \A m, n \in DOMAIN s : s[m] = s[n] => m = n
Registered == \A k \in DOMAIN allocatedStrings : Distinct(allocatedStrings[k])

(* A string is named by the node that declares it.                         *)
StringsTyped ==
  /\ nodes \in Nat /\ left \in Nat
  /\ declared \subseteq 1..nodes
  /\ allocatedStrings \in Seq(Seq(declared)) /\ freed \subseteq declared

StringsInv == StringsTyped /\ OneScope /\ Registered /\ NoStringForgotten

(* The program is at the bottom of the stack of bodies.                    *)
Body == BodyKinds \cup {"program", "then", "else", "elseIf"}
BodiesInv == bodies \in Seq(Body) /\ bodies # << >> /\ bodies[1] = "program"

StatusInv ==
  /\ status \in {"running", "done", "crashed", "undefined"}
  /\ status = "undefined" => left = 1

(* Until the scope has been left, only a path that has left a for by break *)
(* has freed strings, and it goes on where that for ends.                  *)
Typed(p, n, names) == p \in [frees : Seq(names), to : {Here} \cup 2..n] /\ Distinct(p.frees)
Waits(p, bs) == p.to # Here /\ bs[p.to] = "for"
PathOK(p, bs, names, k) ==
  /\ Typed(p, Len(bs), names)
  /\ k = 0 /\ p.frees # << >> => Waits(p, bs)
PathsInv == \A p \in paths : PathOK(p, bodies, declared, left)

Inv == StringsInv /\ BodiesInv /\ StatusInv /\ PathsInv

-----------------------------------------------------------------------------
(* A scope that is there is the only one.                                  *)
LEMMA TheScope ==
  ASSUME StringsInv, allocatedStrings # << >>
  PROVE  /\ left = 0 /\ Len(allocatedStrings) = 1
         /\ DOMAIN allocatedStrings = {1}
         /\ Last(allocatedStrings) = allocatedStrings[1]
         /\ allocatedStrings[1] \in Seq(declared)
         /\ Pending = ToSet(allocatedStrings[1])
<1>1. Len(allocatedStrings) \in Nat /\ Len(allocatedStrings) # 0 /\ left \in Nat
  BY EmptySeq DEF StringsInv, StringsTyped
<1>2. left = 0 /\ Len(allocatedStrings) = 1
  <2>1. Len(allocatedStrings) + left = 1
    BY DEF StringsInv, OneScope
  <2>2. \A m, n \in Nat : m # 0 /\ m + n = 1 => m = 1 /\ n = 0
    OBVIOUS
  <2> QED BY <1>1, <2>1, <2>2
<1>3. DOMAIN allocatedStrings = {1}
  BY <1>2 DEF StringsInv, StringsTyped
<1>4. Last(allocatedStrings) = allocatedStrings[1] /\ allocatedStrings[1] \in Seq(declared)
  BY <1>2, <1>3, ElementOfSeq DEF StringsInv, StringsTyped, Last
<1>5. Pending = ToSet(allocatedStrings[1])
  BY <1>3 DEF Pending
<1> QED BY <1>2, <1>3, <1>4, <1>5

(* The strings after a step that leaves the scope.                         *)
LEMMA Leaves ==
  ASSUME StringsInv, allocatedStrings # << >>, LeaveBlock, nodes' \in {nodes, nodes + 1}
  PROVE  /\ StringsInv' /\ left = 0 /\ left' = 1 /\ declared' = declared
         /\ Last(allocatedStrings) \in Seq(declared) /\ Distinct(Last(allocatedStrings))
<1> DEFINE s == allocatedStrings[1]
<1>1. /\ left = 0 /\ Len(allocatedStrings) = 1 /\ DOMAIN allocatedStrings = {1}
      /\ Last(allocatedStrings) = s /\ s \in Seq(declared)
      /\ Pending = ToSet(s)
  BY TheScope
<1>2. Distinct(s)
  BY <1>1 DEF StringsInv, Registered
<1>3. allocatedStrings' = << >> /\ left' = 1 /\ declared' = declared
  <2>1. Front(allocatedStrings) = SubSeq(allocatedStrings, 1, 0)
    BY <1>1 DEF Front
  <2>2. SubSeq(allocatedStrings, 1, 0) = << >>
    BY SubSeqEmpty, 1 \in Int, 0 \in Int DEF StringsInv, StringsTyped
  <2> QED BY <1>1, <2>1, <2>2 DEF LeaveBlock
<1>4. freed' = freed \cup Pending /\ Pending' = {}
  BY <1>1, <1>3 DEF LeaveBlock, Pending
<1>5. NoStringForgotten'
  BY <1>3, <1>4 DEF StringsInv, NoStringForgotten
<1>6. StringsTyped'
  BY <1>3, <1>4 DEF StringsInv, StringsTyped, NoStringForgotten
<1>7. OneScope' /\ Registered'
  BY <1>3 DEF OneScope, Registered
<1> QED BY <1>1, <1>2, <1>3, <1>5, <1>6, <1>7 DEF StringsInv

(* The strings after a step that leaves them alone.                        *)
LEMMA SameStrings ==
  ASSUME StringsInv, UNCHANGED strings, nodes' \in {nodes, nodes + 1}
  PROVE  StringsInv' /\ left' = left /\ declared' = declared
<1>1. UNCHANGED << allocatedStrings, declared, freed, left >>
  BY DEF strings
<1>2. Pending' = Pending
  BY <1>1 DEF Pending
<1>3. StringsTyped'
  BY <1>1 DEF StringsInv, StringsTyped
<1>4. OneScope' /\ Registered' /\ NoStringForgotten'
  BY <1>1, <1>2 DEF StringsInv, OneScope, Registered, NoStringForgotten
<1> QED BY <1>1, <1>3, <1>4 DEF StringsInv

(* The strings after a declaration of one.                                 *)
LEMMA Declares ==
  ASSUME StringsInv, Declare(TRUE), allocatedStrings # << >>
  PROVE  StringsInv' /\ left' = left /\ declared \subseteq declared'
<1> DEFINE s == allocatedStrings[1]
           n == nodes + 1
<1>1. /\ left = 0 /\ Len(allocatedStrings) = 1 /\ DOMAIN allocatedStrings = {1}
      /\ s \in Seq(declared) /\ Pending = ToSet(s)
  BY TheScope
<1>2. /\ nodes' = n /\ freed' = freed /\ left' = left
      /\ declared' = declared \cup {n}
      /\ allocatedStrings' = [allocatedStrings EXCEPT ![1] = Append(@, n)]
  BY <1>1 DEF Declare, AtStatement, Visit, Registers
<1>3. /\ n \in Nat /\ n \notin declared /\ declared' \subseteq 1..n
  BY <1>2 DEF StringsInv, StringsTyped
<1>4. /\ DOMAIN allocatedStrings' = {1} /\ Len(allocatedStrings') = 1
      /\ allocatedStrings'[1] = Append(s, n)
  BY <1>1, <1>2 DEF StringsInv, StringsTyped
<1>5. s \in Seq(declared') /\ freed' \subseteq declared' /\ n \in declared'
  BY <1>1, <1>2 DEF StringsInv, StringsTyped
<1>6. /\ Append(s, n) \in Seq(declared')
      /\ DOMAIN Append(s, n) = 1..(Len(s) + 1)
      /\ \A i \in 1..Len(s) : Append(s, n)[i] = s[i]
      /\ Append(s, n)[Len(s) + 1] = n
      /\ ToSet(Append(s, n)) = ToSet(s) \cup {n}
  BY <1>5, AppendFacts, ToSetAppend
<1>7. Pending' = Pending \cup {n}
  <2>1. Pending' = ToSet(allocatedStrings'[1])
    BY <1>4 DEF Pending
  <2> QED BY <1>1, <1>4, <1>6, <2>1
<1>9. StringsTyped'
  <2>1. allocatedStrings' = << Append(s, n) >>
    BY <1>1, <1>2 DEF StringsInv, StringsTyped
  <2> QED BY <1>2, <1>3, <1>5, <1>6, <2>1 DEF StringsInv, StringsTyped
<1>10. OneScope'
  BY <1>1, <1>2, <1>4 DEF OneScope
<1>11. Registered'
  <2>1. /\ Len(s) \in Nat /\ DOMAIN s = 1..Len(s)
        /\ \A i \in DOMAIN s : s[i] # n
        /\ \A i, j \in DOMAIN s : s[i] = s[j] => i = j
    BY <1>1, <1>3 DEF StringsInv, Registered, Distinct
  <2>2. 1..(Len(s) + 1) = DOMAIN s \cup {Len(s) + 1}
    BY <2>1
  <2>3. \A i, j \in DOMAIN Append(s, n) : Append(s, n)[i] = Append(s, n)[j] => i = j
    BY <1>6, <2>1, <2>2
  <2> QED BY <1>4, <2>3 DEF Registered, Distinct
<1>12. NoStringForgotten'
  BY <1>2, <1>7 DEF StringsInv, NoStringForgotten
<1> QED BY <1>2, <1>9, <1>10, <1>11, <1>12 DEF StringsInv

-----------------------------------------------------------------------------
(* The stack of bodies.                                                    *)

(* A body is opened, closed, or gives way to its else.                     *)
LEMMA OpenKeeps ==
  ASSUME BodiesInv, NEW kind \in Body, bodies' = Append(bodies, kind)
  PROVE  BodiesInv'
<1>1. /\ bodies' \in Seq(Body) /\ bodies' # << >>
      /\ \A i \in 1..Len(bodies) : bodies'[i] = bodies[i]
  BY AppendFacts DEF BodiesInv
<1>2. 1 \in 1..Len(bodies)
  BY EmptySeq DEF BodiesInv
<1> QED BY <1>1, <1>2 DEF BodiesInv

LEMMA FrontOfBodies ==
  ASSUME BodiesInv, In # "program"
  PROVE  /\ Front(bodies) \in Seq(Body) /\ Front(bodies) # << >>
         /\ Front(bodies)[1] = "program"
         /\ Len(bodies) \in Nat /\ Len(bodies) >= 2
         /\ Len(Front(bodies)) = Len(bodies) - 1
         /\ \A i \in 1..(Len(bodies) - 1) : Front(bodies)[i] = bodies[i]
<1>1. /\ Len(bodies) \in Nat /\ Len(bodies) >= 1 /\ Last(bodies) = bodies[Len(bodies)]
      /\ Front(bodies) \in Seq(Body)
      /\ Len(Front(bodies)) = Len(bodies) - 1
      /\ \A i \in 1..(Len(bodies) - 1) : Front(bodies)[i] = bodies[i]
  BY FrontFacts DEF BodiesInv
<1>2. Len(bodies) # 1
  BY <1>1 DEF BodiesInv, In
<1>3. Len(Front(bodies)) \in Nat \ {0} /\ 1 \in 1..(Len(bodies) - 1)
  BY <1>1, <1>2
<1>4. Front(bodies) # << >>
  BY <1>3
<1> QED BY <1>1, <1>2, <1>3, <1>4 DEF BodiesInv

LEMMA ReplaceKeeps ==
  ASSUME BodiesInv, In # "program", NEW kind \in Body, bodies' = Append(Front(bodies), kind)
  PROVE  BodiesInv'
<1>1. /\ Front(bodies) \in Seq(Body) /\ Front(bodies) # << >>
      /\ Front(bodies)[1] = "program"
  BY FrontOfBodies
<1> DEFINE front == Front(bodies)
<1> HIDE DEF front
<1>2. front \in Seq(Body) /\ front # << >> /\ front[1] = "program" /\ bodies' = Append(front, kind)
  BY <1>1 DEF front
<1>3. /\ bodies' \in Seq(Body) /\ bodies' # << >>
      /\ \A i \in 1..Len(front) : bodies'[i] = front[i]
  BY <1>2, AppendFacts
<1>4. 1 \in 1..Len(front)
  BY <1>2, EmptySeq
<1> QED BY <1>2, <1>3, <1>4 DEF BodiesInv

-----------------------------------------------------------------------------
(* The paths.                                                              *)

(* No body of a for has been replaced by another, none has been closed.    *)
Grows(bs, cs) ==
  /\ Len(bs) \in Nat /\ Len(cs) \in Nat /\ Len(bs) <= Len(cs)
  /\ \A i \in 1..Len(bs) : bs[i] = "for" => cs[i] = "for"

LEMMA PathGrows ==
  ASSUME NEW bs, NEW cs, Grows(bs, cs), NEW names, NEW more, names \subseteq more,
         NEW k, NEW p, PathOK(p, bs, names, k)
  PROVE  PathOK(p, cs, more, k)
<1>1. p \in [frees : Seq(names), to : {Here} \cup 2..Len(bs)] /\ Distinct(p.frees)
  BY DEF PathOK, Typed
<1>2. p.frees \in Seq(more)
  BY <1>1
<1>3. p.to \in {Here} \cup 2..Len(cs)
  BY <1>1 DEF Grows
<1>4. Typed(p, Len(cs), more)
  BY <1>1, <1>2, <1>3 DEF Typed
<1>5. Waits(p, bs) => Waits(p, cs)
  BY <1>1 DEF Grows, Waits, Here
<1> QED BY <1>4, <1>5 DEF PathOK

(* Steps that leave the paths as they are, end some, or let some pass over *)
(* a body that was opened.                                                 *)
LEMMA PathsGrow ==
  ASSUME PathsInv, Grows(bodies, bodies'), declared \subseteq declared', left' = left,
         paths' \subseteq paths
  PROVE  PathsInv'
<1>1. \A p \in paths : PathOK(p, bodies', declared', left')
  BY PathGrows DEF PathsInv
<1> QED BY <1>1 DEF PathsInv

LEMMA PathsSkip ==
  ASSUME PathsInv, Grows(bodies, bodies'), declared' = declared, left' = left,
         Len(bodies') >= 2, paths' = Skip(paths, Len(bodies'))
  PROVE  PathsInv'
<1>1. \A p \in paths : PathOK(p, bodies', declared', left')
  BY PathGrows DEF PathsInv
<1> DEFINE over(p) == [p EXCEPT !.to = Len(bodies')]
<1>2. ASSUME NEW p \in paths, p.to = Here
      PROVE  PathOK(over(p), bodies', declared', left')
  <2>1. /\ p \in [frees : Seq(declared'), to : {Here} \cup 2..Len(bodies')]
        /\ Distinct(p.frees)
        /\ left' = 0 /\ p.frees # << >> => Waits(p, bodies')
    BY <1>1 DEF PathOK, Typed
  <2>2. Len(bodies') \in 2..Len(bodies')
    BY DEF Grows
  <2>3. /\ over(p) \in [frees : Seq(declared'), to : {Here} \cup 2..Len(bodies')]
        /\ over(p).frees = p.frees
    BY <2>1, <2>2
  <2>4. ~(left' = 0 /\ p.frees # << >>)
    BY <1>2, <2>1 DEF Waits
  <2> HIDE DEF over
  <2> QED BY <2>1, <2>3, <2>4 DEF PathOK, Typed
<1>3. ASSUME NEW q \in paths' PROVE PathOK(q, bodies', declared', left')
  <2>1. q \in paths \/ \E p \in paths : p.to = Here /\ q = over(p)
    BY <1>3 DEF Skip
  <2> HIDE DEF over
  <2> QED BY <1>1, <1>2, <2>1
<1> QED BY <1>3 DEF PathsInv

(* What a path is after it has freed what is in the scope.                 *)
LEMMA TakesStrings ==
  ASSUME PathsInv, NEW xs \in Seq(declared), Distinct(xs), left = 0 \/ xs = << >>,
         NEW p \in paths, p.to = Here
  PROVE  p.frees \o xs \in Seq(declared) /\ Distinct(p.frees \o xs)
<1>1. /\ p \in [frees : Seq(declared), to : {Here} \cup 2..Len(bodies)]
      /\ Distinct(p.frees)
      /\ left = 0 /\ p.frees # << >> => Waits(p, bodies)
  BY DEF PathsInv, PathOK, Typed
<1>2. CASE left = 0
  <2>1. p.frees = << >>
    BY <1>1, <1>2 DEF Waits
  <2>2. p.frees \o xs = xs
    BY <2>1, ConcatEmptySeq
  <2> QED BY <2>2
<1>3. CASE xs = << >>
  <2>1. p.frees \in Seq(declared)
    BY <1>1
  <2>2. p.frees \o xs = p.frees
    BY <1>3, <2>1, ConcatEmptySeq
  <2> QED BY <1>1, <2>1, <2>2
<1> QED BY <1>2, <1>3

LEMMA TakeTyped ==
  ASSUME PathsInv, NEW xs \in Seq(declared), Distinct(xs), left = 0 \/ xs = << >>,
         NEW n \in Nat, Len(bodies) <= n, Len(bodies) \in Nat,
         NEW to \in {Here} \cup 2..n, NEW q \in Take(paths, xs, to)
  PROVE  Typed(q, n, declared)
<1>1. PICK p \in paths : q = IF p.to = Here THEN [frees |-> p.frees \o xs, to |-> to] ELSE p
  BY DEF Take
<1>2. Typed(p, Len(bodies), declared)
  BY DEF PathsInv, PathOK
<1>3. CASE p.to = Here
  <2>1. p.frees \o xs \in Seq(declared) /\ Distinct(p.frees \o xs)
    BY <1>3, TakesStrings
  <2>2. /\ q \in [frees : Seq(declared), to : {Here} \cup 2..n]
        /\ q.frees = p.frees \o xs
    BY <1>1, <1>3, <2>1
  <2> QED BY <2>1, <2>2 DEF Typed
<1>4. CASE p.to # Here
  <2>1. q = p /\ p.to \in {Here} \cup 2..n
    BY <1>1, <1>2, <1>4 DEF Typed
  <2> QED BY <1>2, <2>1 DEF Typed
<1> QED BY <1>3, <1>4

(* Paths that went on at the end of the last body go on here.              *)
LEMMA ArriveTyped ==
  ASSUME NEW ps, NEW n \in Nat, NEW names, \A p \in ps : Typed(p, n, names),
         NEW q \in Arrive(ps, n)
  PROVE  Typed(q, n - 1, names)
<1>1. PICK p \in ps : q = IF p.to = n THEN [p EXCEPT !.to = Here] ELSE p
  BY DEF Arrive
<1>2. p \in [frees : Seq(names), to : {Here} \cup 2..n] /\ Distinct(p.frees)
  BY DEF Typed
<1>3. CASE p.to = n
  <2>1. /\ q \in [frees : Seq(names), to : {Here} \cup 2..(n - 1)]
        /\ q.frees = p.frees
    BY <1>1, <1>2, <1>3
  <2> QED BY <1>2, <2>1 DEF Typed
<1>4. CASE p.to # n
  <2>1. q = p /\ p.to \in {Here} \cup 2..(n - 1)
    BY <1>1, <1>2, <1>4 DEF Here
  <2> QED BY <1>2, <2>1 DEF Typed
<1> QED BY <1>3, <1>4

(* Once the scope has been left the types are all there is to a path.      *)
LEMMA PathsTyped ==
  ASSUME left' = 1, \A q \in paths' : Typed(q, Len(bodies'), declared')
  PROVE  PathsInv'
BY DEF PathsInv, PathOK

-----------------------------------------------------------------------------
(* Every step keeps the invariant.                                         *)

LEMMA SameBodies == ASSUME BodiesInv PROVE Grows(bodies, bodies) /\ Len(bodies) \in Nat
<1>1. Len(bodies) \in Nat
  BY DEF BodiesInv
<1> QED BY <1>1 DEF Grows

(* Steps that leave bodies and strings alone.                              *)
LEMMA PlainKeeps ==
  ASSUME Inv, UNCHANGED << bodies, strings >>, nodes' \in {nodes, nodes + 1}, PathsInv', StatusInv'
  PROVE  Inv'
<1>1. StringsInv'
  BY SameStrings DEF Inv
<1>2. BodiesInv'
  BY DEF Inv, BodiesInv
<1> QED BY <1>1, <1>2 DEF Inv

LEMMA FailKeeps ==
  ASSUME Inv, NEW outcome \in {"crashed", "undefined"}, Fail(outcome),
         nodes' \in {nodes, nodes + 1}, outcome = "undefined" => allocatedStrings = << >>
  PROVE  Inv'
<1>1. left' = left /\ declared' = declared /\ UNCHANGED << bodies, strings, paths >>
  BY DEF Fail, strings
<1>2. PathsInv'
  BY <1>1 DEF Inv, PathsInv
<1>3. allocatedStrings = << >> => left = 1
  <2>1. Len(<< >>) = 0 /\ left \in Nat
    BY DEF Inv, StringsInv, StringsTyped
  <2> QED BY <2>1 DEF Inv, StringsInv, OneScope
<1>4. StatusInv'
  BY <1>1, <1>3 DEF Fail, StatusInv
<1> QED BY <1>1, <1>2, <1>4, PlainKeeps

(* Steps that change nothing but the number of nodes.                      *)
LEMMA QuietKeeps ==
  ASSUME Inv, UNCHANGED << bodies, strings, paths, status >>, nodes' \in {nodes, nodes + 1}
  PROVE  Inv'
<1>1. left' = left /\ declared' = declared
  BY DEF strings
<1>2. PathsInv' /\ StatusInv'
  BY <1>1 DEF Inv, PathsInv, StatusInv
<1> QED BY <1>2, PlainKeeps

LEMMA DefineKeeps ==
  ASSUME Inv, NEW kind \in {"function", "main"}, Define(kind)
  PROVE  Inv'
<1>1. /\ nodes' = nodes + 1 /\ bodies' = Append(bodies, kind) /\ paths' = {NewPath}
      /\ UNCHANGED << strings, status >>
  BY DEF Define, AtTop, Visit, Open
<1>2. StringsInv' /\ left' = left /\ declared' = declared
  BY <1>1, SameStrings DEF Inv
<1>3. BodiesInv'
  BY <1>1, OpenKeeps DEF Inv, Body, BodyKinds
<1>4. PathsInv'
  <2>1. /\ NewPath \in [frees : Seq(declared'), to : {Here} \cup 2..Len(bodies')]
        /\ NewPath.frees = << >>
    BY DEF NewPath
  <2>2. Distinct(<< >>)
    BY DEF Distinct
  <2> QED BY <1>1, <2>1, <2>2 DEF PathsInv, PathOK, Typed
<1>5. StatusInv'
  BY <1>1, <1>2 DEF Inv, StatusInv
<1> QED BY <1>2, <1>3, <1>4, <1>5 DEF Inv

LEMMA DeclareKeeps ==
  ASSUME Inv, NEW isString \in BOOLEAN, Declare(isString)
  PROVE  Inv'
<1>1. nodes' = nodes + 1
  BY DEF Declare, AtStatement, Visit
<1>2. CASE ~isString
  BY <1>1, <1>2, QuietKeeps DEF Declare, Registers
<1>3. CASE isString /\ allocatedStrings = << >>
  BY <1>1, <1>3, FailKeeps DEF Declare, Registers
<1>4. CASE isString /\ allocatedStrings # << >>
  <2>1. isString = TRUE
    BY <1>4
  <2>2. StringsInv' /\ left' = left /\ declared \subseteq declared'
    BY <1>4, <2>1, Declares DEF Inv
  <2>3. UNCHANGED << bodies, paths, status >>
    BY <1>4 DEF Declare, Registers
  <2>4. BodiesInv' /\ StatusInv'
    BY <2>2, <2>3 DEF Inv, BodiesInv, StatusInv
  <2>5. PathsInv'
    BY <2>2, <2>3, SameBodies, PathsGrow DEF Inv
  <2> QED BY <2>2, <2>4, <2>5 DEF Inv
<1> QED BY <1>2, <1>3, <1>4

LEMMA ReturnKeeps == ASSUME Inv, Return PROVE Inv'
<1>1. /\ nodes' = nodes + 1 /\ paths' \subseteq paths
      /\ UNCHANGED << bodies, strings, status >>
  BY DEF Return, AtStatement, Visit
<1>2. left' = left /\ declared' = declared
  BY <1>1 DEF strings
<1>3. PathsInv'
  BY <1>1, <1>2, SameBodies, PathsGrow DEF Inv
<1>4. StatusInv'
  BY <1>1, <1>2 DEF Inv, StatusInv
<1> QED BY <1>1, <1>3, <1>4, PlainKeeps

LEMMA BreakKeeps == ASSUME Inv, Break PROVE Inv'
<1>1. nodes' = nodes + 1 /\ In \in BodyKinds
  BY DEF Break, AtStatement, Visit
<1>2. CASE In = "for" /\ allocatedStrings = << >> /\ Fail("undefined")
  BY <1>1, <1>2, FailKeeps
<1>3. CASE In \notin {"for", "while"} /\ UNCHANGED << bodies, strings, paths, status >>
  BY <1>1, <1>3, QuietKeeps
<1>4. ASSUME NEW xs \in Seq(declared), Distinct(xs), left = 0 \/ xs = << >>,
             xs # << >> => In = "for", In # "program",
             paths' = Take(paths, xs, Len(bodies)), UNCHANGED << bodies, strings, status >>
      PROVE  Inv'
  <2>1. /\ left' = left /\ declared' = declared /\ Len(bodies') = Len(bodies)
        /\ bodies' = bodies
    BY <1>4 DEF strings
  <2>2. Len(bodies) \in Nat /\ Len(bodies) >= 2 /\ bodies[Len(bodies)] = In
    <3>1. In = bodies[Len(bodies)]
      BY FrontFacts DEF Inv, BodiesInv, In
    <3> QED BY <1>4, <3>1, FrontOfBodies DEF Inv
  <2>3. ASSUME NEW q \in paths' PROVE PathOK(q, bodies', declared', left')
    <3>1. Typed(q, Len(bodies'), declared')
      <4>1. Len(bodies) \in {Here} \cup 2..Len(bodies)
        BY <2>2
      <4>2. q \in Take(paths, xs, Len(bodies))
        BY <1>4, <2>3
      <4> QED BY <1>4, <2>1, <2>2, <4>1, <4>2, TakeTyped DEF Inv
    <3>2. ASSUME left = 0, q.frees # << >> PROVE Waits(q, bodies)
      <4>1. PICK p \in paths :
              q = IF p.to = Here THEN [frees |-> p.frees \o xs, to |-> Len(bodies)] ELSE p
        BY <1>4 DEF Take
      <4>2. /\ p \in [frees : Seq(declared), to : {Here} \cup 2..Len(bodies)]
            /\ p.frees # << >> => Waits(p, bodies)
        BY <3>2 DEF Inv, PathsInv, PathOK, Typed
      <4>3. CASE p.to = Here
        <5>1. p.frees = << >>
          BY <4>2, <4>3 DEF Waits
        <5>2. q.frees = xs /\ q.to = Len(bodies)
          BY <4>1, <4>3, <5>1, ConcatEmptySeq
        <5> QED BY <1>4, <2>2, <3>2, <5>2 DEF Waits, Here
      <4>4. CASE p.to # Here
        BY <3>2, <4>1, <4>2, <4>4
      <4> QED BY <4>3, <4>4
    <3> QED BY <2>1, <3>1, <3>2 DEF PathOK
  <2>4. PathsInv' /\ StatusInv'
    BY <1>4, <2>1, <2>3 DEF Inv, PathsInv, StatusInv
  <2> QED BY <1>1, <1>4, <2>4, PlainKeeps
<1>5. CASE /\ In = "for" /\ allocatedStrings # << >>
           /\ paths' = Take(paths, Last(allocatedStrings), Len(bodies))
           /\ UNCHANGED << bodies, strings, status >>
  <2>1. /\ left = 0 /\ Last(allocatedStrings) \in Seq(declared)
        /\ Distinct(Last(allocatedStrings))
    BY <1>5, TheScope DEF Inv, StringsInv, Registered
  <2> QED BY <1>4, <1>5, <2>1
<1>6. CASE /\ In = "while"
           /\ paths' = Take(paths, << >>, Len(bodies))
           /\ UNCHANGED << bodies, strings, status >>
  <2>1. << >> \in Seq(declared) /\ Distinct(<< >>)
    BY DEF Distinct
  <2> QED BY <1>4, <1>6, <2>1
<1> QED BY <1>2, <1>3, <1>5, <1>6 DEF Break

(* Steps that open a body some paths pass over.                            *)
LEMMA OpenBodyKeeps ==
  ASSUME Inv, BodiesInv', Grows(bodies, bodies'), Len(bodies') >= 2,
         paths' = Skip(paths, Len(bodies')), UNCHANGED << strings, status >>,
         nodes' \in {nodes, nodes + 1}
  PROVE  Inv'
<1>1. StringsInv' /\ left' = left /\ declared' = declared
  BY SameStrings DEF Inv
<1>2. PathsInv'
  BY <1>1, PathsSkip DEF Inv
<1>3. StatusInv'
  BY <1>1 DEF Inv, StatusInv
<1> QED BY <1>1, <1>2, <1>3 DEF Inv

LEMMA OpenedGrows ==
  ASSUME BodiesInv, NEW kind \in Body, bodies' = Append(bodies, kind)
  PROVE  BodiesInv' /\ Grows(bodies, bodies') /\ Len(bodies') >= 2
<1>1. /\ Len(bodies') = Len(bodies) + 1 /\ Len(bodies) \in Nat /\ Len(bodies) >= 1
      /\ \A i \in 1..Len(bodies) : bodies'[i] = bodies[i]
  BY AppendFacts, FrontFacts DEF BodiesInv
<1>2. BodiesInv'
  BY OpenKeeps
<1> QED BY <1>1, <1>2 DEF Grows

LEMMA LoopKeeps == ASSUME Inv, NEW kind \in {"for", "while"}, Loop(kind) PROVE Inv'
<1>1. /\ nodes' = nodes + 1 /\ bodies' = Append(bodies, kind) /\ kind \in Body
      /\ paths' = Skip(paths, Len(bodies')) /\ UNCHANGED << strings, status >>
  BY DEF Loop, AtStatement, Visit, Open, Body, BodyKinds
<1> QED BY <1>1, OpenedGrows, OpenBodyKeeps DEF Inv

LEMMA IfKeeps == ASSUME Inv, If PROVE Inv'
<1>1. /\ nodes' \in {nodes, nodes + 1} /\ paths' = Skip(paths, Len(bodies'))
      /\ UNCHANGED << strings, status >>
  BY DEF If, AtStatement, Visit
<1>2. CASE AtStatement("if") /\ Open("then")
  <2>1. bodies' = Append(bodies, "then") /\ "then" \in Body
    BY <1>2 DEF Open, Body
  <2> QED BY <1>1, <2>1, OpenedGrows, OpenBodyKeeps DEF Inv
<1>3. CASE In = "elseIf" /\ bodies' = Front(bodies) \o << "else", "then" >>
  <2>1. /\ Front(bodies) \in Seq(Body) /\ Front(bodies) # << >>
        /\ Front(bodies)[1] = "program"
        /\ Len(bodies) \in Nat /\ Len(bodies) >= 2
        /\ Len(Front(bodies)) = Len(bodies) - 1
        /\ \A i \in 1..(Len(bodies) - 1) : Front(bodies)[i] = bodies[i]
        /\ bodies[Len(bodies)] = "elseIf"
    <3>1. In = bodies[Len(bodies)]
      BY FrontFacts DEF Inv, BodiesInv, In
    <3> QED BY <1>3, <3>1, FrontOfBodies DEF Inv
  <2> DEFINE front == Front(bodies)
             tail == << "else", "then" >>
  <2>2. tail \in Seq(Body) /\ front \in Seq(Body) /\ Len(front) \in Nat \ {0} /\ Len(tail) = 2
    BY <2>1, EmptySeq DEF Body
  <2>3. /\ bodies' \in Seq(Body) /\ Len(bodies') = Len(front) + 2
        /\ \A i \in 1..(Len(front) + 2) :
             bodies'[i] = IF i <= Len(front) THEN front[i] ELSE tail[i - Len(front)]
    <3> HIDE DEF tail
    <3> QED BY <1>3, <2>2, ConcatProperties DEF tail
  <2>4. BodiesInv'
    <3>1. 1 \in 1..(Len(front) + 2) /\ 1 <= Len(front) /\ Len(bodies') # 0
      BY <2>2, <2>3
    <3>2. bodies' # << >>
      BY <3>1
    <3> QED BY <2>1, <2>3, <3>1, <3>2 DEF BodiesInv
  <2>5. Grows(bodies, bodies') /\ Len(bodies') >= 2
    <3> HIDE DEF tail
    <3>1. \A i \in 1..(Len(bodies) - 1) : bodies'[i] = bodies[i]
      BY <2>1, <2>3
    <3>2. 1..Len(bodies) = 1..(Len(bodies) - 1) \cup {Len(bodies)}
      BY <2>1
    <3>3. Len(bodies') = Len(bodies) + 1
      BY <2>1, <2>3
    <3> QED BY <2>1, <3>1, <3>2, <3>3 DEF Grows
  <2> QED BY <1>1, <2>4, <2>5, OpenBodyKeeps
<1> QED BY <1>2, <1>3 DEF If

(* Steps that leave the scope: what comes of the paths is theirs to say.   *)
LEMMA LeaveKeeps ==
  ASSUME Inv, LeaveBlock, allocatedStrings # << >>, UNCHANGED status,
         nodes' \in {nodes, nodes + 1}, BodiesInv',
         \A q \in paths' : Typed(q, Len(bodies'), declared)
  PROVE  Inv'
<1>1. StringsInv' /\ left' = 1 /\ declared' = declared
  BY Leaves DEF Inv
<1>2. PathsInv'
  BY <1>1, PathsTyped
<1>3. StatusInv'
  BY <1>1 DEF Inv, StatusInv
<1> QED BY <1>1, <1>2, <1>3 DEF Inv

LEMMA ClosedPaths ==
  ASSUME Inv, In # "program", Close, NEW xs \in Seq(declared), Distinct(xs), left = 0 \/ xs = << >>,
         NEW q \in Arrive(Take(paths, xs, Here), Len(bodies))
  PROVE  Typed(q, Len(bodies'), declared)
<1>1. Len(bodies) \in Nat /\ Len(bodies') = Len(bodies) - 1
  BY FrontOfBodies DEF Inv, Close
<1>2. \A p \in Take(paths, xs, Here) : Typed(p, Len(bodies), declared)
  BY <1>1, TakeTyped DEF Inv
<1> QED BY <1>1, <1>2, ArriveTyped

LEMMA CloseKeeps == ASSUME BodiesInv, In # "program", Close PROVE BodiesInv'
BY FrontOfBodies DEF Close, BodiesInv

LEMMA EndThenKeeps == ASSUME Inv, NEW orelse \in Orelse, EndThen(orelse) PROVE Inv'
<1>1. nodes' \in {nodes, nodes + 1} /\ In = "then" /\ In # "program"
  BY DEF EndThen, Visit
<1>2. CASE allocatedStrings = << >>
  BY <1>1, <1>2, FailKeeps DEF EndThen
<1>3. CASE allocatedStrings # << >>
  <2> DEFINE xs == Last(allocatedStrings)
             n == Len(bodies)
  <2>1. LeaveBlock /\ UNCHANGED status
    BY <1>3 DEF EndThen
  <2>2. left = 0 /\ xs \in Seq(declared) /\ Distinct(xs)
    BY <1>1, <1>3, <2>1, Leaves DEF Inv
  <2> HIDE DEF xs
  <2>3. CASE orelse = "none"
    <3>1. Close /\ paths' = Arrive(Take(paths, xs, Here), Len(bodies))
      BY <1>3, <2>3 DEF EndThen, xs
    <3>2. BodiesInv'
      BY <1>1, <3>1, CloseKeeps DEF Inv
    <3>3. \A q \in paths' : Typed(q, Len(bodies'), declared)
      BY <1>1, <2>2, <3>1, ClosedPaths
    <3> QED BY <1>1, <1>3, <2>1, <3>2, <3>3, LeaveKeeps
  <2>4. CASE orelse # "none"
    <3>1. bodies' = Append(Front(bodies), orelse) /\ paths' = Pass(paths, xs, n)
      BY <1>3, <2>4 DEF EndThen, xs
    <3>2. orelse \in Body
      BY <2>4, BuilderAssumption DEF Body
    <3>3. BodiesInv'
      BY <1>1, <3>1, <3>2, ReplaceKeeps DEF Inv
    <3>4. n \in Nat /\ n >= 2 /\ Len(bodies') = n
      <4>1. Front(bodies) \in Seq(Body) /\ n \in Nat /\ n >= 2 /\ Len(Front(bodies)) = n - 1
        BY <1>1, FrontOfBodies DEF Inv
      <4>2. Len(bodies') = (n - 1) + 1
        BY <3>1, <3>2, <4>1, AppendFacts
      <4> QED BY <4>1, <4>2
    <3>5. ASSUME NEW q \in paths' PROVE Typed(q, Len(bodies'), declared)
      <4>1. \/ q \in Take({p \in paths : p.to = Here}, xs, n)
            \/ q \in Arrive({p \in paths : p.to # Here}, n)
        BY <3>1, <3>5 DEF Pass
      <4>2. CASE q \in Take({p \in paths : p.to = Here}, xs, n)
        <5>1. q \in Take(paths, xs, n)
          BY <4>2 DEF Take
        <5>2. n \in {Here} \cup 2..n
          BY <3>4
        <5> QED BY <2>2, <3>4, <5>1, <5>2, TakeTyped DEF Inv
      <4>3. CASE q \in Arrive({p \in paths : p.to # Here}, n)
        <5> DEFINE ps == {p \in paths : p.to # Here}
        <5>1. \A p \in ps : Typed(p, n, declared)
          BY DEF Inv, PathsInv, PathOK
        <5> HIDE DEF ps
        <5>2. Typed(q, n - 1, declared)
          BY <3>4, <4>3, <5>1, ArriveTyped DEF ps
        <5> QED BY <3>4, <5>2 DEF Typed
      <4> QED BY <4>1, <4>2, <4>3
    <3> QED BY <1>1, <1>3, <2>1, <3>3, <3>5, LeaveKeeps
  <2> QED BY <2>3, <2>4
<1> QED BY <1>2, <1>3

LEMMA EndScopeKeeps == ASSUME Inv, EndScope PROVE Inv'
<1>1. nodes' = nodes /\ In # "program"
  BY DEF EndScope
<1>2. CASE allocatedStrings = << >>
  BY <1>1, <1>2, FailKeeps DEF EndScope
<1>3. CASE allocatedStrings # << >>
  <2> DEFINE xs == Last(allocatedStrings)
  <2>1. /\ LeaveBlock /\ Close /\ UNCHANGED status
        /\ paths' = Arrive(Take(paths, xs, Here), Len(bodies))
    BY <1>3 DEF EndScope
  <2>2. left = 0 /\ xs \in Seq(declared) /\ Distinct(xs)
    BY <1>1, <1>3, <2>1, Leaves DEF Inv
  <2> HIDE DEF xs
  <2>3. \A q \in paths' : Typed(q, Len(bodies'), declared)
    BY <1>1, <2>1, <2>2, ClosedPaths
  <2>4. BodiesInv'
    BY <1>1, <2>1, CloseKeeps DEF Inv
  <2> QED BY <1>1, <1>3, <2>1, <2>3, <2>4, LeaveKeeps
<1> QED BY <1>2, <1>3

(* A path that left a while by break has freed nothing while there is a    *)
(* scope, so it may go on here.                                            *)
LEMMA EndBodyKeeps == ASSUME Inv, EndBody PROVE Inv'
<1>1. /\ In \in {"function", "main", "while"} /\ In # "program" /\ Close /\ nodes' = nodes
      /\ paths' = Arrive(paths, Len(bodies)) /\ UNCHANGED << strings, status >>
  BY DEF EndBody
<1>2. StringsInv' /\ left' = left /\ declared' = declared
  BY <1>1, SameStrings DEF Inv
<1>3. BodiesInv'
  BY <1>1, CloseKeeps DEF Inv
<1>4. /\ Len(bodies) \in Nat /\ Len(bodies) >= 2 /\ Len(bodies') = Len(bodies) - 1
      /\ \A i \in 1..(Len(bodies) - 1) : bodies'[i] = bodies[i]
      /\ bodies[Len(bodies)] # "for"
  <2>1. In = bodies[Len(bodies)]
    BY FrontFacts DEF Inv, BodiesInv, In
  <2> QED BY <1>1, <2>1, FrontOfBodies DEF Inv, Close
<1>5. ASSUME NEW q \in paths' PROVE PathOK(q, bodies', declared', left')
  <2>1. \A p \in paths : Typed(p, Len(bodies), declared)
    BY DEF Inv, PathsInv, PathOK
  <2>2. Typed(q, Len(bodies'), declared')
    BY <1>1, <1>2, <1>4, <1>5, <2>1, ArriveTyped
  <2>3. ASSUME left = 0, q.frees # << >> PROVE Waits(q, bodies')
    <3>1. PICK p \in paths : q = IF p.to = Len(bodies) THEN [p EXCEPT !.to = Here] ELSE p
      BY <1>1 DEF Arrive
    <3>2. /\ p \in [frees : Seq(declared), to : {Here} \cup 2..Len(bodies)]
          /\ p.frees # << >> => Waits(p, bodies)
      BY <2>3 DEF Inv, PathsInv, PathOK, Typed
    <3>3. q.frees = p.frees
      BY <3>1, <3>2
    <3>4. Waits(p, bodies) /\ p.to # Len(bodies)
      BY <1>4, <2>3, <3>2, <3>3 DEF Waits
    <3>5. q = p /\ p.to \in 1..(Len(bodies) - 1)
      BY <1>4, <3>1, <3>2, <3>4 DEF Waits, Here
    <3> QED BY <1>4, <3>4, <3>5 DEF Waits
  <2> QED BY <1>2, <2>2, <2>3 DEF PathOK
<1>6. PathsInv' /\ StatusInv'
  BY <1>1, <1>2, <1>5 DEF Inv, PathsInv, StatusInv
<1> QED BY <1>2, <1>3, <1>6 DEF Inv

LEMMA FinishKeeps == ASSUME Inv, Finish PROVE Inv'
<1>1. /\ UNCHANGED << bodies, strings, paths, nodes >> /\ status' = "done"
      /\ left' = left /\ declared' = declared
  BY DEF Finish, strings
<1>2. PathsInv' /\ StatusInv'
  BY <1>1 DEF Inv, PathsInv, StatusInv
<1> QED BY <1>1, <1>2, PlainKeeps

LEMMA NextKeeps == ASSUME Inv, [Next]_vars PROVE Inv'
<1>1. ASSUME NEW kind \in {"function", "main"}, Define(kind) PROVE Inv'
  BY <1>1, DefineKeeps
<1>2. CASE TopLevelNode
  BY <1>2, QuietKeeps DEF TopLevelNode, AtTop, Visit
<1>3. CASE NullNode
  BY <1>3, FailKeeps DEF NullNode, AtTop, Visit
<1>4. ASSUME NEW isString \in BOOLEAN, Declare(isString) PROVE Inv'
  BY <1>4, DeclareKeeps
<1>5. CASE DeclareOnly
  BY <1>5, FailKeeps DEF DeclareOnly, AtStatement, Visit
<1>6. CASE NullStatement
  <2>1. nodes' = nodes + 1
    BY <1>6 DEF NullStatement, AtStatement, Visit
  <2>2. CASE Fail("crashed")
    BY <2>1, <2>2, FailKeeps
  <2>3. CASE UNCHANGED << bodies, strings, paths, status >>
    BY <2>1, <2>3, QuietKeeps
  <2> QED BY <1>6, <2>2, <2>3 DEF NullStatement
<1>7. CASE LoopWithoutBody
  BY <1>7, FailKeeps DEF LoopWithoutBody, AtStatement, Visit
<1>8. CASE OtherStatement
  BY <1>8, QuietKeeps DEF OtherStatement, AtStatement, Visit
<1>9. CASE Return
  BY <1>9, ReturnKeeps
<1>10. CASE Break
  BY <1>10, BreakKeeps
<1>11. CASE If
  BY <1>11, IfKeeps
<1>12. ASSUME NEW orelse \in Orelse, EndThen(orelse) PROVE Inv'
  BY <1>12, EndThenKeeps
<1>13. ASSUME NEW kind \in {"for", "while"}, Loop(kind) PROVE Inv'
  BY <1>13, LoopKeeps
<1>14. CASE EndScope
  BY <1>14, EndScopeKeeps
<1>15. CASE EndBody
  BY <1>15, EndBodyKeeps
<1>16. CASE Finish
  BY <1>16, FinishKeeps
<1>17. CASE UNCHANGED vars
  BY <1>17, QuietKeeps DEF vars, strings, Inv, StringsInv, StringsTyped
<1> QED
  BY <1>1, <1>2, <1>3, <1>4, <1>5, <1>6, <1>7, <1>8, <1>9, <1>10, <1>11, <1>12, <1>13, <1>14,
     <1>15, <1>16, <1>17 DEF Next, Halted

LEMMA InitInv == ASSUME Init PROVE Inv
<1>1. allocatedStrings = << << >> >> /\ Len(allocatedStrings) = 1 /\ DOMAIN allocatedStrings = {1}
  BY DEF Init, FirstScopes
<1>2. Pending = {}
  BY <1>1, ToSetEmpty DEF Init, Pending
<1>3. StringsTyped
  BY DEF Init, StringsTyped, FirstScopes
<1>4. OneScope /\ Registered /\ NoStringForgotten
  BY <1>1, <1>2 DEF Init, OneScope, Registered, Distinct, NoStringForgotten
<1>5. BodiesInv /\ StatusInv
  BY DEF Init, BodiesInv, Body, StatusInv
<1>6. PathsInv
  <2>1. NewPath \in [frees : Seq(declared), to : {Here} \cup 2..Len(bodies)] /\ NewPath.frees = << >>
    BY DEF NewPath
  <2>2. Distinct(<< >>)
    BY DEF Distinct
  <2> QED BY <2>1, <2>2 DEF Init, PathsInv, PathOK, Typed
<1> QED BY <1>3, <1>4, <1>5, <1>6 DEF Inv, StringsInv

-----------------------------------------------------------------------------
(* The theorems.                                                           *)

THEOREM Invariance == Spec => []Inv
<1>1. Init => Inv
  BY InitInv
<1>2. Inv /\ [Next]_vars => Inv'
  BY NextKeeps
<1> QED BY <1>1, <1>2, PTL DEF Spec

(* The bookkeeping of the back end is well formed for every program: only  *)
(* strings the C code declares are kept to be freed or freed.              *)
THEOREM TypeCorrect == Spec => []TypeOK
<1>1. Inv => TypeOK
  <2> SUFFICES ASSUME Inv PROVE TypeOK
    OBVIOUS
  <2>1. \A p \in paths : p.frees \in Seq(declared) /\ p.to \in {Here} \cup 2..Len(bodies)
    BY DEF Inv, PathsInv, PathOK, Typed
  <2> QED BY <2>1 DEF Inv, StringsInv, StringsTyped, BodiesInv, StatusInv, Body, TypeOK
<1> QED BY <1>1, Invariance, PTL

(* A string the C code declares is freed by some body or still in a scope, *)
(* whatever registerString and leaveBlock are called in.                   *)
THEOREM NoneForgotten == Spec => []NoStringForgotten
<1>1. Inv => NoStringForgotten
  BY DEF Inv, StringsInv
<1> QED BY <1>1, Invariance, PTL

(* The frees at breaks and at the ends of bodies never meet twice on a     *)
(* path that enters each loop once at most.                                *)
THEOREM EachReleasedOnce == Spec => []ReleasedOnce
<1>1. Inv => ReleasedOnce
  BY DEF Inv, PathsInv, PathOK, Typed, Distinct, ReleasedOnce
<1> QED BY <1>1, Invariance, PTL

(* leaveBlock is called once at most in a translation that stays defined,  *)
(* and nothing but a call before it makes one undefined.                   *)
THEOREM OneScopeToLeave == Spec => []OneScopeOnly
<1>1. Inv => OneScopeOnly
  BY DEF Inv, StringsInv, StringsTyped, OneScope, StatusInv, OneScopeOnly
<1> QED BY <1>1, Invariance, PTL
=============================================================================
