---------------------------- MODULE ParserProofs ----------------------------
(* Theorems about the parser and the driver, for programs of any length    *)
(* and any nesting.                                                        *)
EXTENDS Compiler, CommonLemmas

-----------------------------------------------------------------------------
(* The points of each parse function, and which of them wait for which.    *)

IfPart == {"if", "ifOpen", "ifClose", "ifElse", "else", "elseEnd"}
CallPart == {"call", "callOpen", "args", "arg"}
ReturnPart == {"return", "returnEnd"}
ParenPart == {"paren", "parenClose"}
CollectionPart == {"collection", "elements", "elementDone"}
ExprPart == {"expr", "exprNext"}
SumPart == {"sum", "sumNext"}
TypePart == {"type", "typeArg", "typeClose"}
BlockPart == {"braces", "block"}
MainPart == {"main", "mainBody", "mainLoop", "mainEnd"}
ProgramPart == {"program", "afterMain"}
StatementPart ==
  {"statement", "let", "letName", "letType", "letTyped", "letValue", "letEnd",
   "element", "elementOpen", "elementClose", "elementSet", "elementEnd",
   "while", "whileOpen", "whileClose",
   "for", "forOpen", "forVar", "forArrow", "forColon", "forTo", "forStep", "forList",
   "forClose", "bodyEnd", "function", "functionName", "functionOpen", "params", "paramType",
   "does", "functionEnd", "extern", "externKeyword", "externName", "externOpen",
   "externParams", "externParam", "externType", "externElement", "externArrow"}

Parts ==
  {IfPart, CallPart, ReturnPart, ParenPart, CollectionPart, ExprPart, SumPart, TypePart,
   BlockPart, MainPart, ProgramPart, StatementPart}

Lists == {"program", "mainLoop", "block"}
ExprCallers ==
  {"letEnd", "returnEnd", "elementClose", "elementEnd", "ifClose", "whileClose", "parenClose",
   "args", "elementDone"}
SumCallers == {"forColon", "forStep", "forClose"}
Nexts == {"exprNext", "sumNext"}
TypeCallers == {"letTyped", "typeClose", "paramType"}
BlockCallers == {"mainEnd", "ifElse", "bodyEnd"}

(* A function that has come to p may wait for one that has come to q.      *)
Calls(p, q) ==
  \/ p \in Lists /\ q \in StatementPart \cup IfPart \cup CallPart \cup ReturnPart
  \/ p = "afterMain" /\ q \in MainPart
  \/ p \in BlockCallers /\ q \in BlockPart
  \/ p = "elseEnd" /\ q \in IfPart \cup BlockPart
  \/ p \in TypeCallers /\ q \in TypePart
  \/ p = "functionEnd" /\ q \in CallPart \cup BlockPart \cup ReturnPart \cup TypePart
  \/ p \in ExprCallers /\ q \in ExprPart
  \/ p \in SumCallers /\ q \in SumPart
  \/ p \in Nexts /\ q \in CallPart \cup ParenPart \cup CollectionPart

(* A function may go on from p at q, within it or, at the beginning of a   *)
(* statement, in the function for that kind of statement.                  *)
GoesOn(p, q) ==
  \/ \E part \in Parts : p \in part /\ q \in part
  \/ p = "statement" /\ q \in IfPart \cup CallPart

LEMMA GoingOn ==
  ASSUME NEW w, NEW p, NEW q, Calls(w, p), GoesOn(p, q)
  PROVE  Calls(w, q)
<1>1. CASE p = "statement" /\ q \in IfPart \cup CallPart
  <2>1. w \in Lists
    BY <1>1 DEF Calls, IfPart, CallPart, ReturnPart, ParenPart, CollectionPart, ExprPart, SumPart,
                TypePart, BlockPart, MainPart
  <2> QED BY <1>1, <2>1 DEF Calls
<1>2. CASE \E part \in Parts : p \in part /\ q \in part
  BY <1>2 DEF Calls, Parts, IfPart, CallPart, ReturnPart, ParenPart, CollectionPart, ExprPart,
              SumPart, TypePart, BlockPart, MainPart, ProgramPart, StatementPart
<1> QED BY <1>1, <1>2 DEF GoesOn

LEMMA CalledNotProgram ==
  ASSUME NEW p, NEW q, Calls(p, q)
  PROVE  q \notin ProgramPart
BY DEF Calls, IfPart, CallPart, ReturnPart, ParenPart, CollectionPart, ExprPart, SumPart,
       TypePart, BlockPart, MainPart, ProgramPart, StatementPart

LEMMA Within == \A part \in Parts : \A p, q \in part : GoesOn(p, q)
BY DEF GoesOn

LEMMA PartsArePoints == \A part \in Parts : part \subseteq Points
BY DEF Parts, Points, IfPart, CallPart, ReturnPart, ParenPart, CollectionPart, ExprPart, SumPart,
       TypePart, BlockPart, MainPart, ProgramPart, StatementPart

LEMMA GoesToPoint ==
  ASSUME NEW p, NEW q, GoesOn(p, q)
  PROVE  q \in Points
BY PartsArePoints DEF GoesOn, Parts

LEMMA CallsPoint ==
  ASSUME NEW p, NEW q, Calls(p, q)
  PROVE  q \in Points
BY PartsArePoints DEF Calls, Parts

-----------------------------------------------------------------------------
(* The invariant.                                                          *)

Frames == [at : Points, mark : BOOLEAN]

Below == stack[Len(stack) - 1]

(* Parse is at the bottom, and each function was called where the one      *)
(* below it waits.                                                         *)
WellStacked(s) ==
  /\ s \in Seq(Frames) /\ s # << >>
  /\ s[1].at \in ProgramPart
  /\ \A k \in 1..(Len(s) - 1) : Calls(s[k].at, s[k + 1].at)

Stacked == WellStacked(stack)

Typed ==
  /\ cur \in Token \cup Ended /\ nxt \in Token \cup Ended \cup {"unread"}
  /\ ret \in {Null, Node, NoValue}
  /\ moved \in BOOLEAN /\ hasErrors \in BOOLEAN /\ lax \in BOOLEAN /\ fq \in BOOLEAN
  /\ flaw \in Flaw
  /\ status \in {"parsing", "done", "crashed", "overread", "exhausted"}

(* An expression is null only after an error or at the end of the file.    *)
Waiting == ExprCallers \cup SumCallers \cup Nexts
NullExpressions ==
  Parsing /\ ret = Null /\ Top.at \in Waiting => hasErrors \/ cur \in Ended

(* While the index has not moved since an iteration began, the parser is   *)
(* about to consume a token or on the way back from an expression that is  *)
(* null or a statement that is EoF.                                        *)
Opening ==
  {"let", "if", "while", "for", "function", "call", "element", "extern", "return", "paren",
   "collection"}
Fresh ==
  Parsing /\ ~moved =>
    \/ Top.at \in Opening
    \/ Top.at = "statement" /\ (cur = "EoF" => Below.at # "mainLoop")
    \/ Top.at = "expr" /\ ~Top.mark /\ Below.at = "args"
    \/ Top.at = "exprNext" /\ ~Top.mark /\ Below.at = "args" /\ ret = Null
    \/ Top.at \in {"program", "block"} /\ cur = "EoF"
    \/ Top.at = "args" /\ ret = Null

Inv ==
  /\ Stacked /\ Typed /\ NullExpressions /\ Fresh
  /\ NullsAreReported /\ CrashesExplained

-----------------------------------------------------------------------------
(* Calls, returns and steps within a function keep the stack well formed.  *)

LEMMA StackFacts ==
  ASSUME NEW s, WellStacked(s)
  PROVE  /\ Len(s) \in Nat /\ Len(s) >= 1 /\ DOMAIN s = 1..Len(s)
         /\ Last(s) = s[Len(s)] /\ Last(s) \in Frames
         /\ Last(s).at \notin ProgramPart => Len(s) > 1
         /\ Len(s) > 1 => Calls(s[Len(s) - 1].at, Last(s).at)
<1>1. /\ Len(s) \in Nat /\ Len(s) >= 1 /\ DOMAIN s = 1..Len(s)
      /\ Last(s) = s[Len(s)] /\ Last(s) \in Frames
  BY FrontFacts DEF WellStacked
<1>2. ASSUME Len(s) = 1 PROVE Last(s).at \in ProgramPart
  BY <1>1, <1>2 DEF WellStacked
<1>3. ASSUME Len(s) > 1 PROVE Calls(s[Len(s) - 1].at, Last(s).at)
  <2>1. Len(s) - 1 \in 1..(Len(s) - 1) /\ (Len(s) - 1) + 1 = Len(s)
    BY <1>1, <1>3
  <2> QED BY <1>1, <2>1 DEF WellStacked
<1> QED BY <1>1, <1>2, <1>3

LEMMA ProgramGoesOn ==
  ASSUME NEW p \in ProgramPart, NEW q, GoesOn(p, q)
  PROVE  q \in ProgramPart
BY DEF GoesOn, Parts, IfPart, CallPart, ReturnPart, ParenPart, CollectionPart, ExprPart, SumPart,
       TypePart, BlockPart, MainPart, ProgramPart, StatementPart

(* A step within the function on top.                                      *)
LEMMA WellReplaced ==
  ASSUME NEW s, WellStacked(s), NEW frame \in Frames, GoesOn(Last(s).at, frame.at)
  PROVE  /\ WellStacked([s EXCEPT ![Len(s)] = frame])
         /\ Last([s EXCEPT ![Len(s)] = frame]) = frame
         /\ Len([s EXCEPT ![Len(s)] = frame]) = Len(s)
         /\ Len(s) > 1 => [s EXCEPT ![Len(s)] = frame][Len(s) - 1] = s[Len(s) - 1]
<1> DEFINE t == [s EXCEPT ![Len(s)] = frame]
<1>1. s \in Seq(Frames) /\ s # << >>
  BY DEF WellStacked
<1>2. Len(s) \in Nat /\ Len(s) >= 1 /\ Last(s) = s[Len(s)]
  BY StackFacts
<1>3. /\ t \in Seq(Frames) /\ t # << >> /\ Len(t) = Len(s)
      /\ t[Len(s)] = frame /\ Last(t) = frame
      /\ \A i \in 1..(Len(s) - 1) : t[i] = s[i]
  BY <1>1, ReplaceFacts DEF Last
<1> HIDE DEF t
<1>4. t[1].at \in ProgramPart
  <2>1. CASE Len(s) = 1
    <3>1. Last(s).at \in ProgramPart
      BY <1>2, <2>1 DEF WellStacked
    <3>2. frame.at \in ProgramPart
      BY <3>1, ProgramGoesOn
    <3> QED BY <1>3, <2>1, <3>2
  <2>2. CASE Len(s) > 1
    <3>1. 1 \in 1..(Len(s) - 1)
      BY <1>2, <2>2
    <3> QED BY <1>3, <3>1 DEF WellStacked
  <2>3. Len(s) = 1 \/ Len(s) > 1
    <3>1. \A n \in Nat : n >= 1 => n = 1 \/ n > 1
      OBVIOUS
    <3> QED BY <1>2, <3>1
  <2> QED BY <2>1, <2>2, <2>3
<1>5. ASSUME NEW k \in 1..(Len(s) - 1) PROVE Calls(t[k].at, t[k + 1].at)
  <2>1. CASE k = Len(s) - 1
    <3>1. Calls(s[k].at, frame.at)
      BY <1>2, <2>1, StackFacts, GoingOn
    <3>2. t[k] = s[k] /\ t[k + 1] = frame
      BY <1>2, <1>3, <2>1
    <3> QED BY <3>1, <3>2
  <2>2. CASE k < Len(s) - 1
    <3>1. t[k] = s[k] /\ t[k + 1] = s[k + 1]
      BY <1>2, <1>3, <2>2
    <3> QED BY <3>1 DEF WellStacked
  <2> QED BY <1>2, <2>1, <2>2
<1>6. Len(s) > 1 => t[Len(s) - 1] = s[Len(s) - 1]
  BY <1>2, <1>3
<1> QED BY <1>3, <1>4, <1>5, <1>6 DEF WellStacked, t

(* A call.                                                                 *)
LEMMA WellPushed ==
  ASSUME NEW s, WellStacked(s), NEW frame \in Frames, Calls(Last(s).at, frame.at)
  PROVE  /\ WellStacked(Append(s, frame)) /\ Last(Append(s, frame)) = frame
         /\ Len(Append(s, frame)) = Len(s) + 1
         /\ Append(s, frame)[Len(s)] = Last(s)
<1> DEFINE t == Append(s, frame)
<1>1. s \in Seq(Frames) /\ s # << >>
  BY DEF WellStacked
<1>2. Len(s) \in Nat /\ Len(s) >= 1 /\ Last(s) = s[Len(s)]
  BY StackFacts
<1>3. /\ t \in Seq(Frames) /\ t # << >> /\ Len(t) = Len(s) + 1
      /\ \A i \in 1..Len(s) : t[i] = s[i]
      /\ t[Len(s) + 1] = frame
  BY <1>1, AppendFacts
<1> HIDE DEF t
<1>4. Last(t) = frame
  BY <1>3 DEF Last
<1>5. ASSUME NEW k \in 1..Len(s) PROVE Calls(t[k].at, t[k + 1].at)
  <2>1. CASE k = Len(s)
    BY <1>2, <1>3, <2>1
  <2>2. CASE k < Len(s)
    <3>1. t[k] = s[k] /\ t[k + 1] = s[k + 1] /\ k \in 1..(Len(s) - 1)
      BY <1>2, <1>3, <2>2
    <3> QED BY <3>1 DEF WellStacked
  <2> QED BY <1>2, <2>1, <2>2
<1>6. t[1].at \in ProgramPart /\ t[Len(s)] = Last(s)
  BY <1>2, <1>3 DEF WellStacked
<1>7. WellStacked(t)
  <2>1. Len(t) - 1 = Len(s)
    BY <1>2, <1>3
  <2> QED BY <1>3, <1>5, <1>6, <2>1 DEF WellStacked
<1> QED BY <1>3, <1>4, <1>6, <1>7 DEF t

(* A return.                                                               *)
LEMMA WellPopped ==
  ASSUME NEW s, WellStacked(s), Last(s).at \notin ProgramPart
  PROVE  /\ WellStacked(Front(s)) /\ Last(Front(s)) = s[Len(s) - 1]
         /\ Len(s) > 1 /\ Calls(s[Len(s) - 1].at, Last(s).at)
<1>1. s \in Seq(Frames) /\ s # << >>
  BY DEF WellStacked
<1>2. /\ Len(s) \in Nat /\ Len(s) > 1
      /\ Calls(s[Len(s) - 1].at, Last(s).at)
  BY StackFacts
<1>3. /\ Front(s) \in Seq(Frames) /\ Len(Front(s)) = Len(s) - 1
      /\ \A i \in 1..(Len(s) - 1) : Front(s)[i] = s[i]
  BY <1>1, FrontFacts
<1>4. Front(s) # << >>
  BY <1>2, <1>3, EmptySeq
<1>5. Last(Front(s)) = s[Len(s) - 1]
  BY <1>2, <1>3 DEF Last
<1>6. /\ Front(s)[1].at \in ProgramPart
      /\ \A k \in 1..(Len(Front(s)) - 1) : Calls(Front(s)[k].at, Front(s)[k + 1].at)
  BY <1>2, <1>3 DEF WellStacked
<1> QED BY <1>2, <1>3, <1>4, <1>5, <1>6 DEF WellStacked

(* The same of the parser's own stack.                                     *)
LEMMA TopFacts ==
  ASSUME Stacked
  PROVE  /\ Len(stack) \in Nat /\ Len(stack) >= 1 /\ Top \in Frames
         /\ Top.at \notin ProgramPart => Calls(Below.at, Top.at)
BY StackFacts DEF Stacked, Top, Below

LEMMA GoneOn ==
  ASSUME Stacked, NEW frame \in Frames, GoesOn(Top.at, frame.at),
         stack' = [stack EXCEPT ![Len(stack)] = frame]
  PROVE  /\ Stacked' /\ Top' = frame
         /\ Top.at \notin ProgramPart => Below' = Below
<1>1. /\ WellStacked(stack') /\ Last(stack') = frame /\ Len(stack') = Len(stack)
      /\ Len(stack) > 1 => stack'[Len(stack) - 1] = stack[Len(stack) - 1]
  BY WellReplaced DEF Stacked, Top
<1> QED BY <1>1, StackFacts DEF Stacked, Top, Below

LEMMA Pushed ==
  ASSUME Stacked, NEW back, NEW frame \in Frames,
         GoesOn(Top.at, back), Calls(back, frame.at),
         stack' = Append([stack EXCEPT ![Len(stack)].at = back], frame)
  PROVE  Stacked' /\ Top' = frame /\ Below'.at = back
<1> DEFINE caller == [Top EXCEPT !.at = back]
           s == [stack EXCEPT ![Len(stack)] = caller]
<1>1. Top \in Frames /\ Top = stack[Len(stack)]
  BY StackFacts DEF Stacked, Top
<1>2. caller \in Frames /\ caller.at = back
  BY <1>1, GoesToPoint DEF Frames
<1>3. stack' = Append(s, frame)
  BY <1>1
<1>4. WellStacked(s) /\ Last(s) = caller /\ Len(s) = Len(stack)
  <2> HIDE DEF caller
  <2> QED BY <1>2, WellReplaced DEF Stacked, Top
<1> HIDE DEF s, caller
<1>5. /\ WellStacked(stack') /\ Last(stack') = frame /\ Len(stack') = Len(s) + 1
      /\ stack'[Len(s)] = caller
  <2>1. /\ WellStacked(Append(s, frame)) /\ Last(Append(s, frame)) = frame
        /\ Len(Append(s, frame)) = Len(s) + 1
        /\ Append(s, frame)[Len(s)] = Last(s)
    BY <1>2, <1>4, WellPushed
  <2> QED BY <1>3, <1>4, <2>1
<1>6. Len(stack') - 1 = Len(s)
  BY <1>4, <1>5, StackFacts
<1> QED BY <1>2, <1>5, <1>6 DEF Stacked, Top, Below

LEMMA Popped ==
  ASSUME Stacked, Top.at \notin ProgramPart, stack' = Front(stack)
  PROVE  Stacked' /\ Top' = Below /\ Calls(Below.at, Top.at) /\ Last(Front(stack)) = Below
BY WellPopped DEF Stacked, Top, Below

-----------------------------------------------------------------------------
(* The steps the parse functions are made of keep the invariant.           *)

Steady == fq' \in BOOLEAN /\ status' = status

(* The points at which the index may not have moved.                       *)
FreshPoints == Opening \cup {"statement", "expr", "exprNext", "program", "block", "args"}

LEMMA HasMoved ==
  ASSUME Inv, Parsing, Top.at \notin FreshPoints
  PROVE  moved
BY DEF Inv, Typed, Fresh, FreshPoints

LEMMA Reads ==
  ASSUME Typed, Shift \/ Stay
  PROVE  /\ cur' \in Token \cup Ended /\ nxt' \in Token \cup Ended \cup {"unread"}
         /\ moved' \in BOOLEAN
BY DEF Typed, Shift, Stay, After, Ended

(* What a step may do to the books on errors and flaws.                    *)
Excused == {"value", "then", "body", "for", "paramType"}
Books ==
  /\ hasErrors' \in BOOLEAN /\ lax' \in BOOLEAN /\ flaw' \in Flaw
  /\ NullsAreReported'

LEMMA QuietBooks ==
  ASSUME Inv, Quiet
  PROVE  Books /\ hasErrors' = hasErrors
BY DEF Inv, Typed, Quiet, Books, NullsAreReported

LEMMA ReportBooks ==
  ASSUME Report
  PROVE  Books /\ hasErrors'
BY DEF Report, Books, NullsAreReported, NoFlaw, Flaw, Flaws

LEMMA FlawedBooks ==
  ASSUME Inv, NEW what \in Flaws, Flawed(what), hasErrors' = hasErrors, lax' \in BOOLEAN,
         what \in Excused \/ hasErrors \/ cur' \in Ended
  PROVE  Books
<1>1. CASE flaw' = flaw
  BY <1>1 DEF Inv, Typed, Books, NullsAreReported
<1>2. CASE ~hasErrors /\ flaw' = [what |-> what, atEnd |-> cur' \in Ended]
  <2> DEFINE atEnd == cur' \in Ended
  <2>1. atEnd \in BOOLEAN /\ flaw' = [what |-> what, atEnd |-> atEnd]
    BY <1>2
  <2> HIDE DEF atEnd
  <2>2. flaw' \in Flaw /\ flaw'.what = what /\ flaw'.atEnd = atEnd
    BY <2>1 DEF Flaw
  <2>3. atEnd = (cur' \in Ended)
    BY DEF atEnd
  <2>4. NullsAreReported'
    BY <1>2, <2>2, <2>3 DEF NullsAreReported, Excused
  <2> QED BY <2>2, <2>4 DEF Inv, Typed, Books
<1> QED BY <1>1, <1>2 DEF Flawed

LEMMA SlotFacts ==
  /\ DOMAIN Slot = {"program", "block", "mainLoop", "args", "letEnd", "returnEnd", "ifElse",
                    "bodyEnd", "whileClose", "forColon", "forStep", "forClose"}
  /\ \A p \in DOMAIN Slot : Slot[p] \in Flaws
  /\ \A p \in {"letEnd", "ifElse", "bodyEnd"} : Slot[p] \in Excused
BY DEF Slot, Flaws, Excused

(* Going on within a function.                                             *)
LEMMA Goes ==
  ASSUME Inv, Parsing, Steady, Shift \/ Stay, Books, NEW frame \in Frames,
         GoesOn(Top.at, frame.at), stack' = [stack EXCEPT ![Len(stack)] = frame],
         ret' = NoValue, moved' \/ frame.at \in Opening
  PROVE  Inv'
<1>1. Stacked' /\ Top' = frame
  BY GoneOn DEF Inv
<1>2. Typed'
  BY Reads DEF Inv, Typed, Steady, Books, NoValue
<1>3. NullExpressions'
  BY DEF NullExpressions, NoValue, Null
<1>4. Fresh'
  BY <1>1 DEF Fresh
<1>5. CrashesExplained'
  BY DEF Steady, CrashesExplained, Parsing
<1> QED BY <1>1, <1>2, <1>3, <1>4, <1>5 DEF Inv, Books

LEMMA NextFrame ==
  ASSUME Stacked, NEW p, GoesOn(Top.at, p), stack' = [stack EXCEPT ![Len(stack)].at = p]
  PROVE  /\ Frame(p, Top.mark) \in Frames
         /\ Frame(p, Top.mark).at = p /\ Frame(p, Top.mark).mark = Top.mark
         /\ stack' = [stack EXCEPT ![Len(stack)] = Frame(p, Top.mark)]
<1>1. Top \in Frames /\ Top = stack[Len(stack)] /\ p \in Points
  BY StackFacts, GoesToPoint DEF Stacked, Top
<1>2. [Top EXCEPT !.at = p] = Frame(p, Top.mark)
  BY <1>1 DEF Frames, Frame
<1>3. stack' = [stack EXCEPT ![Len(stack)] = [Top EXCEPT !.at = p]]
  BY <1>1
<1> QED BY <1>1, <1>2, <1>3 DEF Frames, Frame

LEMMA GoesTo ==
  ASSUME Inv, Parsing, Steady, Shift \/ Stay, Books, NEW p, GoesOn(Top.at, p), Goto(p),
         moved' \/ p \in Opening
  PROVE  Inv'
<1>1. /\ Frame(p, Top.mark) \in Frames /\ Frame(p, Top.mark).at = p
      /\ stack' = [stack EXCEPT ![Len(stack)] = Frame(p, Top.mark)] /\ ret' = NoValue
  BY NextFrame DEF Inv, Goto
<1> QED BY <1>1, Goes

LEMMA Consumes ==
  ASSUME Inv, Parsing, Steady, NEW p, GoesOn(Top.at, p), Consume(p)
  PROVE  Inv'
BY QuietBooks, GoesTo DEF Consume, Shift

LEMMA Jumps ==
  ASSUME Inv, Parsing, Steady, NEW p, GoesOn(Top.at, p), Jump(p),
         Top.at \notin FreshPoints \/ p \in Opening
  PROVE  Inv'
BY QuietBooks, GoesTo, HasMoved DEF Jump, Stay

LEMMA ConsumesUnchecked ==
  ASSUME Inv, Parsing, Steady, NEW p, GoesOn(Top.at, p), ConsumeUnchecked(p)
  PROVE  Inv'
<1>1. Books
  BY DEF Inv, Typed, Books, ConsumeUnchecked, NullsAreReported
<1> QED BY <1>1, GoesTo DEF ConsumeUnchecked, Shift

(* Calls.                                                                  *)
LEMMA CallsIn ==
  ASSUME Inv, Parsing, Steady, NEW p, NEW back, NEW mark \in BOOLEAN, Quiet,
         GoesOn(Top.at, back), Calls(back, p), Push(Frame(p, mark), back),
         cur' \in Token \cup Ended, nxt' \in Token \cup Ended \cup {"unread"}, moved' \in BOOLEAN,
         \/ moved' \/ p \in Opening
         \/ p = "statement" /\ (cur' = "EoF" => back # "mainLoop")
         \/ p = "expr" /\ back = "args" /\ ~mark
  PROVE  Inv'
<1>1. Frame(p, mark) \in Frames /\ Frame(p, mark).at = p /\ Frame(p, mark).mark = mark
  BY CallsPoint DEF Frames, Frame
<1>2. Stacked' /\ Top' = Frame(p, mark) /\ Below'.at = back
  BY <1>1, Pushed DEF Inv, Push
<1>3. ret' = NoValue
  BY DEF Push
<1>4. Books /\ hasErrors' = hasErrors
  BY QuietBooks
<1>5. Typed'
  BY <1>3, <1>4 DEF Inv, Typed, Steady, Books, NoValue
<1>6. NullExpressions'
  BY <1>3 DEF NullExpressions, NoValue, Null
<1>7. Fresh'
  BY <1>1, <1>2 DEF Fresh
<1>8. CrashesExplained'
  BY DEF Steady, CrashesExplained, Parsing
<1> QED BY <1>2, <1>4, <1>5, <1>6, <1>7, <1>8 DEF Inv, Books

LEMMA Enters ==
  ASSUME Inv, Parsing, Steady, NEW p, NEW back, GoesOn(Top.at, back), Calls(back, p),
         Enter(p, back), Top.at \notin FreshPoints \/ p \in Opening
  PROVE  Inv'
<1>1. moved' \/ p \in Opening
  BY HasMoved DEF Enter, Stay
<1> QED BY <1>1, CallsIn, Reads DEF Enter, Inv

LEMMA ConsumesEnters ==
  ASSUME Inv, Parsing, Steady, NEW p, NEW back, GoesOn(Top.at, back), Calls(back, p),
         ConsumeEnter(p, back)
  PROVE  Inv'
<1>1. moved'
  BY DEF ConsumeEnter, Shift
<1> QED BY <1>1, CallsIn, Reads DEF ConsumeEnter, Inv

LEMMA Items ==
  ASSUME Inv, Parsing, Steady, NEW p, NEW back, GoesOn(Top.at, back), Calls(back, p),
         Item(p, back),
         \/ p = "return"
         \/ p = "statement" /\ (cur = "EoF" => back # "mainLoop")
         \/ p = "expr" /\ back = "args"
  PROVE  Inv'
<1>1. /\ cur' \in Token \cup Ended /\ nxt' \in Token \cup Ended \cup {"unread"}
      /\ moved' \in BOOLEAN /\ cur' = cur
  BY DEF Item, Inv, Typed
<1> QED BY <1>1, CallsIn DEF Item, Opening

(* Returns.                                                                *)
LEMMA Leaves ==
  ASSUME Inv, Parsing, Steady, Shift \/ Stay, Books, NEW value \in {Null, Node, NoValue}, Pop(value),
         Top.at \notin ProgramPart,
         value = Null => hasErrors' \/ cur' \in Ended \/ Below.at \notin Waiting,
         \/ moved'
         \/ Below.at \in {"program", "block"} /\ cur' = "EoF"
         \/ Below.at = "args" /\ value = Null
  PROVE  Inv'
<1>1. Stacked' /\ Top' = Below
  BY Popped DEF Inv, Pop
<1>2. Typed'
  BY Reads DEF Inv, Typed, Steady, Books, Pop
<1>3. NullExpressions'
  BY <1>1 DEF NullExpressions, Pop
<1>4. Fresh'
  BY <1>1 DEF Fresh, Pop
<1>5. CrashesExplained'
  BY DEF Steady, CrashesExplained, Parsing
<1> QED BY <1>1, <1>2, <1>3, <1>4, <1>5 DEF Inv, Books

LEMMA Rejects ==
  ASSUME Inv, Parsing, Steady, Top.at \notin ProgramPart,
         \/ Reject /\ Top.at \notin FreshPoints
         \/ ConsumeReject
  PROVE  Inv'
<1>1. moved'
  BY HasMoved DEF Reject, ConsumeReject, Stay, Shift
<1>2. (Shift \/ Stay) /\ Report /\ Pop(Null)
  BY DEF Reject, ConsumeReject
<1> QED BY <1>1, <1>2, ReportBooks, Leaves

LEMMA YieldsNode ==
  ASSUME Inv, Parsing, Steady, Top.at \notin ProgramPart,
         \/ Yield(Node) /\ Top.at \notin FreshPoints
         \/ ConsumeYield(Node)
  PROVE  Inv'
<1>1. moved'
  BY HasMoved DEF Yield, ConsumeYield, Stay, Shift
<1>2. (Shift \/ Stay) /\ Pop(Node) /\ Quiet
  BY DEF Yield, ConsumeYield, Return, Node, Null, Quiet
<1> QED BY <1>1, <1>2, QuietBooks, Leaves DEF Node, Null

(* A null is returned to where it may be one: not an expression, and a     *)
(* child of the tree only if it may be null or the end of the file is met. *)
LEMMA ReturnBooks ==
  ASSUME Inv, Top.at \notin ProgramPart, NEW value, Return(value),
         value = Null /\ Below.at \in DOMAIN Slot =>
           Slot[Below.at] \in Excused \/ hasErrors \/ cur' \in Ended
  PROVE  Books /\ hasErrors' = hasErrors /\ Pop(value)
<1>1. Pop(value) /\ hasErrors' = hasErrors /\ lax' = lax
  BY DEF Return
<1>2. Last(Front(stack)) = Below
  BY <1>1, Popped DEF Inv, Pop
<1>3. CASE value = Null /\ Below.at \in DOMAIN Slot
  <2>1. Flawed(Slot[Below.at])
    BY <1>2, <1>3 DEF Return
  <2>2. Slot[Below.at] \in Flaws /\ lax' \in BOOLEAN
    BY <1>1, <1>3, SlotFacts DEF Inv, Typed
  <2> QED BY <1>1, <1>3, <2>1, <2>2, FlawedBooks
<1>4. CASE ~(value = Null /\ Below.at \in DOMAIN Slot)
  <2>1. flaw' = flaw
    BY <1>2, <1>4 DEF Return
  <2> QED BY <1>1, <2>1 DEF Inv, Typed, Books, NullsAreReported
<1> QED BY <1>1, <1>3, <1>4

LEMMA YieldsNull ==
  ASSUME Inv, Parsing, Steady, Top.at \notin ProgramPart, Below.at \notin Waiting,
         Below.at \in DOMAIN Slot => Slot[Below.at] \in Excused,
         \/ Yield(Null) /\ Top.at \notin FreshPoints
         \/ ConsumeYield(Null)
  PROVE  Inv'
<1>1. moved'
  BY HasMoved DEF Yield, ConsumeYield, Stay, Shift
<1>2. (Shift \/ Stay) /\ Return(Null)
  BY DEF Yield, ConsumeYield
<1>3. Books /\ Pop(Null)
  BY <1>2, ReturnBooks
<1> QED BY <1>1, <1>2, <1>3, Leaves

-----------------------------------------------------------------------------
(* The actions keep the invariant.                                         *)

LEMMA Abandons ==
  ASSUME Inv, Parsing, Steady, Top.at \notin ProgramPart \cup FreshPoints,
         NEW what \in Flaws, Abandon(what),
         hasErrors \/ cur \in Ended \/ (what \in Excused /\ Below.at \notin Waiting)
  PROVE  Inv'
<1>1. Stay /\ cur' = cur /\ moved' /\ Pop(Null) /\ Flawed(what) /\ hasErrors' = hasErrors
  BY HasMoved DEF Abandon, Stay
<1>2. lax' \in BOOLEAN
  BY DEF Abandon, Inv, Typed
<1>3. Books
  BY <1>1, <1>2, FlawedBooks
<1> QED BY <1>1, <1>3, Leaves

(* Which part a point belongs to, and who calls what.                      *)
LEMMA WithinEach ==
  /\ \A p, q \in IfPart : GoesOn(p, q)
  /\ \A p, q \in CallPart : GoesOn(p, q)
  /\ \A p, q \in ReturnPart : GoesOn(p, q)
  /\ \A p, q \in ParenPart : GoesOn(p, q)
  /\ \A p, q \in CollectionPart : GoesOn(p, q)
  /\ \A p, q \in ExprPart : GoesOn(p, q)
  /\ \A p, q \in SumPart : GoesOn(p, q)
  /\ \A p, q \in TypePart : GoesOn(p, q)
  /\ \A p, q \in BlockPart : GoesOn(p, q)
  /\ \A p, q \in MainPart : GoesOn(p, q)
  /\ \A p, q \in ProgramPart : GoesOn(p, q)
  /\ \A p, q \in StatementPart : GoesOn(p, q)
BY Within DEF Parts

LEMMA Callees ==
  /\ \A w \in ExprCallers : Calls(w, "expr")
  /\ \A w \in SumCallers : Calls(w, "sum")
  /\ \A w \in TypeCallers \cup {"functionEnd"} : Calls(w, "type")
  /\ \A w \in BlockCallers \cup {"elseEnd", "functionEnd"} : Calls(w, "braces")
  /\ \A w \in Lists : Calls(w, "statement") /\ Calls(w, "return")
  /\ \A w \in Nexts : Calls(w, "call") /\ Calls(w, "paren") /\ Calls(w, "collection")
  /\ Calls("afterMain", "main") /\ Calls("elseEnd", "if")
  /\ Calls("functionEnd", "call") /\ Calls("functionEnd", "return")
BY DEF Calls, IfPart, CallPart, ReturnPart, ParenPart, CollectionPart, ExprPart, SumPart,
       TypePart, BlockPart, MainPart, ProgramPart, StatementPart

LEMMA Callers ==
  ASSUME NEW w, NEW p, Calls(w, p)
  PROVE  /\ p \in StatementPart => w \in Lists
         /\ p \in IfPart => w \in Lists \cup {"elseEnd"}
         /\ p \in TypePart => w \in TypeCallers \cup {"functionEnd"}
         /\ p \in BlockPart => w \in BlockCallers \cup {"elseEnd", "functionEnd"}
BY DEF Calls, IfPart, CallPart, ReturnPart, ParenPart, CollectionPart, ExprPart, SumPart,
       TypePart, BlockPart, MainPart, ProgramPart, StatementPart

LEMMA NotWaiting ==
  /\ \A w \in Lists \cup BlockCallers \cup TypeCallers \cup {"elseEnd", "functionEnd"} : w \notin Waiting
  /\ \A w \in BlockCallers \cup TypeCallers \cup {"elseEnd", "functionEnd"} :
       w \in DOMAIN Slot => Slot[w] \in Excused
BY SlotFacts DEF Waiting, Lists, BlockCallers, TypeCallers, ExprCallers, SumCallers, Nexts

LEMMA NullCaller ==
  ASSUME Inv, Parsing, Top.at \in BlockPart \cup TypePart
  PROVE  Below.at \notin Waiting /\ (Below.at \in DOMAIN Slot => Slot[Below.at] \in Excused)
<1>1. Calls(Below.at, Top.at)
  BY TopFacts DEF Inv, BlockPart, TypePart, ProgramPart
<1> QED BY <1>1, Callers, NotWaiting

LEMMA NullHere ==
  ASSUME Inv, Parsing, Top.at \in Waiting, ret = Null
  PROVE  hasErrors \/ cur \in Ended
BY DEF Inv, NullExpressions

LEMMA ProgramKeeps ==
  ASSUME Inv, Steady, Program
  PROVE  Inv'
<1>1. CASE At("program") /\ cur \notin Ended \cup {"entry"} /\ Item("statement", "program")
  BY <1>1, Items, WithinEach, Callees DEF At, ProgramPart, Lists, Ended
<1>2. CASE At("program") /\ cur = "entry" /\ Enter("main", "afterMain")
  <2>1. Parsing /\ Top.at = "program"
    BY <1>2 DEF At
  <2>2. moved
    BY <1>2, <2>1 DEF Inv, Typed, Fresh, Opening
  <2>3. GoesOn(Top.at, "afterMain") /\ Calls("afterMain", "main")
    BY <2>1, WithinEach, Callees DEF ProgramPart
  <2>4. /\ cur' \in Token \cup Ended /\ nxt' \in Token \cup Ended \cup {"unread"}
        /\ moved' \in BOOLEAN /\ moved'
    BY <1>2, <2>2, Reads DEF Enter, Stay, Inv
  <2> QED BY <1>2, <2>1, <2>3, <2>4, CallsIn DEF Enter
<1>3. CASE At("afterMain") /\ ~fq /\ Item("statement", "program")
  BY <1>3, Items, WithinEach, Callees DEF At, ProgramPart, Lists
<1> QED BY <1>1, <1>2, <1>3 DEF Program

LEMMA MainKeeps ==
  ASSUME Inv, Steady, Main
  PROVE  Inv'
<1>1. CASE At("main") /\ Consume("mainBody")
  BY <1>1, Consumes, WithinEach DEF At, MainPart
<1>2. CASE At("mainBody") /\ cur = "lbrace" /\ Enter("braces", "mainEnd")
  BY <1>2, Enters, WithinEach, Callees DEF At, MainPart, BlockCallers, FreshPoints, Opening
<1>3. CASE At("mainBody") /\ cur # "lbrace" /\ Jump("mainLoop")
  BY <1>3, Jumps, WithinEach DEF At, MainPart, FreshPoints, Opening
<1>4. CASE At("mainLoop") /\ cur \notin Ended /\ moved /\ ListItem("mainLoop")
  BY <1>4, Items, WithinEach, Callees DEF At, MainPart, Lists, ListItem, Ended
<1> QED BY <1>1, <1>2, <1>3, <1>4 DEF Main

LEMMA BlockKeeps ==
  ASSUME Inv, Steady, Block
  PROVE  Inv'
<1>1. CASE At("braces") /\ cur = "lbrace" /\ Consume("block")
  BY <1>1, Consumes, WithinEach DEF At, BlockPart
<1>2. CASE At("braces") /\ cur # "lbrace" /\ Yield(Null)
  BY <1>2, NullCaller, YieldsNull DEF At, BlockPart, TypePart, ProgramPart, FreshPoints,
     Opening
<1>3. CASE At("block") /\ cur \notin {"rbrace", "beyond"} /\ ListItem("block")
  BY <1>3, Items, WithinEach, Callees DEF At, BlockPart, Lists, ListItem
<1>4. CASE At("block") /\ cur \in {"rbrace", "beyond"} /\ ConsumeYield(Node)
  BY <1>4, YieldsNode DEF At, ProgramPart
<1> QED BY <1>1, <1>2, <1>3, <1>4 DEF Block

LEMMA StatementKeeps ==
  ASSUME Inv, Steady, Statement
  PROVE  Inv'
<1>1. CASE cur = "EoF" /\ Yield(Null)
  <2>1. Parsing /\ Top.at = "statement" /\ Top.at \notin ProgramPart
    BY DEF Statement, Ready, At, ProgramPart
  <2>2. Below.at \in Lists /\ Below.at \notin Waiting
    BY <2>1, TopFacts, Callers, NotWaiting DEF Inv, StatementPart
  <2>3. Stay /\ Return(Null) /\ cur' = "EoF" /\ cur' \in Ended
    BY <1>1 DEF Yield, Stay, Ended
  <2>4. Books /\ Pop(Null)
    BY <2>1, <2>3, ReturnBooks
  <2>5. moved' \/ Below.at \in {"program", "block"}
    BY <1>1, <2>1, <2>2, <2>3 DEF Inv, Typed, Fresh, Opening, Lists, Stay
  <2> QED BY <2>1, <2>3, <2>4, <2>5, Leaves
<1>2. CASE /\ cur \in {"let", "const"}
           /\ stack' = [stack EXCEPT ![Len(stack)] = Frame("let", cur = "const")]
           /\ ret' = NoValue /\ Stay /\ Quiet
  <2>1. Parsing /\ Top.at = "statement"
    BY DEF Statement, Ready, At
  <2>2. GoesOn(Top.at, "let") /\ "let" \in Points
    BY <2>1, WithinEach DEF StatementPart, Points
  <2> DEFINE constant == cur = "const"
             frame == Frame("let", constant)
  <2>3. constant \in BOOLEAN
    OBVIOUS
  <2>4. stack' = [stack EXCEPT ![Len(stack)] = frame]
    BY <1>2
  <2> HIDE DEF constant
  <2>5. frame \in Frames /\ frame.at = "let"
    BY <2>2, <2>3 DEF Frames, Frame
  <2> HIDE DEF frame
  <2> QED BY <1>2, <2>1, <2>2, <2>4, <2>5, QuietBooks, Goes DEF Opening
<1>3. CASE cur \in {"if", "while", "for", "function"} /\ Jump(cur)
  <2>1. Parsing /\ Top.at = "statement"
    BY DEF Statement, Ready, At
  <2>2. GoesOn(Top.at, cur)
    BY <1>3, <2>1, WithinEach DEF StatementPart, GoesOn, IfPart
  <2> QED BY <1>3, <2>1, <2>2, Jumps DEF Opening
<1>4. CASE cur = "ident" /\ nxt = "lparen" /\ Jump("call")
  BY <1>4, Jumps DEF Statement, Ready, At, GoesOn, CallPart, Opening
<1>5. CASE cur = "ident" /\ nxt = "lbracket" /\ Jump("element")
  BY <1>5, Jumps, WithinEach DEF Statement, Ready, At, StatementPart, Opening
<1>6. CASE cur = "extern" /\ nxt = "function" /\ Jump("extern")
  BY <1>6, Jumps, WithinEach DEF Statement, Ready, At, StatementPart, Opening
<1>7. CASE cur \in {"break", "continue"} /\ ConsumeYield(Node)
  BY <1>7, YieldsNode DEF Statement, Ready, At, ProgramPart
<1>8. CASE ~Known(cur, nxt) /\ UnknownStatement
  BY <1>8, Rejects DEF Statement, Ready, At, ProgramPart, UnknownStatement
<1> QED BY <1>1, <1>2, <1>3, <1>4, <1>5, <1>6, <1>7, <1>8 DEF Statement

LEMMA DeclarationKeeps ==
  ASSUME Inv, Steady, Declaration
  PROVE  Inv'
<1>1. CASE At("let") /\ Consume("letName")
  BY <1>1, Consumes, WithinEach DEF At, StatementPart
<1>2. CASE At("letName") /\ cur # "ident" /\ Reject
  BY <1>2, Rejects DEF At, ProgramPart, FreshPoints, Opening
<1>3. CASE At("letName") /\ cur = "ident" /\ Consume("letType")
  BY <1>3, Consumes, WithinEach DEF At, StatementPart
<1>4. CASE At("letType") /\ cur = "ident" /\ Enter("type", "letTyped")
  BY <1>4, Enters, WithinEach, Callees DEF At, StatementPart, TypeCallers, FreshPoints,
     Opening
<1>5. CASE /\ At("letTyped") /\ cur # "equ" /\ ~Top.mark
           /\ Stay /\ Pop(Node)
           /\ Flawed("value")
           /\ UNCHANGED << hasErrors, lax >>
  <2>1. Parsing /\ Top.at \notin ProgramPart \cup FreshPoints
    BY <1>5 DEF At, ProgramPart, FreshPoints, Opening
  <2>2. "value" \in Flaws /\ "value" \in Excused /\ lax' \in BOOLEAN
    BY <1>5, SlotFacts DEF Excused, Flaws, Slot, Inv, Typed
  <2>3. Books
    BY <1>5, <2>2, FlawedBooks
  <2>4. moved'
    BY <1>5, <2>1, HasMoved DEF Stay
  <2> QED BY <1>5, <2>1, <2>3, <2>4, Leaves DEF Node, Null
<1>6. CASE /\ \/ At("letType") /\ cur \notin {"ident", "equ"}
              \/ At("letTyped") /\ cur # "equ" /\ Top.mark
           /\ IF cur = "EoF" THEN Reject ELSE ConsumeReject
  BY <1>6, Rejects DEF At, ProgramPart, FreshPoints, Opening
<1>7. CASE (At("letType") \/ At("letTyped")) /\ cur = "equ" /\ Consume("letValue")
  BY <1>7, Consumes, WithinEach DEF At, StatementPart
<1>8. CASE At("letValue") /\ cur = "EoF" /\ Reject
  BY <1>8, Rejects DEF At, ProgramPart, FreshPoints, Opening
<1>9. CASE At("letValue") /\ cur # "EoF" /\ Enter("expr", "letEnd")
  BY <1>9, Enters, WithinEach, Callees DEF At, StatementPart, ExprCallers, FreshPoints,
     Opening
<1> QED BY <1>1, <1>2, <1>3, <1>4, <1>5, <1>6, <1>7, <1>8, <1>9 DEF Declaration

LEMMA TypeKeeps ==
  ASSUME Inv, Steady, Type
  PROVE  Inv'
<1>1. CASE At("type") /\ cur # "ident" /\ Yield(Null)
  BY <1>1, NullCaller, YieldsNull DEF At, BlockPart, TypePart, ProgramPart, FreshPoints,
     Opening
<1>2. CASE At("type") /\ cur = "ident" /\ ConsumeYield(Null)
  BY <1>2, NullCaller, YieldsNull DEF At, BlockPart, TypePart, ProgramPart
<1>3. CASE At("type") /\ cur = "ident" /\ ConsumeYield(Node)
  BY <1>3, YieldsNode DEF At, ProgramPart
<1>4. CASE At("type") /\ cur = "ident" /\ Consume("typeArg")
  BY <1>4, Consumes, WithinEach DEF At, TypePart
<1>5. CASE At("typeArg") /\ cur = "lt" /\ ConsumeEnter("type", "typeClose")
  BY <1>5, ConsumesEnters, WithinEach, Callees DEF At, TypePart, TypeCallers
<1>6. CASE At("typeArg") /\ cur # "lt" /\ Yield(Node)
  BY <1>6, YieldsNode DEF At, ProgramPart, FreshPoints, Opening
<1>7. CASE At("typeClose") /\ cur = "gt" /\ ConsumeYield(Node)
  BY <1>7, YieldsNode DEF At, ProgramPart
<1>8. CASE At("typeClose") /\ cur # "gt" /\ Stay /\ Report /\ Pop(Node)
  <2>1. Parsing /\ Top.at \notin ProgramPart \cup FreshPoints
    BY <1>8 DEF At, ProgramPart, FreshPoints, Opening
  <2>2. Books /\ moved'
    BY <1>8, <2>1, ReportBooks, HasMoved DEF Stay
  <2> QED BY <1>8, <2>1, <2>2, Leaves DEF Node, Null
<1> QED BY <1>1, <1>2, <1>3, <1>4, <1>5, <1>6, <1>7, <1>8 DEF Type

LEMMA ReturnStatementKeeps ==
  ASSUME Inv, Steady, ReturnStatement
  PROVE  Inv'
<1>1. CASE At("return") /\ ConsumeEnter("expr", "returnEnd")
  BY <1>1, ConsumesEnters, WithinEach, Callees DEF At, ReturnPart, ExprCallers
<1> QED BY <1>1 DEF ReturnStatement

LEMMA ElementKeeps ==
  ASSUME Inv, Steady, Element
  PROVE  Inv'
<1>1. CASE At("element") /\ Consume("elementOpen")
  BY <1>1, Consumes, WithinEach DEF At, StatementPart
<1>2. CASE At("elementOpen") /\ ConsumeEnter("expr", "elementClose")
  BY <1>2, ConsumesEnters, WithinEach, Callees DEF At, StatementPart, ExprCallers
<1>3. CASE At("elementClose") /\ cur # "rbracket" /\ Reject
  BY <1>3, Rejects DEF At, ProgramPart, FreshPoints, Opening
<1>4. CASE At("elementClose") /\ cur = "rbracket" /\ Consume("elementSet")
  BY <1>4, Consumes, WithinEach DEF At, StatementPart
<1>5. CASE At("elementSet") /\ cur = "equ" /\ Enter("expr", "elementEnd")
  BY <1>5, Enters, WithinEach, Callees DEF At, StatementPart, ExprCallers, FreshPoints,
     Opening
<1>6. CASE At("elementSet") /\ cur # "equ" /\ Yield(Node)
  BY <1>6, YieldsNode DEF At, ProgramPart, FreshPoints, Opening
<1> QED BY <1>1, <1>2, <1>3, <1>4, <1>5, <1>6 DEF Element

LEMMA IfKeeps ==
  ASSUME Inv, Steady, If
  PROVE  Inv'
<1>1. CASE At("if") /\ Consume("ifOpen")
  BY <1>1, Consumes, WithinEach DEF At, IfPart
<1>2. CASE At("ifOpen") /\ cur # "lparen" /\ Reject
  BY <1>2, Rejects DEF At, ProgramPart, FreshPoints, Opening
<1>3. CASE At("ifOpen") /\ cur = "lparen" /\ ConsumeEnter("expr", "ifClose")
  BY <1>3, ConsumesEnters, WithinEach, Callees DEF At, IfPart, ExprCallers
<1>4. CASE At("ifClose") /\ ret = Null /\ Abandon("if")
  <2>1. Parsing /\ Top.at \notin ProgramPart \cup FreshPoints /\ Top.at \in Waiting
    BY <1>4 DEF At, ProgramPart, FreshPoints, Opening, Waiting, ExprCallers
  <2>2. "if" \in Flaws
    BY DEF Flaws
  <2>3. hasErrors \/ cur \in Ended
    BY <1>4, <2>1, NullHere
  <2> QED BY <1>4, <2>1, <2>2, <2>3, Abandons
<1>5. CASE At("ifClose") /\ ret # Null /\ cur # "rparen" /\ Reject
  BY <1>5, Rejects DEF At, ProgramPart, FreshPoints, Opening
<1>6. CASE At("ifClose") /\ ret # Null /\ cur = "rparen" /\ ConsumeEnter("braces", "ifElse")
  BY <1>6, ConsumesEnters, WithinEach, Callees DEF At, IfPart, BlockCallers
<1>7. CASE At("ifElse") /\ cur # "else" /\ Yield(Node)
  BY <1>7, YieldsNode DEF At, ProgramPart, FreshPoints, Opening
<1>8. CASE At("ifElse") /\ cur = "else" /\ Consume("else")
  BY <1>8, Consumes, WithinEach DEF At, IfPart
<1>9. CASE At("else") /\ cur = "if" /\ Enter("if", "elseEnd")
  BY <1>9, Enters, WithinEach, Callees DEF At, IfPart, FreshPoints, Opening
<1>10. CASE At("else") /\ cur = "lbrace" /\ Enter("braces", "elseEnd")
  BY <1>10, Enters, WithinEach, Callees DEF At, IfPart, BlockCallers, FreshPoints, Opening
<1>11. CASE At("else") /\ cur \notin {"if", "lbrace"} /\ Yield(Node)
  BY <1>11, YieldsNode DEF At, ProgramPart, FreshPoints, Opening
<1> QED BY <1>1, <1>2, <1>3, <1>4, <1>5, <1>6, <1>7, <1>8, <1>9, <1>10, <1>11 DEF If

LEMMA WhileKeeps ==
  ASSUME Inv, Steady, While
  PROVE  Inv'
<1>1. CASE At("while") /\ Consume("whileOpen")
  BY <1>1, Consumes, WithinEach DEF At, StatementPart
<1>2. CASE At("whileOpen") /\ cur # "lparen" /\ Reject
  BY <1>2, Rejects DEF At, ProgramPart, FreshPoints, Opening
<1>3. CASE At("whileOpen") /\ cur = "lparen" /\ ConsumeEnter("expr", "whileClose")
  BY <1>3, ConsumesEnters, WithinEach, Callees DEF At, StatementPart, ExprCallers
<1>4. CASE At("whileClose") /\ cur # "rparen" /\ Reject
  BY <1>4, Rejects DEF At, ProgramPart, FreshPoints, Opening
<1>5. CASE At("whileClose") /\ cur = "rparen" /\ ConsumeEnter("braces", "bodyEnd")
  BY <1>5, ConsumesEnters, WithinEach, Callees DEF At, StatementPart, BlockCallers
<1> QED BY <1>1, <1>2, <1>3, <1>4, <1>5 DEF While

LEMMA ForKeeps ==
  ASSUME Inv, Steady, For
  PROVE  Inv'
<1>1. CASE At("for") /\ Consume("forOpen")
  BY <1>1, Consumes, WithinEach DEF At, StatementPart
<1>2. CASE At("forOpen") /\ cur # "lparen" /\ Reject
  BY <1>2, Rejects DEF At, ProgramPart, FreshPoints, Opening
<1>3. CASE At("forOpen") /\ cur = "lparen" /\ Consume("forVar")
  BY <1>3, Consumes, WithinEach DEF At, StatementPart
<1>4. CASE Ready("forVar") /\ nxt = "arrow" /\ ConsumeUnchecked("forArrow")
  BY <1>4, ConsumesUnchecked, WithinEach DEF At, Ready, StatementPart
<1>5. CASE Ready("forVar") /\ nxt = "colon" /\ ConsumeUnchecked("forList")
  BY <1>5, ConsumesUnchecked, WithinEach DEF At, Ready, StatementPart
<1>6. CASE Ready("forVar") /\ cur # "EoF" /\ nxt \notin {"arrow", "colon"} /\ Abandon("for")
  <2>1. Parsing /\ Top.at \notin ProgramPart \cup FreshPoints /\ Top.at \in StatementPart
    BY <1>6 DEF Ready, At, ProgramPart, FreshPoints, Opening, StatementPart
  <2>2. Below.at \notin Waiting
    BY <2>1, TopFacts, Callers, NotWaiting DEF Inv
  <2> QED BY <1>6, <2>1, <2>2, Abandons DEF Flaws, Excused
<1>7. CASE At("forArrow") /\ ConsumeEnter("sum", "forColon")
  BY <1>7, ConsumesEnters, WithinEach, Callees DEF At, StatementPart, SumCallers
<1>8. CASE At("forColon") /\ ConsumeUnchecked("forTo")
  BY <1>8, ConsumesUnchecked, WithinEach DEF At, StatementPart
<1>9. CASE At("forTo") /\ Enter("sum", "forStep")
  BY <1>9, Enters, WithinEach, Callees DEF At, StatementPart, SumCallers, FreshPoints,
     Opening
<1>10. CASE At("forStep") /\ cur = "arrow" /\ ConsumeEnter("sum", "forClose")
  BY <1>10, ConsumesEnters, WithinEach, Callees DEF At, StatementPart, SumCallers
<1>11. CASE At("forStep") /\ cur # "arrow" /\ Jump("forClose")
  BY <1>11, Jumps, WithinEach DEF At, StatementPart, FreshPoints, Opening
<1>12. CASE At("forList") /\ Consume("forClose")
  BY <1>12, Consumes, WithinEach DEF At, StatementPart
<1>13. CASE At("forClose") /\ cur # "rparen" /\ Reject
  BY <1>13, Rejects DEF At, ProgramPart, FreshPoints, Opening
<1>14. CASE At("forClose") /\ cur = "rparen" /\ ConsumeEnter("braces", "bodyEnd")
  BY <1>14, ConsumesEnters, WithinEach, Callees DEF At, StatementPart, BlockCallers
<1> QED BY <1>1, <1>2, <1>3, <1>4, <1>5, <1>6, <1>7, <1>8, <1>9, <1>10, <1>11, <1>12, <1>13,
   <1>14 DEF For

LEMMA FunctionKeeps ==
  ASSUME Inv, Steady, Function
  PROVE  Inv'
<1>1. CASE At("function") /\ Consume("functionName")
  BY <1>1, Consumes, WithinEach DEF At, StatementPart
<1>2. CASE At("functionName") /\ ConsumeUnchecked("functionOpen")
  BY <1>2, ConsumesUnchecked, WithinEach DEF At, StatementPart
<1>3. CASE At("functionOpen") /\ cur # "lparen" /\ Reject
  BY <1>3, Rejects DEF At, ProgramPart, FreshPoints, Opening
<1>4. CASE At("functionOpen") /\ cur = "lparen" /\ Consume("params")
  BY <1>4, Consumes, WithinEach DEF At, StatementPart
<1>5. CASE /\ At("params") /\ cur = "comma"
           /\ Shift /\ Goto("params")
           /\ IF cur' = "rparen" THEN Report ELSE Quiet
  <2>1. Parsing /\ GoesOn(Top.at, "params")
    BY <1>5, WithinEach DEF At, StatementPart
  <2>2. Books /\ moved'
    BY <1>5, ReportBooks, QuietBooks DEF Shift
  <2> QED BY <1>5, <2>1, <2>2, GoesTo
<1>6. CASE At("params") /\ cur \notin {"comma", "rparen", "ident"} /\ Reject
  BY <1>6, Rejects DEF At, ProgramPart, FreshPoints, Opening
<1>7. CASE At("params") /\ cur = "ident" /\ ConsumeEnter("type", "paramType")
  BY <1>7, ConsumesEnters, WithinEach, Callees DEF At, StatementPart, TypeCallers
<1>8. CASE At("paramType") /\ ret = Null /\ Reject
  BY <1>8, Rejects DEF At, ProgramPart, FreshPoints, Opening
<1>9. CASE At("paramType") /\ ret # Null /\ Jump("params")
  BY <1>9, Jumps, WithinEach DEF At, StatementPart, FreshPoints, Opening
<1>10. CASE At("params") /\ cur = "rparen" /\ Consume("does")
  BY <1>10, Consumes, WithinEach DEF At, StatementPart
<1>11. CASE Ready("does") /\ cur = "ident" /\ nxt = "lparen" /\ Enter("call", "functionEnd")
  BY <1>11, Enters, WithinEach, Callees DEF At, Ready, StatementPart, FreshPoints, Opening
<1>12. CASE At("does") /\ cur = "lbrace" /\ Enter("braces", "functionEnd")
  BY <1>12, Enters, WithinEach, Callees DEF At, StatementPart, FreshPoints, Opening
<1>13. CASE At("does") /\ cur = "return" /\ Enter("return", "functionEnd")
  BY <1>13, Enters, WithinEach, Callees DEF At, StatementPart, FreshPoints, Opening
<1>14. CASE /\ Ready("does") /\ cur \notin {"lbrace", "return"}
           /\ ~(cur = "ident" /\ nxt = "lparen")
           /\ ConsumeReject
  BY <1>14, Rejects DEF At, Ready, ProgramPart
<1> QED BY <1>1, <1>2, <1>3, <1>4, <1>5, <1>6, <1>7, <1>8, <1>9, <1>10, <1>11, <1>12, <1>13,
   <1>14 DEF Function

LEMMA ExternKeeps ==
  ASSUME Inv, Steady, Extern
  PROVE  Inv'
<1>1. CASE At("extern") /\ Consume("externKeyword")
  BY <1>1, Consumes, WithinEach DEF At, StatementPart
<1>2. CASE At("externKeyword") /\ Consume("externName")
  BY <1>2, Consumes, WithinEach DEF At, StatementPart
<1>3. CASE At("externName") /\ ConsumeUnchecked("externOpen")
  BY <1>3, ConsumesUnchecked, WithinEach DEF At, StatementPart
<1>4. CASE At("externOpen") /\ cur # "lparen" /\ Reject
  BY <1>4, Rejects DEF At, ProgramPart, FreshPoints, Opening
<1>5. CASE At("externOpen") /\ cur = "lparen" /\ Consume("externParams")
  BY <1>5, Consumes, WithinEach DEF At, StatementPart
<1>6. CASE /\ At("externParams") /\ cur = "comma"
           /\ Shift /\ Goto("externParam")
           /\ IF cur' = "rparen" THEN Report ELSE Quiet
  <2>1. Parsing /\ GoesOn(Top.at, "externParam")
    BY <1>6, WithinEach DEF At, StatementPart
  <2>2. Books /\ moved'
    BY <1>6, ReportBooks, QuietBooks DEF Shift
  <2> QED BY <1>6, <2>1, <2>2, GoesTo
<1>7. CASE At("externParams") /\ cur \notin {"comma", "rparen"} /\ ConsumeUnchecked("externType")
  BY <1>7, ConsumesUnchecked, WithinEach DEF At, StatementPart
<1>8. CASE At("externParam") /\ ConsumeUnchecked("externType")
  BY <1>8, ConsumesUnchecked, WithinEach DEF At, StatementPart
<1>9. CASE At("externType") /\ cur \notin {"ident", "lbracket"} /\ Reject
  BY <1>9, Rejects DEF At, ProgramPart, FreshPoints, Opening
<1>10. CASE At("externType") /\ cur = "ident" /\ Consume("externParams")
  BY <1>10, Consumes, WithinEach DEF At, StatementPart
<1>11. CASE /\ \/ At("externType") /\ cur = "ident"
              \/ At("externElement")
           /\ Stay /\ Goto("externParams")
           /\ Flawed("paramType")
           /\ UNCHANGED << hasErrors, lax >>
  <2>1. Parsing /\ GoesOn(Top.at, "externParams") /\ Top.at \notin FreshPoints
    BY <1>11, WithinEach DEF At, StatementPart, FreshPoints, Opening
  <2>2. "paramType" \in Flaws /\ "paramType" \in Excused /\ lax' \in BOOLEAN
    BY <1>11 DEF Excused, Flaws, Inv, Typed
  <2>3. Books
    BY <1>11, <2>2, FlawedBooks
  <2>4. moved'
    BY <1>11, <2>1, HasMoved DEF Stay
  <2> QED BY <1>11, <2>1, <2>3, <2>4, GoesTo
<1>12. CASE At("externType") /\ cur = "lbracket" /\ ConsumeUnchecked("externElement")
  BY <1>12, ConsumesUnchecked, WithinEach DEF At, StatementPart
<1>13. CASE At("externParams") /\ cur = "rparen" /\ Consume("externArrow")
  BY <1>13, Consumes, WithinEach DEF At, StatementPart
<1>14. CASE At("externArrow") /\ cur # "arrow" /\ Reject
  BY <1>14, Rejects DEF At, ProgramPart, FreshPoints, Opening
<1>15. CASE At("externArrow") /\ cur = "arrow" /\ ConsumeEnter("type", "functionEnd")
  BY <1>15, ConsumesEnters, WithinEach, Callees DEF At, StatementPart, TypeCallers
<1> QED BY <1>1, <1>2, <1>3, <1>4, <1>5, <1>6, <1>7, <1>8, <1>9, <1>10, <1>11, <1>12, <1>13,
   <1>14, <1>15 DEF Extern

LEMMA CallKeeps ==
  ASSUME Inv, Steady, Call
  PROVE  Inv'
<1>1. CASE At("call") /\ Consume("callOpen")
  BY <1>1, Consumes, WithinEach DEF At, CallPart
<1>2. CASE At("callOpen") /\ Consume("args")
  BY <1>2, Consumes, WithinEach DEF At, CallPart
<1>3. CASE At("args") /\ cur \in {"rparen", "beyond"} /\ ConsumeYield(Node)
  BY <1>3, YieldsNode DEF At, ProgramPart
<1>4. CASE /\ At("args") /\ cur = "comma"
           /\ Shift /\ Goto("arg")
           /\ IF cur' = "rparen" THEN Report ELSE Quiet
  <2>1. Parsing /\ GoesOn(Top.at, "arg")
    BY <1>4, WithinEach DEF At, CallPart
  <2>2. Books /\ moved'
    BY <1>4, ReportBooks, QuietBooks DEF Shift
  <2> QED BY <1>4, <2>1, <2>2, GoesTo
<1>5. CASE At("arg") /\ Enter("expr", "args")
  BY <1>5, Enters, WithinEach, Callees DEF At, CallPart, ExprCallers, FreshPoints, Opening
<1>6. CASE At("args") /\ cur \notin {"comma", "rparen", "beyond"} /\ Item("expr", "args")
  BY <1>6, Items, WithinEach, Callees DEF At, CallPart, ExprCallers
<1> QED BY <1>1, <1>2, <1>3, <1>4, <1>5, <1>6 DEF Call

LEMMA ParenthesesKeeps ==
  ASSUME Inv, Steady, Parentheses
  PROVE  Inv'
<1>1. CASE At("paren") /\ ConsumeEnter("expr", "parenClose")
  BY <1>1, ConsumesEnters, WithinEach, Callees DEF At, ParenPart, ExprCallers
<1>2. CASE At("parenClose") /\ ret # Null /\ cur = "rparen" /\ ConsumeYield(Node)
  BY <1>2, YieldsNode DEF At, ProgramPart
<1>3. CASE At("parenClose") /\ ret # Null /\ cur # "rparen" /\ Reject
  BY <1>3, Rejects DEF At, ProgramPart, FreshPoints, Opening
<1> QED BY <1>1, <1>2, <1>3 DEF Parentheses

LEMMA CollectionKeeps ==
  ASSUME Inv, Steady, Collection
  PROVE  Inv'
<1>1. CASE At("collection") /\ Consume("elements")
  BY <1>1, Consumes, WithinEach DEF At, CollectionPart
<1>2. CASE At("elements") /\ cur = "rbracket" /\ ConsumeYield(Node)
  BY <1>2, YieldsNode DEF At, ProgramPart
<1>3. CASE At("elements") /\ cur = "comma" /\ Top.mark /\ Reject
  BY <1>3, Rejects DEF At, ProgramPart, FreshPoints, Opening
<1>4. CASE /\ At("elements") /\ cur = "comma" /\ ~Top.mark
           /\ Shift
           /\ \/ cur' = "rbracket" /\ Report /\ Pop(Null)
              \/ /\ cur' # "rbracket" /\ Quiet
                 /\ stack' = [stack EXCEPT ![Len(stack)].mark = TRUE] /\ UNCHANGED ret
  <2>1. Parsing /\ Top.at = "elements" /\ Top.at \notin ProgramPart /\ moved'
    BY <1>4 DEF At, ProgramPart, Shift
  <2>2. CASE Report /\ Pop(Null)
    BY <1>4, <2>1, <2>2, ReportBooks, Leaves
  <2>3. CASE Quiet /\ stack' = [stack EXCEPT ![Len(stack)].mark = TRUE] /\ UNCHANGED ret
    <3>1. Top \in Frames /\ Top = stack[Len(stack)]
      BY StackFacts DEF Inv, Stacked, Top
    <3>2. Frame("elements", TRUE) \in Frames /\ Frame("elements", TRUE).at = "elements"
      BY DEF Frames, Frame, Points
    <3>3. stack' = [stack EXCEPT ![Len(stack)] = Frame("elements", TRUE)]
      <4>1. [Top EXCEPT !.mark = TRUE] = Frame("elements", TRUE)
        <5>1. \A b \in BOOLEAN : [Top EXCEPT !.mark = b] = [at |-> Top.at, mark |-> b]
          BY <3>1 DEF Frames
        <5> QED BY <2>1, <5>1 DEF Frame
      <4> QED BY <2>3, <3>1, <4>1
    <3>4. GoesOn(Top.at, "elements")
      BY <2>1, WithinEach DEF CollectionPart
    <3>5. Stacked' /\ Top' = Frame("elements", TRUE)
      BY <3>2, <3>3, <3>4, GoneOn DEF Inv
    <3>6. Books
      BY <2>3, QuietBooks
    <3>7. Typed'
      BY <1>4, <2>3, <3>6, Reads DEF Inv, Typed, Steady, Books
    <3>8. NullExpressions' /\ Fresh'
      BY <2>1, <3>2, <3>5 DEF NullExpressions, Fresh, Waiting, ExprCallers, SumCallers, Nexts
    <3>9. CrashesExplained'
      BY <2>1 DEF Steady, CrashesExplained, Parsing
    <3> QED BY <3>5, <3>6, <3>7, <3>8, <3>9 DEF Inv, Books
  <2> QED BY <1>4, <2>2, <2>3
<1>5. CASE At("elements") /\ cur \notin {"rbracket", "comma"} /\ ~Top.mark /\ Reject
  BY <1>5, Rejects DEF At, ProgramPart, FreshPoints, Opening
<1>6. CASE At("elements") /\ cur \notin {"rbracket", "comma"} /\ Top.mark /\ Enter("expr", "elementDone")
  BY <1>6, Enters, WithinEach, Callees DEF At, CollectionPart, ExprCallers, FreshPoints,
     Opening
<1>7. CASE At("elementDone") /\ ret = Null /\ Abandon("collection")
  <2>1. Parsing /\ Top.at \notin ProgramPart \cup FreshPoints /\ Top.at \in Waiting
    BY <1>7 DEF At, ProgramPart, FreshPoints, Opening, Waiting, ExprCallers
  <2>2. "collection" \in Flaws
    BY DEF Flaws
  <2>3. hasErrors \/ cur \in Ended
    BY <1>7, <2>1, NullHere
  <2> QED BY <1>7, <2>1, <2>2, <2>3, Abandons
<1>8. CASE /\ At("elementDone") /\ ret # Null
           /\ stack' = [stack EXCEPT ![Len(stack)] = Frame("elements", FALSE)]
           /\ ret' = NoValue /\ Stay /\ Quiet
  <2>1. Parsing /\ GoesOn(Top.at, "elements") /\ Top.at \notin FreshPoints
    BY <1>8, WithinEach DEF At, CollectionPart, FreshPoints, Opening
  <2>2. Frame("elements", FALSE) \in Frames /\ Frame("elements", FALSE).at = "elements"
    BY DEF Frames, Frame, Points
  <2>3. Books /\ moved'
    BY <1>8, <2>1, QuietBooks, HasMoved DEF Stay
  <2> QED BY <1>8, <2>1, <2>2, <2>3, Goes
<1> QED BY <1>1, <1>2, <1>3, <1>4, <1>5, <1>6, <1>7, <1>8 DEF Collection

(* An operand and an operator, of an expression or of a sum.               *)
Kinds == {<< "expr", "exprNext" >>, << "sum", "sumNext" >>}

LEMMA KindFacts ==
  ASSUME NEW kind, NEW next, << kind, next >> \in Kinds
  PROVE  /\ GoesOn(kind, next) /\ GoesOn(next, kind)
         /\ next \in Nexts /\ next \in Waiting
         /\ kind \notin ProgramPart /\ next \notin ProgramPart
         /\ next = "exprNext" <=> kind = "expr"
         /\ kind \in {"expr", "sum"} /\ next \in {"exprNext", "sumNext"}
BY WithinEach DEF Kinds, ExprPart, SumPart, Nexts, Waiting, ProgramPart

LEMMA OperandKeeps ==
  ASSUME Inv, Steady, NEW kind, NEW next, << kind, next >> \in Kinds, Operand(kind, next)
  PROVE  Inv'
<1>1. Parsing /\ Top.at = kind /\ GoesOn(Top.at, next) /\ next \in Nexts /\ Top.at \notin ProgramPart
  BY KindFacts DEF Operand, Ready, At
<1>2. CASE cur = "ident" /\ nxt = "lparen" /\ Enter("call", next)
  BY <1>1, <1>2, Enters, Callees DEF Opening
<1>3. CASE cur = "lparen" /\ Enter("paren", next)
  BY <1>1, <1>3, Enters, Callees DEF Opening
<1>4. CASE cur = "lbracket" /\ Stay /\ Push(Frame("collection", TRUE), next) /\ Quiet
  <2>1. Calls(next, "collection") /\ "collection" \in Opening
    BY <1>1, Callees DEF Opening
  <2> QED BY <1>1, <1>4, <2>1, Reads, CallsIn DEF Inv
<1>5. CASE /\ Shift /\ Quiet
           /\ stack' = [stack EXCEPT ![Len(stack)].at = next] /\ ret' = Node
  <2>0. /\ Frame(next, Top.mark) \in Frames /\ Frame(next, Top.mark).at = next
        /\ stack' = [stack EXCEPT ![Len(stack)] = Frame(next, Top.mark)]
    BY <1>1, <1>5, NextFrame DEF Inv
  <2>1. Stacked' /\ Books /\ moved'
    <3>1. Stacked'
      BY <1>1, <2>0, GoneOn DEF Inv
    <3>2. Books
      BY <1>5, QuietBooks
    <3>3. moved'
      BY <1>5 DEF Shift
    <3> QED BY <3>1, <3>2, <3>3
  <2>2. Typed'
    BY <1>5, <2>1, Reads DEF Inv, Typed, Steady, Books
  <2>3. NullExpressions' /\ Fresh'
    BY <1>5, <2>1 DEF NullExpressions, Fresh, Node, Null
  <2>4. CrashesExplained'
    BY <1>1 DEF Steady, CrashesExplained, Parsing
  <2> QED BY <2>1, <2>2, <2>3, <2>4 DEF Inv, Books
<1>6. CASE /\ cur \notin {"ident", "literal", "lparen", "lbracket"}
           /\ Stay
           /\ stack' = [stack EXCEPT ![Len(stack)].at = next] /\ ret' = Null
           /\ NoOperand
  <2>1. /\ Frame(next, Top.mark) \in Frames
        /\ Frame(next, Top.mark).at = next /\ Frame(next, Top.mark).mark = Top.mark
        /\ stack' = [stack EXCEPT ![Len(stack)] = Frame(next, Top.mark)]
    BY <1>1, <1>6, NextFrame DEF Inv
  <2>2. Stacked' /\ Top' = Frame(next, Top.mark) /\ Below' = Below
    BY <1>1, <2>1, GoneOn DEF Inv
  <2>3. Books
    BY <1>6, QuietBooks, ReportBooks DEF NoOperand
  <2>4. hasErrors' \/ cur' \in Ended
    BY <1>6, ReportBooks DEF NoOperand, Stay, Ended
  <2>5. Typed'
    BY <1>6, <2>3, Reads DEF Inv, Typed, Steady, Books
  <2>6. NullExpressions'
    BY <2>4 DEF NullExpressions
  <2>7. Fresh'
    <3>1. ASSUME ~moved
          PROVE  kind = "expr" /\ ~Top.mark /\ Below.at = "args"
      BY <1>1, <3>1, KindFacts DEF Inv, Fresh, Opening
    <3>2. moved' = moved
      BY <1>6 DEF Stay
    <3> QED BY <1>6, <2>1, <2>2, <3>1, <3>2, KindFacts DEF Fresh
  <2>8. CrashesExplained'
    BY <1>1 DEF Steady, CrashesExplained, Parsing
  <2> QED BY <2>2, <2>3, <2>5, <2>6, <2>7, <2>8 DEF Inv, Books
<1> QED BY <1>2, <1>3, <1>4, <1>5, <1>6 DEF Operand

LEMMA OperatorKeeps ==
  ASSUME Inv, Steady, NEW kind, NEW next, << kind, next >> \in Kinds,
         NEW operators \in SUBSET ({"arithmetic"} \cup Comparison), Operator(kind, next, operators)
  PROVE  Inv'
<1>1. /\ Parsing /\ Top.at = next /\ Top.at \in Waiting /\ Top.at \notin ProgramPart
      /\ GoesOn(Top.at, kind) /\ kind \in {"expr", "sum"}
      /\ ret = Null => hasErrors \/ cur \in Ended
  BY KindFacts, NullHere DEF Operator, At
<1>2. "operand" \in Flaws
  BY DEF Flaws
<1>3. moved \/ (~Top.mark /\ Below.at = "args" /\ ret = Null)
  BY <1>1, KindFacts DEF Inv, Typed, Fresh, Opening
<1>4. CASE /\ cur \in operators
           /\ Shift
           /\ stack' = [stack EXCEPT ![Len(stack)] = Frame(kind, TRUE)] /\ ret' = NoValue
           /\ IF ret = Null THEN Flawed("operand") ELSE UNCHANGED flaw
           /\ UNCHANGED << hasErrors, lax >>
  <2>1. cur \notin Ended
    BY <1>4 DEF Comparison, Ended
  <2>2. ret = Null => hasErrors
    BY <1>1, <2>1
  <2>3. Books
    <3>1. CASE ret = Null
      BY <1>2, <1>4, <2>2, <3>1, FlawedBooks DEF Inv, Typed
    <3>2. CASE ret # Null
      BY <1>4, <3>2, QuietBooks DEF Quiet
    <3> QED BY <3>1, <3>2
  <2>4. /\ Frame(kind, TRUE) \in Frames /\ Frame(kind, TRUE).at = kind
        /\ moved'
    BY <1>1, <1>4 DEF Frames, Frame, Points, Shift
  <2> QED BY <1>1, <1>4, <2>3, <2>4, Goes
<1>5. CASE /\ cur \notin operators /\ Top.mark /\ ret = Null
           /\ Stay /\ Pop(Node)
           /\ Flawed("operand")
           /\ UNCHANGED << hasErrors, lax >>
  <2>1. hasErrors \/ cur' \in Ended
    BY <1>1, <1>5 DEF Stay
  <2>2. Books
    BY <1>2, <1>5, <2>1, FlawedBooks DEF Inv, Typed
  <2>3. moved'
    BY <1>3, <1>5 DEF Stay
  <2> QED BY <1>1, <1>5, <2>2, <2>3, Leaves DEF Node, Null
<1>6. CASE /\ cur \notin operators /\ ~(Top.mark /\ ret = Null)
           /\ Stay /\ Return(ret)
  <2>1. ret = Null => hasErrors \/ cur' \in Ended
    BY <1>1, <1>6 DEF Stay
  <2>2. Books /\ hasErrors' = hasErrors /\ Pop(ret)
    BY <1>1, <1>6, <2>1, ReturnBooks
  <2>3. moved' \/ (Below.at = "args" /\ ret = Null)
    BY <1>3, <1>6 DEF Stay
  <2>4. ret \in {Null, Node, NoValue}
    BY DEF Inv, Typed
  <2> QED BY <1>1, <1>6, <2>1, <2>2, <2>3, <2>4, Leaves
<1> QED BY <1>4, <1>5, <1>6 DEF Operator

LEMMA ExpressionKeeps ==
  ASSUME Inv, Steady, Expression
  PROVE  Inv'
<1>1. << "expr", "exprNext" >> \in Kinds /\ << "sum", "sumNext" >> \in Kinds
  BY DEF Kinds
<1>2. CASE Operand("expr", "exprNext") \/ Operand("sum", "sumNext")
  BY <1>1, <1>2, OperandKeeps
<1>3. CASE Operator("expr", "exprNext", {"arithmetic"} \cup Comparison)
  BY <1>1, <1>3, OperatorKeeps
<1>4. CASE Operator("sum", "sumNext", {"arithmetic"})
  BY <1>1, <1>4, OperatorKeeps
<1> QED BY <1>2, <1>3, <1>4 DEF Expression

LEMMA EndCallKeeps ==
  ASSUME Inv, Steady, EndCall
  PROVE  Inv'
BY YieldsNode DEF EndCall, Ends, At, ProgramPart, FreshPoints, Opening

LEMMA ParseStepKeeps ==
  ASSUME Inv, ParseStep
  PROVE  Inv'
<1>1. Steady
  BY DEF ParseStep, Inv, Typed, Steady
<1> QED BY <1>1, ProgramKeeps, MainKeeps, BlockKeeps, StatementKeeps, DeclarationKeeps, TypeKeeps,
           ReturnStatementKeeps, ElementKeeps, IfKeeps, WhileKeeps, ForKeeps, FunctionKeeps,
           ExternKeeps, CallKeeps, ParenthesesKeeps, CollectionKeeps, ExpressionKeeps,
           EndCallKeeps DEF ParseStep

LEMMA EndMainKeeps ==
  ASSUME Inv, EndMain
  PROVE  Inv'
<1>1. Steady
  BY DEF EndMain, Steady
<1> QED BY <1>1, YieldsNode DEF EndMain, At, ProgramPart, FreshPoints, Opening

LEMMA PeekKeeps ==
  ASSUME Inv, Peek
  PROVE  Inv'
<1>1. Typed'
  BY DEF Peek, Inv, Typed, After, Ended
<1>2. Stacked' /\ NullExpressions' /\ Fresh' /\ NullsAreReported' /\ CrashesExplained'
  BY DEF Peek, Inv, Stacked, NullExpressions, Fresh, NullsAreReported, CrashesExplained, Parsing,
         Top, Below
<1> QED BY <1>1, <1>2 DEF Inv

(* The end of a run: nothing but the status changes.                       *)
LEMMA FailKeeps ==
  ASSUME Inv, NEW outcome \in {"done", "crashed", "overread", "exhausted"}, Fail(outcome),
         outcome = "crashed" => hasErrors \/ cur = "EoF" \/ Top.at = "externElement"
  PROVE  Inv'
<1>1. Typed' /\ ~Parsing'
  BY DEF Fail, Inv, Typed, Parsing
<1>2. Stacked' /\ NullExpressions' /\ Fresh' /\ NullsAreReported'
  BY <1>1 DEF Fail, Inv, Stacked, NullExpressions, Fresh, NullsAreReported
<1>3. CrashesExplained'
  BY DEF Fail, CrashesExplained, Top
<1> QED BY <1>1, <1>2, <1>3 DEF Inv

LEMMA EndsKeep ==
  ASSUME Inv, Finish \/ Crash \/ Overread \/ Exhaust
  PROVE  Inv'
<1>1. CASE Crash
  <2>1. CASE At("parenClose") /\ ret = Null
    <3>1. Parsing /\ Top.at \in Waiting /\ cur # "beyond"
      BY <2>1 DEF At, Waiting, ExprCallers, InBounds, Checked, Ends
    <3>2. hasErrors \/ cur = "EoF"
      BY <2>1, <3>1, NullHere DEF Ended
    <3> QED BY <1>1, <3>2, FailKeeps DEF Crash
  <2>2. CASE At("externElement")
    BY <1>1, <2>2, FailKeeps DEF Crash, At
  <2> QED BY <1>1, <2>1, <2>2 DEF Crash
<1>2. CASE Finish \/ Overread \/ Exhaust
  BY <1>2, FailKeeps DEF Finish, Overread, Exhaust
<1> QED BY <1>1, <1>2

LEMMA NextKeeps ==
  ASSUME Inv, Next
  PROVE  Inv'
<1>1. CASE Halted
  BY <1>1 DEF Halted, vars, Inv, Typed, Stacked, NullExpressions, Fresh, NullsAreReported,
     CrashesExplained, Parsing, Top, Below
<1> QED BY <1>1, PeekKeeps, ParseStepKeeps, EndMainKeeps, EndsKeep DEF Next

LEMMA InitInv ==
  ASSUME Init
  PROVE  Inv
<1>1. Frame("program", FALSE) \in Frames
  BY DEF Frames, Frame, Points
<1>2. Stacked
  BY <1>1 DEF Init, Stacked, WellStacked, Frame, ProgramPart
<1>3. Typed
  BY DEF Init, Typed, Ended, NoFlaw, Flaw, Flaws
<1> QED BY <1>2, <1>3 DEF Init, Inv, NullExpressions, Fresh, NullsAreReported, CrashesExplained,
                          NoValue, Null

LEMMA InvTypeOK ==
  ASSUME Inv
  PROVE  TypeOK
<1>1. stack \in Seq(Frames) /\ stack # << >> /\ DOMAIN stack = 1..Len(stack) /\ Len(stack) \in Nat
  BY StackFacts DEF Inv, Stacked, WellStacked
<1>2. ASSUME NEW k \in DOMAIN stack
      PROVE  stack[k].at \in {"program", "afterMain"} <=> k = 1
  <2>1. CASE k = 1
    BY <2>1 DEF Inv, Stacked, WellStacked, ProgramPart
  <2>2. CASE k # 1
    <3>1. k - 1 \in 1..(Len(stack) - 1) /\ (k - 1) + 1 = k
      BY <1>1, <2>2
    <3>2. Calls(stack[k - 1].at, stack[k].at)
      BY <3>1 DEF Inv, Stacked, WellStacked
    <3> QED BY <2>2, <3>2, CalledNotProgram DEF ProgramPart
  <2> QED BY <2>1, <2>2
<1>3. {moved, hasErrors, lax, fq} \subseteq BOOLEAN
  BY DEF Inv, Typed
<1> QED BY <1>1, <1>2, <1>3 DEF TypeOK, Inv, Typed, Frames

LEMMA InvIterationsAdvance ==
  ASSUME Inv
  PROVE  IterationsAdvance
BY DEF Inv, Fresh, IterationsAdvance, Opening

-----------------------------------------------------------------------------
(* The driver.                                                             *)

(* The analyser and the back end see a parse that is done, and follow no   *)
(* null that is not explained.                                             *)
DriverInv ==
  /\ Inv
  /\ stage \in {"parse", "analysed", "analyserCrashed", "failed", "complete", "backEndCrashed"}
  /\ stage # "parse" => status = "done"
  /\ AnalyserCrashesExplained /\ BackEndCrashesExplained

LEMMA DriverStep ==
  ASSUME DriverInv, [CompilerNext]_compilerVars
  PROVE  DriverInv'
<1>1. CASE Parse
  BY <1>1, NextKeeps DEF Parse, DriverInv, AnalyserCrashesExplained, BackEndCrashesExplained
<1>2. CASE AnalyseTree
  <2>1. ~Parsing /\ ~Parsing' /\ Typed'
    BY <1>2 DEF AnalyseTree, Parsing, DriverInv, Inv, Typed
  <2>2. Inv'
    BY <1>2, <2>1 DEF AnalyseTree, DriverInv, Inv, Stacked, NullExpressions, Fresh,
       NullsAreReported, CrashesExplained, Top
  <2>3. AnalyserCrashesExplained'
    BY <1>2 DEF AnalyseTree, DriverInv, Inv, NullsAreReported, AnalyserCrashesExplained,
       FollowedByAnalyser, NoFlaw
  <2>4. stage' \in {"analysed", "analyserCrashed"} /\ status' = "done"
    BY <1>2 DEF AnalyseTree
  <2> QED BY <2>2, <2>3, <2>4 DEF DriverInv, BackEndCrashesExplained
<1>3. CASE GiveUp \/ Generate \/ Over \/ UNCHANGED compilerVars
  <2>1. UNCHANGED vars
    BY <1>3 DEF GiveUp, Generate, Over, compilerVars
  <2>2. Inv'
    BY <2>1 DEF vars, DriverInv, Inv, Typed, Stacked, NullExpressions, Fresh, NullsAreReported,
       CrashesExplained, Parsing, Top, Below
  <2>3. CASE GiveUp
    BY <2>1, <2>2, <2>3 DEF GiveUp, DriverInv, AnalyserCrashesExplained,
       BackEndCrashesExplained, vars
  <2>4. CASE Generate
    BY <2>1, <2>2, <2>4 DEF Generate, vars, DriverInv, Inv, NullsAreReported, NoFlaw,
       AnalyserCrashesExplained, BackEndCrashesExplained, FollowedByBackEnd
  <2>5. CASE Over \/ UNCHANGED compilerVars
    BY <2>1, <2>2, <2>5 DEF Over, compilerVars, vars, DriverInv, AnalyserCrashesExplained,
       BackEndCrashesExplained
  <2> QED BY <1>3, <2>3, <2>4, <2>5
<1> QED BY <1>1, <1>2, <1>3 DEF CompilerNext

LEMMA DriverInit ==
  ASSUME CompilerInit
  PROVE  DriverInv
BY InitInv DEF CompilerInit, DriverInv, AnalyserCrashesExplained, BackEndCrashesExplained

THEOREM Invariance == CompilerSpec => []DriverInv
BY DriverInit, DriverStep, PTL DEF CompilerSpec

(* Type correctness, for any tokens and any depth of calls: only Parse is  *)
(* at the bottom of the stack, and it is nowhere else.                     *)
THEOREM TypeCorrect == CompilerSpec => []TypeOK
<1>1. DriverInv => TypeOK
  BY InvTypeOK DEF DriverInv
<1> QED BY <1>1, Invariance, PTL

(* Every null in the tree of a program with no error is one of the five    *)
(* kinds the code does not check, or comes from the end of the file.       *)
THEOREM NullsReported == CompilerSpec => []NullsAreReported
<1>1. DriverInv => NullsAreReported
  BY DEF DriverInv, Inv
<1> QED BY <1>1, Invariance, PTL

(* No list of statements or arguments is read without moving on, but at    *)
(* the end of the file and for an argument that is no expression.          *)
THEOREM ListsAdvance == CompilerSpec => []IterationsAdvance
<1>1. DriverInv => IterationsAdvance
  BY InvIterationsAdvance DEF DriverInv
<1> QED BY <1>1, Invariance, PTL

(* The parser follows a null only after an error, at the end of the file   *)
(* or in an extern function with an array parameter.                       *)
THEOREM ParserCrashes == CompilerSpec => []CrashesExplained
<1>1. DriverInv => CrashesExplained
  BY DEF DriverInv, Inv
<1> QED BY <1>1, Invariance, PTL

(* The analyser follows a null only of a program with an error or one that *)
(* ends in the middle of an expression.                                    *)
THEOREM AnalyserCrashes == CompilerSpec => []AnalyserCrashesExplained
<1>1. DriverInv => AnalyserCrashesExplained
  BY DEF DriverInv
<1> QED BY <1>1, Invariance, PTL

(* The back end follows a null only of a program that ends too early or    *)
(* leaves out a value, the block of a loop or the range of a for.          *)
THEOREM BackEndCrashes == CompilerSpec => []BackEndCrashesExplained
<1>1. DriverInv => BackEndCrashesExplained
  BY DEF DriverInv
<1> QED BY <1>1, Invariance, PTL
=============================================================================
