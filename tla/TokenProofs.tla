---------------------------- MODULE TokenProofs -----------------------------
(* What the parser makes of the tokens, for programs of any length and any *)
(* nesting: where it may read past the last of them, and that the brackets *)
(* of a program that is compiled match.                                    *)
EXTENDS ParserProofs

-----------------------------------------------------------------------------
(* The invariant of the end of the array.                                  *)

(* The points at which the parser is only on certain tokens.               *)
Fits(p, token, next) ==
  /\ p = "let" => token \in {"let", "const"}
  /\ p \in {"if", "while", "for", "function", "return"} => token = p
  /\ p = "extern" => token = "extern" /\ next = "function"
  /\ p = "call" => token = "ident" /\ next = "lparen"
  /\ p = "element" => token = "ident" /\ next = "lbracket"
  /\ p = "main" => token = "entry"
  /\ p \in {"callOpen", "paren"} => token = "lparen"
  /\ p \in {"elementOpen", "collection"} => token = "lbracket"
  /\ p = "externKeyword" => token = "function"
  /\ p = "forArrow" => token = "arrow"
  /\ p = "forList" => token = "colon"
LeadPoints ==
  {"let", "if", "while", "for", "function", "return", "extern", "call", "element", "main",
   "callOpen", "paren", "elementOpen", "collection", "externKeyword", "forArrow", "forList"}

Led == Parsing => Fits(Top.at, cur, nxt)

(* The token looked ahead at is in the array.                              *)
LookAhead == nxt # "unread" => cur \notin Ended /\ nxt # "beyond"

(* The parser is past the end where EoF was taken for a name or a ':', or  *)
(* on its way out of what was rejected for that.                           *)
TakenEnds == {"functionOpen", "externOpen", "externType", "forTo"}
WayOut == Lists \cup {"afterMain", "mainEnd", "ifElse", "bodyEnd", "elseEnd", "functionEnd"}
PastEnd ==
  \/ Top.at \in TakenEnds
  \/ Top.at = "sum" /\ Below.at = "forStep"
  \/ /\ hasErrors
     /\ Top.at \in WayOut \/ (Top.at = "statement" /\ Len(stack) = 2)
Beyond == Parsing /\ cur = "beyond" => PastEnd

EndInv == LookAhead /\ Led /\ Beyond /\ OverreadsAtEnd

Running == Inv /\ EndInv /\ Parsing /\ status' = status

-----------------------------------------------------------------------------
(* What the invariants of the parser say of a step.                        *)

LEMMA ParseStepRuns ==
  ASSUME ParseStep
  PROVE  Parsing
BY DEF ParseStep, Program, Main, Block, Statement, Declaration, Type, ReturnStatement, Element, If,
       While, For, Function, Extern, Call, Parentheses, Collection, Expression, Operand, Operator,
       EndCall, Ready, At

(* Parse is on top only where no function has been called.                 *)
LEMMA ParseAlone ==
  ASSUME Stacked, Top.at \in ProgramPart
  PROVE  Len(stack) = 1
<1>1. /\ Len(stack) \in Nat /\ Len(stack) >= 1
      /\ Len(stack) > 1 => Calls(stack[Len(stack) - 1].at, Top.at)
  BY StackFacts DEF Stacked, Top
<1>2. ~(Len(stack) > 1)
  BY <1>1, CalledNotProgram
<1>3. \A n \in Nat : n >= 1 => n = 1 \/ n > 1
  OBVIOUS
<1> QED BY <1>1, <1>2, <1>3

-----------------------------------------------------------------------------
(* Steps that do not take EoF.                                             *)

LEMMA Tokens == "beyond" \notin Token /\ "EoF" \notin Token /\ "unread" \notin Token
BY ParserAssumption DEF AllTokens

LEMMA FitsElsewhere ==
  ASSUME NEW p, p \notin LeadPoints, NEW token, NEW next
  PROVE  Fits(p, token, next)
BY DEF Fits, LeadPoints

LEMMA CallersElsewhere ==
  ASSUME NEW p, NEW q, Calls(p, q)
  PROVE  p \notin LeadPoints
BY DEF Calls, LeadPoints, Lists, BlockCallers, TypeCallers, ExprCallers, SumCallers, Nexts

(* What is on top after a step.                                            *)
LEMMA TopReplaced ==
  ASSUME Stacked, NEW frame, stack' = [stack EXCEPT ![Len(stack)] = frame]
  PROVE  Top' = frame
<1> DEFINE S == Frames \cup {frame}
<1>1. stack \in Seq(Frames) /\ stack # << >>
  BY DEF Stacked, WellStacked
<1>2. stack \in Seq(S) /\ frame \in S
  BY <1>1
<1>3. Last([stack EXCEPT ![Len(stack)] = frame]) = frame
  <2> HIDE DEF S
  <2> QED BY <1>1, <1>2, ReplaceFacts
<1> QED BY <1>3 DEF Top

LEMMA TopGone ==
  ASSUME Stacked, NEW p, stack' = [stack EXCEPT ![Len(stack)].at = p]
  PROVE  Top'.at = p
<1>1. Top = stack[Len(stack)] /\ Top \in Frames
  BY StackFacts DEF Stacked, Top
<1>2. stack' = [stack EXCEPT ![Len(stack)] = [Top EXCEPT !.at = p]]
  BY <1>1
<1>3. Top' = [Top EXCEPT !.at = p]
  BY <1>2, TopReplaced
<1> QED BY <1>1, <1>3 DEF Frames

LEMMA TopPushed ==
  ASSUME Stacked, NEW frame, NEW back, Push(frame, back)
  PROVE  Top' = frame /\ Below'.at = back /\ Len(stack') = Len(stack) + 1
<1> DEFINE caller == [Top EXCEPT !.at = back]
           s == [stack EXCEPT ![Len(stack)] = caller]
           S == Frames \cup {caller, frame}
<1>1. /\ stack \in Seq(Frames) /\ stack # << >>
      /\ Top = stack[Len(stack)] /\ Top \in Frames /\ Len(stack) \in Nat
  BY StackFacts DEF Stacked, WellStacked, Top
<1>2. caller.at = back
  BY <1>1 DEF Frames
<1>3. stack' = Append(s, frame)
  BY <1>1 DEF Push
<1> HIDE DEF caller
<1>4. stack \in Seq(S) /\ caller \in S /\ frame \in S
  BY <1>1
<1>5. s \in Seq(S) /\ s # << >> /\ Len(s) = Len(stack) /\ Last(s) = caller
  BY <1>1, <1>4, ReplaceFacts
<1> HIDE DEF s, S
<1>6. /\ Len(stack') = Len(stack) + 1
      /\ stack'[Len(stack) + 1] = frame /\ stack'[Len(stack)] = s[Len(stack)]
  <2>1. Len(stack) \in 1..Len(stack)
    BY <1>1, EmptySeq
  <2> QED BY <1>3, <1>4, <1>5, <2>1, AppendFacts
<1>7. s[Len(stack)] = caller
  BY <1>5 DEF Last
<1>8. Last(stack') = frame
  BY <1>6 DEF Last
<1>9. Len(stack') - 1 = Len(stack)
  BY <1>1, <1>6
<1> QED BY <1>2, <1>6, <1>7, <1>8, <1>9 DEF Top, Below

(* The index moves on from a token, or stays.                              *)
Onward ==
  \/ Shift /\ cur \notin Ended
  \/ UNCHANGED << cur, nxt >> /\ cur # "beyond"

LEMMA OnToken ==
  ASSUME EndInv, Onward
  PROVE  cur' # "beyond" /\ LookAhead'
<1>1. CASE Shift /\ cur \notin Ended
  BY <1>1, Tokens DEF Shift, After, EndInv, LookAhead
<1>2. CASE UNCHANGED << cur, nxt >> /\ cur # "beyond"
  BY <1>2 DEF EndInv, LookAhead
<1> QED BY <1>1, <1>2 DEF Onward

LEMMA Ahead ==
  ASSUME Running, Onward, Fits(Top'.at, cur', nxt')
  PROVE  EndInv'
<1>1. cur' # "beyond" /\ LookAhead'
  BY OnToken DEF Running
<1>2. Led' /\ Beyond' /\ OverreadsAtEnd'
  BY <1>1 DEF Running, Led, Beyond, OverreadsAtEnd, Parsing
<1> QED BY <1>1, <1>2 DEF EndInv

(* A step that is right wherever the index comes to.                       *)
LEMMA AtTheEnd ==
  ASSUME Running, Shift \/ UNCHANGED << cur, nxt >>, Top'.at \notin LeadPoints, PastEnd'
  PROVE  EndInv'
<1>1. LookAhead'
  BY DEF Running, EndInv, LookAhead, Shift
<1>2. Led' /\ Beyond' /\ OverreadsAtEnd'
  BY FitsElsewhere DEF Running, Led, Beyond, OverreadsAtEnd, Parsing
<1> QED BY <1>1, <1>2 DEF EndInv

LEMMA GoesAhead ==
  ASSUME Running, Onward, NEW p, Goto(p), p \notin LeadPoints \/ Fits(p, cur', nxt')
  PROVE  EndInv'
<1>1. Top'.at = p
  BY TopGone DEF Running, Inv, Goto
<1> QED BY <1>1, Ahead, FitsElsewhere

LEMMA CallsAhead ==
  ASSUME Running, Onward, NEW p, NEW mark, NEW back, Push(Frame(p, mark), back),
         p \notin LeadPoints \/ Fits(p, cur', nxt')
  PROVE  EndInv'
<1>1. Top'.at = p
  BY TopPushed DEF Running, Inv, Frame
<1> QED BY <1>1, Ahead, FitsElsewhere

LEMMA ReturnsAhead ==
  ASSUME Running, Onward, Top.at \notin ProgramPart, NEW value, Pop(value)
  PROVE  EndInv'
<1>1. Top' = Below /\ Calls(Below.at, Top.at)
  BY Popped DEF Running, Inv, Pop
<1> QED BY <1>1, Ahead, FitsElsewhere, CallersElsewhere

(* The steps the parse functions are made of.                              *)
LEMMA ConsumesOn ==
  ASSUME Running, cur \notin Ended, NEW p, p \notin LeadPoints, Consume(p) \/ ConsumeUnchecked(p)
  PROVE  EndInv'
BY GoesAhead DEF Consume, ConsumeUnchecked, Onward

LEMMA JumpsOn ==
  ASSUME Running, cur # "beyond", NEW p, Fits(p, cur, nxt), Jump(p)
  PROVE  EndInv'
BY GoesAhead DEF Jump, Stay, Onward

LEMMA EntersOn ==
  ASSUME Running, cur # "beyond", NEW p, NEW back, Fits(p, cur, nxt),
         Enter(p, back) \/ Item(p, back)
  PROVE  EndInv'
<1>1. Onward /\ UNCHANGED << cur, nxt >> /\ Push(Frame(p, FALSE), back)
  BY DEF Enter, Item, Stay, Onward
<1> QED BY <1>1, CallsAhead

LEMMA ConsumesEntersOn ==
  ASSUME Running, cur \notin Ended, NEW p, NEW back, p \notin LeadPoints, ConsumeEnter(p, back)
  PROVE  EndInv'
BY CallsAhead DEF ConsumeEnter, Onward

LEMMA YieldsOn ==
  ASSUME Running, Top.at \notin ProgramPart, NEW value,
         \/ cur # "beyond" /\ (Yield(value) \/ Reject \/ Abandon(value))
         \/ cur \notin Ended /\ (ConsumeYield(value) \/ ConsumeReject)
  PROVE  EndInv'
<1>1. Onward
  BY DEF Yield, Reject, Abandon, ConsumeYield, ConsumeReject, Stay, Onward
<1>2. Pop(value) \/ Pop(Null)
  BY DEF Yield, Reject, Abandon, ConsumeYield, ConsumeReject, Return
<1> QED BY <1>1, <1>2, ReturnsAhead

(* A statement is rejected: on the way out, an error was reported.         *)
LEMMA RejectsOn ==
  ASSUME Running, Top.at \in StatementPart, Reject \/ ConsumeReject
  PROVE  EndInv'
<1>1. Top.at \notin ProgramPart
  BY DEF StatementPart, ProgramPart
<1>2. /\ Shift \/ UNCHANGED << cur, nxt >>
      /\ hasErrors' /\ Pop(Null)
  BY DEF Reject, ConsumeReject, Stay, Report
<1>3. Top' = Below /\ Calls(Below.at, Top.at)
  BY <1>1, <1>2, Popped DEF Running, Inv, Pop
<1>4. Below.at \in WayOut /\ Below.at \notin LeadPoints
  BY <1>3, Callers, CallersElsewhere DEF WayOut
<1>5. PastEnd'
  BY <1>2, <1>3, <1>4 DEF PastEnd
<1> QED BY <1>2, <1>3, <1>4, <1>5, AtTheEnd

(* What is known where the parser is.                                      *)
EndPoints ==
  {"functionOpen", "externType", "forTo"} \cup Lists
    \cup {"afterMain", "mainEnd", "bodyEnd", "elseEnd", "functionEnd"}

LEMMA Here ==
  ASSUME Running, NEW p, At(p)
  PROVE  /\ Top.at = p /\ Fits(p, cur, nxt)
         /\ p \notin EndPoints => cur # "beyond"
         /\ cur = "beyond" => PastEnd
<1>1. Top.at = p /\ Fits(p, cur, nxt) /\ (cur = "beyond" => PastEnd)
  BY DEF Running, EndInv, Led, Beyond, At
<1>2. ASSUME cur = "beyond", p \notin EndPoints PROVE FALSE
  <2>1. p \in InBounds /\ PastEnd
    BY <1>1, <1>2 DEF At
  <2> QED BY <1>1, <1>2, <2>1 DEF PastEnd, EndPoints, TakenEnds, WayOut, Lists, InBounds, Checked, Ends
<1> QED BY <1>1, <1>2

-----------------------------------------------------------------------------
(* The actions keep it.                                                    *)

LEMMA ProgramAhead ==
  ASSUME Running, Program
  PROVE  EndInv'
<1>1. CASE At("program") /\ cur \notin Ended \cup {"entry"} /\ Item("statement", "program")
  BY <1>1, EntersOn DEF Fits, Ended
<1>2. CASE At("program") /\ cur = "entry" /\ Enter("main", "afterMain")
  BY <1>2, EntersOn DEF Fits
<1>3. CASE At("afterMain") /\ ~fq /\ Item("statement", "program")
  <2>1. CASE cur # "beyond"
    BY <1>3, <2>1, EntersOn DEF Fits
  <2>2. CASE cur = "beyond"
    <3>1. Top.at = "afterMain" /\ PastEnd
      BY <1>3, <2>2, Here
    <3>2. hasErrors
      BY <3>1 DEF PastEnd, TakenEnds
    <3>3. /\ UNCHANGED << cur, nxt >> /\ hasErrors' = hasErrors
          /\ Push(Frame("statement", FALSE), "program")
      BY <1>3 DEF Item, Quiet
    <3>4. Top'.at = "statement" /\ Len(stack') = Len(stack) + 1
      BY <3>3, TopPushed DEF Running, Inv, Frame
    <3>5. Len(stack) = 1
      BY <3>1, ParseAlone DEF Running, Inv, ProgramPart
    <3>6. PastEnd' /\ Top'.at \notin LeadPoints
      BY <3>2, <3>3, <3>4, <3>5 DEF PastEnd, LeadPoints
    <3> QED BY <3>3, <3>6, AtTheEnd
  <2> QED BY <2>1, <2>2
<1> QED BY <1>1, <1>2, <1>3 DEF Program

LEMMA MainAhead ==
  ASSUME Running, Main
  PROVE  EndInv'
<1>1. CASE At("main") /\ Consume("mainBody")
  BY <1>1, Here, ConsumesOn DEF EndPoints, Lists, Fits, LeadPoints, Ended
<1>2. CASE At("mainBody") /\ cur = "lbrace" /\ Enter("braces", "mainEnd")
  BY <1>2, Here, EntersOn DEF EndPoints, Lists, Fits, At
<1>3. CASE At("mainBody") /\ cur # "lbrace" /\ Jump("mainLoop")
  BY <1>3, Here, JumpsOn DEF EndPoints, Lists, Fits
<1>4. CASE At("mainLoop") /\ cur \notin Ended /\ moved /\ ListItem("mainLoop")
  BY <1>4, EntersOn DEF ListItem, Fits, Ended
<1> QED BY <1>1, <1>2, <1>3, <1>4 DEF Main

LEMMA BlockAhead ==
  ASSUME Running, Block
  PROVE  EndInv'
<1>1. CASE At("braces") /\ cur = "lbrace" /\ Consume("block")
  BY <1>1, Here, ConsumesOn DEF EndPoints, Lists, Fits, LeadPoints, Ended
<1>2. CASE At("braces") /\ cur # "lbrace" /\ Yield(Null)
  BY <1>2, Here, YieldsOn DEF EndPoints, Lists, Fits, Ended, ProgramPart
<1>3. CASE At("block") /\ cur \notin {"rbrace", "beyond"} /\ ListItem("block")
  BY <1>3, EntersOn DEF ListItem, Fits
<1>4. CASE At("block") /\ cur = "rbrace" /\ ConsumeYield(Node)
  BY <1>4, Here, YieldsOn DEF EndPoints, Lists, Fits, Ended, ProgramPart
<1>5. CASE At("block") /\ cur = "beyond" /\ ConsumeYield(Node)
  <2>1. Top.at = "block" /\ hasErrors
    BY <1>5, Here DEF PastEnd, TakenEnds
  <2>2. Shift /\ Pop(Node) /\ hasErrors' = hasErrors
    BY <1>5 DEF ConsumeYield, Return
  <2>3. Top' = Below /\ Calls(Below.at, Top.at)
    BY <2>1, <2>2, Popped DEF Running, Inv, Pop, ProgramPart
  <2>4. Below.at \in WayOut /\ Below.at \notin LeadPoints
    BY <2>1, <2>3, Callers, CallersElsewhere DEF BlockPart, BlockCallers, WayOut
  <2>5. PastEnd'
    BY <2>1, <2>2, <2>3, <2>4 DEF PastEnd
  <2> QED BY <2>2, <2>3, <2>4, <2>5, AtTheEnd
<1> QED BY <1>1, <1>2, <1>3, <1>4, <1>5 DEF Block

LEMMA StatementAhead ==
  ASSUME Running, Statement
  PROVE  EndInv'
<1>1. CASE cur = "EoF" /\ Yield(Null)
  BY <1>1, Here, YieldsOn DEF Statement, Ready, ProgramPart
<1>2. CASE /\ cur \in {"let", "const"}
           /\ stack' = [stack EXCEPT ![Len(stack)] = Frame("let", cur = "const")]
           /\ ret' = NoValue /\ Stay /\ Quiet
  <2> DEFINE constant == cur = "const"
             frame == Frame("let", constant)
  <2>1. stack' = [stack EXCEPT ![Len(stack)] = frame]
    BY <1>2
  <2> HIDE DEF constant
  <2>2. frame.at = "let"
    BY DEF Frame
  <2> HIDE DEF frame
  <2>3. Top'.at = "let"
    BY <2>1, <2>2, TopReplaced DEF Running, Inv
  <2>4. Onward /\ Fits("let", cur', nxt')
    BY <1>2 DEF Onward, Stay, Fits
  <2> QED BY <2>3, <2>4, Ahead
<1>3. CASE cur \in {"if", "while", "for", "function"} /\ Jump(cur)
  BY <1>3, JumpsOn DEF Fits
<1>4. CASE cur = "ident" /\ nxt = "lparen" /\ Jump("call")
  BY <1>4, JumpsOn DEF Fits
<1>5. CASE cur = "ident" /\ nxt = "lbracket" /\ Jump("element")
  BY <1>5, JumpsOn DEF Fits
<1>6. CASE cur = "extern" /\ nxt = "function" /\ Jump("extern")
  BY <1>6, JumpsOn DEF Fits
<1>7. CASE cur \in {"break", "continue"} /\ ConsumeYield(Node)
  BY <1>7, Here, YieldsOn DEF Statement, Ready, Ended, ProgramPart
<1>8. CASE ~Known(cur, nxt) /\ UnknownStatement
  BY <1>8, Here, RejectsOn DEF Statement, Ready, UnknownStatement, StatementPart
<1> QED BY <1>1, <1>2, <1>3, <1>4, <1>5, <1>6, <1>7, <1>8 DEF Statement

LEMMA DeclarationAhead ==
  ASSUME Running, Declaration
  PROVE  EndInv'
<1>1. CASE At("let") /\ Consume("letName")
  BY <1>1, Here, ConsumesOn DEF EndPoints, Lists, Fits, LeadPoints, Ended
<1>2. CASE At("letName") /\ cur # "ident" /\ Reject
  BY <1>2, Here, RejectsOn DEF StatementPart
<1>3. CASE At("letName") /\ cur = "ident" /\ Consume("letType")
  BY <1>3, Here, ConsumesOn DEF EndPoints, Lists, Fits, LeadPoints, Ended
<1>4. CASE At("letType") /\ cur = "ident" /\ Enter("type", "letTyped")
  BY <1>4, Here, EntersOn DEF EndPoints, Lists, Fits, At
<1>5. CASE /\ At("letTyped") /\ cur # "equ" /\ ~Top.mark
           /\ Stay /\ Pop(Node)
           /\ Flawed("value")
           /\ UNCHANGED << hasErrors, lax >>
  BY <1>5, Here, ReturnsAhead DEF EndPoints, Lists, Onward, Stay, ProgramPart
<1>6. CASE /\ \/ At("letType") /\ cur \notin {"ident", "equ"}
              \/ At("letTyped") /\ cur # "equ" /\ Top.mark
           /\ IF cur = "EoF" THEN Reject ELSE ConsumeReject
  BY <1>6, Here, RejectsOn DEF StatementPart
<1>7. CASE (At("letType") \/ At("letTyped")) /\ cur = "equ" /\ Consume("letValue")
  BY <1>7, Here, ConsumesOn DEF EndPoints, Lists, Fits, LeadPoints, Ended
<1>8. CASE At("letValue") /\ cur = "EoF" /\ Reject
  BY <1>8, Here, RejectsOn DEF StatementPart
<1>9. CASE At("letValue") /\ cur # "EoF" /\ Enter("expr", "letEnd")
  BY <1>9, Here, EntersOn DEF EndPoints, Lists, Fits, At
<1> QED BY <1>1, <1>2, <1>3, <1>4, <1>5, <1>6, <1>7, <1>8, <1>9 DEF Declaration

LEMMA TypeAhead ==
  ASSUME Running, Type
  PROVE  EndInv'
<1>1. CASE At("type") /\ cur # "ident" /\ Yield(Null)
  BY <1>1, Here, YieldsOn DEF EndPoints, Lists, Fits, Ended, ProgramPart
<1>2. CASE At("type") /\ cur = "ident" /\ (ConsumeYield(Null) \/ ConsumeYield(Node))
  BY <1>2, Here, YieldsOn DEF EndPoints, Lists, Fits, Ended, ProgramPart
<1>3. CASE At("type") /\ cur = "ident" /\ Consume("typeArg")
  BY <1>3, Here, ConsumesOn DEF EndPoints, Lists, Fits, LeadPoints, Ended
<1>4. CASE At("typeArg") /\ cur = "lt" /\ ConsumeEnter("type", "typeClose")
  BY <1>4, Here, ConsumesEntersOn DEF EndPoints, Lists, Fits, LeadPoints, Ended
<1>5. CASE At("typeArg") /\ cur # "lt" /\ Yield(Node)
  BY <1>5, Here, YieldsOn DEF EndPoints, Lists, Fits, Ended, ProgramPart
<1>6. CASE At("typeClose") /\ cur = "gt" /\ ConsumeYield(Node)
  BY <1>6, Here, YieldsOn DEF EndPoints, Lists, Fits, Ended, ProgramPart
<1>7. CASE At("typeClose") /\ cur # "gt" /\ Stay /\ Report /\ Pop(Node)
  BY <1>7, Here, ReturnsAhead DEF EndPoints, Lists, Onward, Stay, ProgramPart
<1> QED BY <1>1, <1>2, <1>3, <1>4, <1>5, <1>6, <1>7 DEF Type

LEMMA ReturnStatementAhead ==
  ASSUME Running, ReturnStatement
  PROVE  EndInv'
<1>1. CASE At("return") /\ ConsumeEnter("expr", "returnEnd")
  BY <1>1, Here, ConsumesEntersOn DEF EndPoints, Lists, Fits, LeadPoints, Ended
<1> QED BY <1>1 DEF ReturnStatement

LEMMA ElementAhead ==
  ASSUME Running, Element
  PROVE  EndInv'
<1>1. CASE At("element") /\ Consume("elementOpen")
  BY <1>1, Here, GoesAhead DEF Consume, Shift, Onward, Fits, Ended
<1>2. CASE At("elementOpen") /\ ConsumeEnter("expr", "elementClose")
  BY <1>2, Here, ConsumesEntersOn DEF EndPoints, Lists, Fits, LeadPoints, Ended
<1>3. CASE At("elementClose") /\ cur # "rbracket" /\ Reject
  BY <1>3, Here, RejectsOn DEF StatementPart
<1>4. CASE At("elementClose") /\ cur = "rbracket" /\ Consume("elementSet")
  BY <1>4, Here, ConsumesOn DEF EndPoints, Lists, Fits, LeadPoints, Ended
<1>5. CASE At("elementSet") /\ cur = "equ" /\ Enter("expr", "elementEnd")
  BY <1>5, Here, EntersOn DEF EndPoints, Lists, Fits, At
<1>6. CASE At("elementSet") /\ cur # "equ" /\ Yield(Node)
  BY <1>6, Here, YieldsOn DEF EndPoints, Lists, Fits, Ended, ProgramPart
<1> QED BY <1>1, <1>2, <1>3, <1>4, <1>5, <1>6 DEF Element

LEMMA IfAhead ==
  ASSUME Running, If
  PROVE  EndInv'
<1>1. CASE At("if") /\ Consume("ifOpen")
  BY <1>1, Here, ConsumesOn DEF EndPoints, Lists, Fits, LeadPoints, Ended
<1>2. CASE At("ifOpen") /\ cur # "lparen" /\ Reject
  BY <1>2, Here, YieldsOn DEF EndPoints, Lists, Fits, Ended, ProgramPart
<1>3. CASE At("ifOpen") /\ cur = "lparen" /\ ConsumeEnter("expr", "ifClose")
  BY <1>3, Here, ConsumesEntersOn DEF EndPoints, Lists, Fits, LeadPoints, Ended
<1>4. CASE At("ifClose") /\ ret = Null /\ Abandon("if")
  BY <1>4, Here, YieldsOn DEF EndPoints, Lists, Fits, Ended, ProgramPart
<1>5. CASE At("ifClose") /\ ret # Null /\ cur # "rparen" /\ Reject
  BY <1>5, Here, YieldsOn DEF EndPoints, Lists, Fits, Ended, ProgramPart
<1>6. CASE At("ifClose") /\ ret # Null /\ cur = "rparen" /\ ConsumeEnter("braces", "ifElse")
  BY <1>6, Here, ConsumesEntersOn DEF EndPoints, Lists, Fits, LeadPoints, Ended
<1>7. CASE At("ifElse") /\ cur # "else" /\ Yield(Node)
  BY <1>7, Here, YieldsOn DEF EndPoints, Lists, Fits, Ended, ProgramPart
<1>8. CASE At("ifElse") /\ cur = "else" /\ Consume("else")
  BY <1>8, Here, ConsumesOn DEF EndPoints, Lists, Fits, LeadPoints, Ended
<1>9. CASE At("else") /\ cur = "if" /\ Enter("if", "elseEnd")
  BY <1>9, Here, EntersOn DEF EndPoints, Lists, Fits, At
<1>10. CASE At("else") /\ cur = "lbrace" /\ Enter("braces", "elseEnd")
  BY <1>10, Here, EntersOn DEF EndPoints, Lists, Fits, At
<1>11. CASE At("else") /\ cur \notin {"if", "lbrace"} /\ Yield(Node)
  BY <1>11, Here, YieldsOn DEF EndPoints, Lists, Fits, Ended, ProgramPart
<1> QED BY <1>1, <1>2, <1>3, <1>4, <1>5, <1>6, <1>7, <1>8, <1>9, <1>10, <1>11 DEF If

LEMMA WhileAhead ==
  ASSUME Running, While
  PROVE  EndInv'
<1>1. CASE At("while") /\ Consume("whileOpen")
  BY <1>1, Here, ConsumesOn DEF EndPoints, Lists, Fits, LeadPoints, Ended
<1>2. CASE At("whileOpen") /\ cur # "lparen" /\ Reject
  BY <1>2, Here, RejectsOn DEF StatementPart
<1>3. CASE At("whileOpen") /\ cur = "lparen" /\ ConsumeEnter("expr", "whileClose")
  BY <1>3, Here, ConsumesEntersOn DEF EndPoints, Lists, Fits, LeadPoints, Ended
<1>4. CASE At("whileClose") /\ cur # "rparen" /\ Reject
  BY <1>4, Here, RejectsOn DEF StatementPart
<1>5. CASE At("whileClose") /\ cur = "rparen" /\ ConsumeEnter("braces", "bodyEnd")
  BY <1>5, Here, ConsumesEntersOn DEF EndPoints, Lists, Fits, LeadPoints, Ended
<1> QED BY <1>1, <1>2, <1>3, <1>4, <1>5 DEF While

LEMMA ForAhead ==
  ASSUME Running, For
  PROVE  EndInv'
<1>1. CASE At("for") /\ Consume("forOpen")
  BY <1>1, Here, ConsumesOn DEF EndPoints, Lists, Fits, LeadPoints, Ended
<1>2. CASE At("forOpen") /\ cur # "lparen" /\ Reject
  BY <1>2, Here, RejectsOn DEF StatementPart
<1>3. CASE At("forOpen") /\ cur = "lparen" /\ Consume("forVar")
  BY <1>3, Here, ConsumesOn DEF EndPoints, Lists, Fits, LeadPoints, Ended
<1>4. CASE Ready("forVar") /\ nxt = "arrow" /\ ConsumeUnchecked("forArrow")
  BY <1>4, Here, GoesAhead DEF Ready, Running, EndInv, LookAhead, ConsumeUnchecked, Shift, Onward, Fits
<1>5. CASE Ready("forVar") /\ nxt = "colon" /\ ConsumeUnchecked("forList")
  BY <1>5, Here, GoesAhead DEF Ready, Running, EndInv, LookAhead, ConsumeUnchecked, Shift, Onward, Fits
<1>6. CASE Ready("forVar") /\ cur # "EoF" /\ nxt \notin {"arrow", "colon"} /\ Abandon("for")
  BY <1>6, Here, YieldsOn DEF Ready, EndPoints, Lists, ProgramPart
<1>7. CASE At("forArrow") /\ ConsumeEnter("sum", "forColon")
  BY <1>7, Here, ConsumesEntersOn DEF EndPoints, Lists, Fits, LeadPoints, Ended
<1>8. CASE At("forColon") /\ ConsumeUnchecked("forTo")
  <2>1. Shift /\ Goto("forTo")
    BY <1>8 DEF ConsumeUnchecked
  <2>2. Top'.at = "forTo"
    BY <2>1, TopGone DEF Running, Inv, Goto
  <2>3. PastEnd' /\ Top'.at \notin LeadPoints
    BY <2>2 DEF PastEnd, TakenEnds, LeadPoints
  <2> QED BY <2>1, <2>3, AtTheEnd
<1>9. CASE At("forTo") /\ Enter("sum", "forStep")
  <2>1. UNCHANGED << cur, nxt >> /\ Push(Frame("sum", FALSE), "forStep")
    BY <1>9 DEF Enter, Stay
  <2>2. Top'.at = "sum" /\ Below'.at = "forStep"
    BY <2>1, TopPushed DEF Running, Inv, Frame
  <2>3. PastEnd' /\ Top'.at \notin LeadPoints
    BY <2>2 DEF PastEnd, LeadPoints
  <2> QED BY <2>1, <2>3, AtTheEnd
<1>10. CASE At("forStep") /\ cur = "arrow" /\ ConsumeEnter("sum", "forClose")
  BY <1>10, Here, ConsumesEntersOn DEF EndPoints, Lists, Fits, LeadPoints, Ended
<1>11. CASE At("forStep") /\ cur # "arrow" /\ Jump("forClose")
  BY <1>11, Here, JumpsOn DEF EndPoints, Lists, Fits
<1>12. CASE At("forList") /\ Consume("forClose")
  BY <1>12, Here, ConsumesOn DEF EndPoints, Lists, Fits, LeadPoints, Ended
<1>13. CASE At("forClose") /\ cur # "rparen" /\ Reject
  BY <1>13, Here, RejectsOn DEF StatementPart
<1>14. CASE At("forClose") /\ cur = "rparen" /\ ConsumeEnter("braces", "bodyEnd")
  BY <1>14, Here, ConsumesEntersOn DEF EndPoints, Lists, Fits, LeadPoints, Ended
<1> QED BY <1>1, <1>2, <1>3, <1>4, <1>5, <1>6, <1>7, <1>8, <1>9, <1>10, <1>11, <1>12, <1>13, <1>14 DEF For

LEMMA FunctionAhead ==
  ASSUME Running, Function
  PROVE  EndInv'
<1>1. CASE At("function") /\ Consume("functionName")
  BY <1>1, Here, ConsumesOn DEF EndPoints, Lists, Fits, LeadPoints, Ended
<1>2. CASE At("functionName") /\ ConsumeUnchecked("functionOpen")
  <2>1. Shift /\ Goto("functionOpen")
    BY <1>2 DEF ConsumeUnchecked
  <2>2. Top'.at = "functionOpen"
    BY <2>1, TopGone DEF Running, Inv, Goto
  <2>3. PastEnd' /\ Top'.at \notin LeadPoints
    BY <2>2 DEF PastEnd, TakenEnds, LeadPoints
  <2> QED BY <2>1, <2>3, AtTheEnd
<1>3. CASE At("functionOpen") /\ cur # "lparen" /\ Reject
  BY <1>3, Here, RejectsOn DEF StatementPart
<1>4. CASE At("functionOpen") /\ cur = "lparen" /\ Consume("params")
  BY <1>4, Here, ConsumesOn DEF EndPoints, Lists, Fits, LeadPoints, Ended
<1>5. CASE /\ At("params") /\ cur = "comma"
           /\ Shift /\ Goto("params")
           /\ IF cur' = "rparen" THEN Report ELSE Quiet
  BY <1>5, Here, GoesAhead DEF Onward, Ended, LeadPoints
<1>6. CASE At("params") /\ cur \notin {"comma", "rparen", "ident"} /\ Reject
  BY <1>6, Here, RejectsOn DEF StatementPart
<1>7. CASE At("params") /\ cur = "ident" /\ ConsumeEnter("type", "paramType")
  BY <1>7, Here, ConsumesEntersOn DEF EndPoints, Lists, Fits, LeadPoints, Ended
<1>8. CASE At("paramType") /\ ret = Null /\ Reject
  BY <1>8, Here, RejectsOn DEF StatementPart
<1>9. CASE At("paramType") /\ ret # Null /\ Jump("params")
  BY <1>9, Here, JumpsOn DEF EndPoints, Lists, Fits
<1>10. CASE At("params") /\ cur = "rparen" /\ Consume("does")
  BY <1>10, Here, ConsumesOn DEF EndPoints, Lists, Fits, LeadPoints, Ended
<1>11. CASE Ready("does") /\ cur = "ident" /\ nxt = "lparen" /\ Enter("call", "functionEnd")
  BY <1>11, EntersOn DEF Fits
<1>12. CASE At("does") /\ cur = "lbrace" /\ Enter("braces", "functionEnd")
  BY <1>12, Here, EntersOn DEF EndPoints, Lists, Fits, At
<1>13. CASE At("does") /\ cur = "return" /\ Enter("return", "functionEnd")
  BY <1>13, Here, EntersOn DEF EndPoints, Lists, Fits, At
<1>14. CASE /\ Ready("does") /\ cur \notin {"lbrace", "return"}
            /\ ~(cur = "ident" /\ nxt = "lparen")
            /\ ConsumeReject
  BY <1>14, Here, RejectsOn DEF Ready, StatementPart
<1> QED BY <1>1, <1>2, <1>3, <1>4, <1>5, <1>6, <1>7, <1>8, <1>9, <1>10, <1>11, <1>12, <1>13, <1>14 DEF Function

LEMMA ExternAhead ==
  ASSUME Running, Extern
  PROVE  EndInv'
<1>1. CASE At("extern") /\ Consume("externKeyword")
  BY <1>1, Here, GoesAhead DEF Consume, Shift, Onward, Fits, Ended
<1>2. CASE At("externKeyword") /\ Consume("externName")
  BY <1>2, Here, ConsumesOn DEF EndPoints, Lists, Fits, LeadPoints, Ended
<1>3. CASE At("externName") /\ ConsumeUnchecked("externOpen")
  <2>1. Shift /\ Goto("externOpen")
    BY <1>3 DEF ConsumeUnchecked
  <2>2. Top'.at = "externOpen"
    BY <2>1, TopGone DEF Running, Inv, Goto
  <2>3. PastEnd' /\ Top'.at \notin LeadPoints
    BY <2>2 DEF PastEnd, TakenEnds, LeadPoints
  <2> QED BY <2>1, <2>3, AtTheEnd
<1>4. CASE At("externOpen") /\ cur # "lparen" /\ Reject
  BY <1>4, Here, RejectsOn DEF StatementPart
<1>5. CASE At("externOpen") /\ cur = "lparen" /\ Consume("externParams")
  BY <1>5, Here, ConsumesOn DEF EndPoints, Lists, Fits, LeadPoints, Ended
<1>6. CASE /\ At("externParams") /\ cur = "comma"
           /\ Shift /\ Goto("externParam")
           /\ IF cur' = "rparen" THEN Report ELSE Quiet
  BY <1>6, Here, GoesAhead DEF Onward, Ended, LeadPoints
<1>7. CASE At("externParams") /\ cur \notin {"comma", "rparen"} /\ ConsumeUnchecked("externType")
  <2>1. Shift /\ Goto("externType")
    BY <1>7 DEF ConsumeUnchecked
  <2>2. Top'.at = "externType"
    BY <2>1, TopGone DEF Running, Inv, Goto
  <2>3. PastEnd' /\ Top'.at \notin LeadPoints
    BY <2>2 DEF PastEnd, TakenEnds, LeadPoints
  <2> QED BY <2>1, <2>3, AtTheEnd
<1>8. CASE At("externParam") /\ ConsumeUnchecked("externType")
  <2>1. Shift /\ Goto("externType")
    BY <1>8 DEF ConsumeUnchecked
  <2>2. Top'.at = "externType"
    BY <2>1, TopGone DEF Running, Inv, Goto
  <2>3. PastEnd' /\ Top'.at \notin LeadPoints
    BY <2>2 DEF PastEnd, TakenEnds, LeadPoints
  <2> QED BY <2>1, <2>3, AtTheEnd
<1>9. CASE At("externType") /\ cur \notin {"ident", "lbracket"} /\ Reject
  BY <1>9, Here, RejectsOn DEF StatementPart
<1>10. CASE At("externType") /\ cur = "ident" /\ Consume("externParams")
  BY <1>10, Here, ConsumesOn DEF EndPoints, Lists, Fits, LeadPoints, Ended
<1>11. CASE /\ \/ At("externType") /\ cur = "ident"
               \/ At("externElement")
            /\ Stay /\ Goto("externParams")
            /\ Flawed("paramType")
            /\ UNCHANGED << hasErrors, lax >>
  BY <1>11, Here, GoesAhead DEF Stay, Onward, EndPoints, Lists, LeadPoints
<1>12. CASE At("externType") /\ cur = "lbracket" /\ ConsumeUnchecked("externElement")
  BY <1>12, Here, ConsumesOn DEF EndPoints, Lists, Fits, LeadPoints, Ended
<1>13. CASE At("externParams") /\ cur = "rparen" /\ Consume("externArrow")
  BY <1>13, Here, ConsumesOn DEF EndPoints, Lists, Fits, LeadPoints, Ended
<1>14. CASE At("externArrow") /\ cur # "arrow" /\ Reject
  BY <1>14, Here, RejectsOn DEF StatementPart
<1>15. CASE At("externArrow") /\ cur = "arrow" /\ ConsumeEnter("type", "functionEnd")
  BY <1>15, Here, ConsumesEntersOn DEF EndPoints, Lists, Fits, LeadPoints, Ended
<1> QED BY <1>1, <1>2, <1>3, <1>4, <1>5, <1>6, <1>7, <1>8, <1>9, <1>10, <1>11, <1>12, <1>13, <1>14, <1>15 DEF Extern

LEMMA CallAhead ==
  ASSUME Running, Call
  PROVE  EndInv'
<1>1. CASE At("call") /\ Consume("callOpen")
  BY <1>1, Here, GoesAhead DEF Consume, Shift, Onward, Fits, Ended
<1>2. CASE At("callOpen") /\ Consume("args")
  BY <1>2, Here, ConsumesOn DEF EndPoints, Lists, Fits, LeadPoints, Ended
<1>3. CASE At("args") /\ cur \in {"rparen", "beyond"} /\ ConsumeYield(Node)
  BY <1>3, Here, YieldsOn DEF EndPoints, Lists, Fits, Ended, ProgramPart
<1>4. CASE /\ At("args") /\ cur = "comma"
           /\ Shift /\ Goto("arg")
           /\ IF cur' = "rparen" THEN Report ELSE Quiet
  BY <1>4, Here, GoesAhead DEF Onward, Ended, LeadPoints
<1>5. CASE At("arg") /\ Enter("expr", "args")
  BY <1>5, Here, EntersOn DEF EndPoints, Lists, Fits, At
<1>6. CASE At("args") /\ cur \notin {"comma", "rparen", "beyond"} /\ Item("expr", "args")
  BY <1>6, EntersOn DEF Fits
<1> QED BY <1>1, <1>2, <1>3, <1>4, <1>5, <1>6 DEF Call

LEMMA ParenthesesAhead ==
  ASSUME Running, Parentheses
  PROVE  EndInv'
<1>1. CASE At("paren") /\ ConsumeEnter("expr", "parenClose")
  BY <1>1, Here, ConsumesEntersOn DEF EndPoints, Lists, Fits, LeadPoints, Ended
<1>2. CASE At("parenClose") /\ ret # Null /\ cur = "rparen" /\ ConsumeYield(Node)
  BY <1>2, Here, YieldsOn DEF EndPoints, Lists, Fits, Ended, ProgramPart
<1>3. CASE At("parenClose") /\ ret # Null /\ cur # "rparen" /\ Reject
  BY <1>3, Here, YieldsOn DEF EndPoints, Lists, Fits, Ended, ProgramPart
<1> QED BY <1>1, <1>2, <1>3 DEF Parentheses

LEMMA CollectionAhead ==
  ASSUME Running, Collection
  PROVE  EndInv'
<1>1. CASE At("collection") /\ Consume("elements")
  BY <1>1, Here, ConsumesOn DEF EndPoints, Lists, Fits, LeadPoints, Ended
<1>2. CASE At("elements") /\ cur = "rbracket" /\ ConsumeYield(Node)
  BY <1>2, Here, YieldsOn DEF EndPoints, Lists, Fits, Ended, ProgramPart
<1>3. CASE At("elements") /\ cur = "comma" /\ Top.mark /\ Reject
  BY <1>3, Here, YieldsOn DEF EndPoints, Lists, Fits, Ended, ProgramPart
<1>4. CASE /\ At("elements") /\ cur = "comma" /\ ~Top.mark
           /\ Shift
           /\ cur' = "rbracket" /\ Report /\ Pop(Null)
  BY <1>4, Here, ReturnsAhead DEF Onward, Ended, ProgramPart
<1>5. CASE /\ At("elements") /\ cur = "comma" /\ ~Top.mark
           /\ Shift
           /\ cur' # "rbracket" /\ Quiet
           /\ stack' = [stack EXCEPT ![Len(stack)].mark = TRUE] /\ UNCHANGED ret
  <2>1. Top = stack[Len(stack)] /\ Top \in Frames /\ Top.at = "elements"
    BY <1>5, Here, StackFacts DEF Running, Inv, Stacked, Top
  <2>2. stack' = [stack EXCEPT ![Len(stack)] = [Top EXCEPT !.mark = TRUE]]
    BY <1>5, <2>1
  <2>3. Top'.at = "elements"
    BY <2>1, <2>2, TopReplaced DEF Running, Inv, Frames
  <2>4. Onward
    BY <1>5 DEF Onward, Ended
  <2> QED BY <2>3, <2>4, Ahead, FitsElsewhere DEF LeadPoints
<1>6. CASE At("elements") /\ cur \notin {"rbracket", "comma"} /\ ~Top.mark /\ Reject
  BY <1>6, Here, YieldsOn DEF EndPoints, Lists, Fits, Ended, ProgramPart
<1>7. CASE At("elements") /\ cur \notin {"rbracket", "comma"} /\ Top.mark /\ Enter("expr", "elementDone")
  BY <1>7, Here, EntersOn DEF EndPoints, Lists, Fits, At
<1>8. CASE At("elementDone") /\ ret = Null /\ Abandon("collection")
  BY <1>8, Here, YieldsOn DEF EndPoints, Lists, Fits, Ended, ProgramPart
<1>9. CASE /\ At("elementDone") /\ ret # Null
           /\ stack' = [stack EXCEPT ![Len(stack)] = Frame("elements", FALSE)]
           /\ ret' = NoValue /\ Stay /\ Quiet
  <2> DEFINE frame == Frame("elements", FALSE)
  <2>1. stack' = [stack EXCEPT ![Len(stack)] = frame] /\ frame.at = "elements"
    BY <1>9 DEF Frame
  <2> HIDE DEF frame
  <2>2. Top'.at = "elements"
    BY <2>1, TopReplaced DEF Running, Inv
  <2>3. Onward
    BY <1>9, Here DEF EndPoints, Lists, Onward, Stay
  <2> QED BY <2>2, <2>3, Ahead, FitsElsewhere DEF LeadPoints
<1> QED BY <1>1, <1>2, <1>3, <1>4, <1>5, <1>6, <1>7, <1>8, <1>9 DEF Collection

LEMMA OperandAhead ==
  ASSUME Running, NEW kind, NEW next, << kind, next >> \in Kinds, Operand(kind, next)
  PROVE  EndInv'
<1>1. cur # "beyond" /\ kind \notin LeadPoints /\ next \notin LeadPoints
  BY Here DEF Operand, Ready, Kinds, EndPoints, Lists, LeadPoints
<1>2. CASE cur = "ident" /\ nxt = "lparen" /\ Enter("call", next)
  BY <1>1, <1>2, EntersOn DEF Fits
<1>3. CASE cur = "lparen" /\ Enter("paren", next)
  BY <1>1, <1>3, EntersOn DEF Fits
<1>4. CASE cur = "lbracket" /\ Stay /\ Push(Frame("collection", TRUE), next) /\ Quiet
  BY <1>1, <1>4, CallsAhead DEF Stay, Onward, Fits
<1>5. CASE /\ \/ cur = "literal"
              \/ cur = "ident" /\ nxt # "lparen"
           /\ Shift /\ Quiet
           /\ stack' = [stack EXCEPT ![Len(stack)].at = next] /\ ret' = Node
  <2>1. Onward
    BY <1>5 DEF Onward, Ended
  <2>2. Top'.at = next
    BY <1>5, TopGone DEF Running, Inv
  <2> QED BY <1>1, <2>1, <2>2, Ahead, FitsElsewhere
<1>6. CASE /\ cur \notin {"ident", "literal", "lparen", "lbracket"}
           /\ Stay
           /\ stack' = [stack EXCEPT ![Len(stack)].at = next] /\ ret' = Null
           /\ NoOperand
  <2>1. Onward
    BY <1>1, <1>6 DEF Onward, Stay
  <2>2. Top'.at = next
    BY <1>6, TopGone DEF Running, Inv
  <2> QED BY <1>1, <2>1, <2>2, Ahead, FitsElsewhere
<1> QED BY <1>2, <1>3, <1>4, <1>5, <1>6 DEF Operand

LEMMA OperatorAhead ==
  ASSUME Running, NEW kind, NEW next, << kind, next >> \in Kinds,
         NEW operators \in SUBSET ({"arithmetic"} \cup Comparison), Operator(kind, next, operators)
  PROVE  EndInv'
<1>1. /\ cur # "beyond" /\ kind \notin LeadPoints /\ Top.at \notin ProgramPart
      /\ operators \cap Ended = {}
  BY Here DEF Operator, Kinds, EndPoints, Lists, LeadPoints, ProgramPart, Comparison, Ended
<1>2. CASE /\ cur \in operators
           /\ Shift
           /\ stack' = [stack EXCEPT ![Len(stack)] = Frame(kind, TRUE)] /\ ret' = NoValue
  <2> DEFINE frame == Frame(kind, TRUE)
  <2>1. stack' = [stack EXCEPT ![Len(stack)] = frame] /\ frame.at = kind
    BY <1>2 DEF Frame
  <2> HIDE DEF frame
  <2>2. Onward /\ Top'.at = kind
    BY <1>1, <1>2, <2>1, TopReplaced DEF Running, Inv, Onward
  <2> QED BY <1>1, <2>2, Ahead, FitsElsewhere
<1>3. CASE Stay /\ Pop(Node)
  BY <1>1, <1>3, ReturnsAhead DEF Onward, Stay
<1>4. CASE Stay /\ Return(ret)
  BY <1>1, <1>4, ReturnsAhead DEF Onward, Stay, Return
<1> QED BY <1>2, <1>3, <1>4 DEF Operator

LEMMA ExpressionAhead ==
  ASSUME Running, Expression
  PROVE  EndInv'
<1>1. << "expr", "exprNext" >> \in Kinds /\ << "sum", "sumNext" >> \in Kinds
  BY DEF Kinds
<1>2. CASE Operand("expr", "exprNext") \/ Operand("sum", "sumNext")
  BY <1>1, <1>2, OperandAhead
<1>3. CASE Operator("expr", "exprNext", {"arithmetic"} \cup Comparison)
  BY <1>1, <1>3, OperatorAhead
<1>4. CASE Operator("sum", "sumNext", {"arithmetic"})
  BY <1>1, <1>4, OperatorAhead
<1> QED BY <1>2, <1>3, <1>4 DEF Expression

(* The way out of a block leads from block to block.                       *)
LEMMA YieldsOut ==
  ASSUME Running, NEW p, At(p), p \in Ends \cup {"mainLoop"}, Yield(Node)
  PROVE  EndInv'
<1>1. Stay /\ Pop(Node) /\ Top.at = p /\ p \notin ProgramPart /\ hasErrors' = hasErrors
  BY Here DEF Yield, Return, Ends, ProgramPart
<1>2. CASE cur # "beyond"
  BY <1>1, <1>2, ReturnsAhead DEF Onward, Stay
<1>3. CASE cur = "beyond"
  <2>1. hasErrors /\ p \in {"mainLoop", "mainEnd", "bodyEnd", "elseEnd", "functionEnd"}
    BY <1>1, <1>3, Here DEF PastEnd, TakenEnds, WayOut, Lists, Ends
  <2>2. Top' = Below /\ Calls(Below.at, Top.at)
    BY <1>1, Popped DEF Running, Inv, Pop
  <2>3. Below.at \in Lists \cup {"elseEnd", "afterMain"}
    BY <1>1, <2>1, <2>2 DEF Calls, IfPart, CallPart, ReturnPart, ParenPart, CollectionPart, ExprPart,
       SumPart, TypePart, BlockPart, MainPart, StatementPart
  <2>4. PastEnd' /\ Top'.at \notin LeadPoints
    BY <1>1, <2>1, <2>2, <2>3, CallersElsewhere DEF PastEnd, WayOut
  <2> QED BY <1>1, <2>4, AtTheEnd DEF Stay
<1> QED BY <1>2, <1>3

LEMMA EndCallAhead ==
  ASSUME Running, EndCall
  PROVE  EndInv'
BY YieldsOut DEF EndCall

LEMMA ParseStepAhead ==
  ASSUME Inv, EndInv, ParseStep
  PROVE  EndInv'
<1>1. Running
  BY ParseStepRuns DEF ParseStep, Running
<1> QED BY <1>1, ProgramAhead, MainAhead, BlockAhead, StatementAhead, DeclarationAhead, TypeAhead,
           ReturnStatementAhead, ElementAhead, IfAhead, WhileAhead, ForAhead, FunctionAhead,
           ExternAhead, CallAhead, ParenthesesAhead, CollectionAhead, ExpressionAhead,
           EndCallAhead DEF ParseStep

LEMMA PeekAhead ==
  ASSUME Inv, EndInv, Peek
  PROVE  EndInv'
<1>1. Parsing /\ cur' = cur /\ stack' = stack /\ nxt' \in After(cur)
  BY DEF Peek, Parsing
<1>2. Top.at \in {"statement", "expr", "sum", "does", "forVar"} /\ cur \notin Ended
  <2>1. CASE cur \in {"ident", "extern"}
    BY <2>1 DEF Peek, Peeks, Ended
  <2>2. CASE Top.at = "forVar" /\ cur # "EoF"
    <3>1. cur # "beyond"
      BY <1>1, <2>2 DEF EndInv, Beyond, PastEnd, TakenEnds, WayOut, Lists
    <3> QED BY <2>2, <3>1 DEF Ended
  <2> QED BY <2>1, <2>2 DEF Peek, Peeks
<1>3. LookAhead'
  BY <1>1, <1>2, Tokens DEF After, LookAhead
<1>4. Led'
  BY <1>1, <1>2, FitsElsewhere DEF Led, LeadPoints, Top
<1>5. Beyond' /\ OverreadsAtEnd'
  BY <1>1, <1>2 DEF Beyond, OverreadsAtEnd, Peek, Parsing, Ended
<1> QED BY <1>3, <1>4, <1>5 DEF EndInv

(* The reads past the end themselves.                                      *)
LEMMA FailAhead ==
  ASSUME Inv, EndInv, Finish \/ Crash \/ Overread \/ Exhaust
  PROVE  EndInv'
<1>1. UNCHANGED << cur, nxt, stack, hasErrors >> /\ status' # "parsing"
  BY DEF Finish, Crash, Overread, Exhaust, Fail
<1>2. LookAhead' /\ Led' /\ Beyond'
  BY <1>1 DEF EndInv, LookAhead, Led, Beyond, Parsing
<1>3. CASE Overread
  <2>1. \/ Top.at \in {"externOpen", "forVar"}
        \/ Top.at = "ifElse" /\ hasErrors
        \/ Top.at = "sum" /\ Below.at = "forStep"
        \/ Top.at = "statement" /\ Len(stack) = 2
    <3>1. CASE cur = "beyond" /\ Top.at \notin InBounds
      <4>1. PastEnd
        BY <1>3, <3>1 DEF EndInv, Beyond, Overread
      <4> QED BY <3>1, <4>1 DEF PastEnd, TakenEnds, WayOut, Lists, InBounds, Checked, Ends
    <3>2. CASE Top.at = "forVar"
      BY <3>2
    <3> QED BY <1>3, <3>1, <3>2 DEF Overread
  <2>2. Top' = Top /\ stack'[Len(stack') - 1] = Below /\ Len(stack') = Len(stack) /\ hasErrors' = hasErrors
    BY <1>1 DEF Top, Below
  <2>3. OverreadsAtEnd'
    BY <2>1, <2>2 DEF OverreadsAtEnd
  <2> QED BY <1>2, <2>3 DEF EndInv
<1>4. CASE Finish \/ Crash \/ Exhaust
  <2>1. status' # "overread"
    BY <1>4 DEF Finish, Crash, Exhaust, Fail
  <2> QED BY <1>2, <2>1 DEF EndInv, OverreadsAtEnd
<1> QED BY <1>3, <1>4

LEMMA NextAhead ==
  ASSUME Inv, EndInv, Next
  PROVE  EndInv'
<1>1. CASE EndMain
  <2>1. Running
    BY <1>1 DEF EndMain, At, Running
  <2> QED BY <1>1, <2>1, YieldsOut DEF EndMain
<1>2. CASE Halted
  BY <1>2 DEF Halted, vars, EndInv, LookAhead, Led, Beyond, PastEnd, OverreadsAtEnd, Parsing, Top, Below
<1> QED BY <1>1, <1>2, PeekAhead, ParseStepAhead, FailAhead DEF Next

-----------------------------------------------------------------------------
(* The reads past the end.                                                 *)

LEMMA EndInit ==
  ASSUME Init
  PROVE  EndInv
<1>1. cur # "beyond" /\ nxt = "unread" /\ status = "parsing" /\ Top.at = "program"
  BY Tokens DEF Init, Top, Last, Frame
<1> QED BY <1>1, FitsElsewhere DEF EndInv, LookAhead, Led, Beyond, OverreadsAtEnd, LeadPoints

LEMMA DriverAhead ==
  ASSUME DriverInv, EndInv, [CompilerNext]_compilerVars
  PROVE  EndInv'
<1>1. CASE Parse
  BY <1>1, NextAhead DEF Parse, DriverInv
<1>2. CASE AnalyseTree
  <2>1. UNCHANGED << cur, nxt, stack, status >> /\ status = "done"
    BY <1>2 DEF AnalyseTree
  <2> QED BY <2>1 DEF EndInv, LookAhead, Led, Beyond, OverreadsAtEnd, Parsing
<1>3. CASE GiveUp \/ Generate \/ Over \/ UNCHANGED compilerVars
  <2>1. UNCHANGED vars
    BY <1>3 DEF GiveUp, Generate, Over, compilerVars
  <2> QED BY <2>1 DEF vars, EndInv, LookAhead, Led, Beyond, PastEnd, OverreadsAtEnd, Parsing, Top, Below
<1> QED BY <1>1, <1>2, <1>3 DEF CompilerNext

(* The token array is read past its end in five places only, whatever the  *)
(* program and however deep its nesting.                                   *)
THEOREM Overreads == CompilerSpec => []OverreadsAtEnd
<1>1. CompilerInit => EndInv
  BY EndInit DEF CompilerInit
<1>2. DriverInv /\ EndInv /\ [CompilerNext]_compilerVars => EndInv'
  BY DriverAhead
<1>3. EndInv => OverreadsAtEnd
  BY DEF EndInv
<1> QED BY <1>1, <1>2, <1>3, Invariance, PTL DEF CompilerSpec

-----------------------------------------------------------------------------
(* The brackets that are open: those the functions in progress hold.       *)

(* What each function of the stack s holds, and all of it.                 *)
Held(s) == [k \in DOMAIN s |-> Holds(s[k].at)]
OpenOf(s) == FlattenSeq(Held(s))

Openers == {"lparen", "lbrace", "lbracket"}

LEMMA HoldsType ==
  ASSUME NEW p
  PROVE  Holds(p) \in Seq(Openers)
<1>1. Holds(p) \in {<< >>, << "lparen" >>, << "lbrace" >>, << "lbracket" >>}
  BY DEF Holds
<1>2. \A b \in Openers : << b >> \in Seq(Openers)
  OBVIOUS
<1>3. << >> \in Seq(Openers)
  OBVIOUS
<1> QED BY <1>1, <1>2, <1>3 DEF Openers

LEMMA HeldType ==
  ASSUME NEW S, NEW s \in Seq(S)
  PROVE  /\ Held(s) \in Seq(Seq(Openers)) /\ Len(Held(s)) = Len(s)
         /\ \A k \in 1..Len(s) : Held(s)[k] = Holds(s[k].at)
<1>1. DOMAIN s = 1..Len(s) /\ Len(s) \in Nat
  OBVIOUS
<1>2. Held(s) \in [1..Len(s) -> Seq(Openers)]
  BY <1>1, HoldsType DEF Held
<1>3. Held(s) \in Seq(Seq(Openers)) /\ Len(Held(s)) = Len(s)
  BY <1>1, <1>2
<1>4. \A k \in 1..Len(s) : Held(s)[k] = Holds(s[k].at)
  BY <1>1 DEF Held
<1> QED BY <1>3, <1>4

(* A function that is called holds its brackets inside those of the rest.  *)
LEMMA OpenAppend ==
  ASSUME NEW S, NEW s \in Seq(S), NEW f \in S
  PROVE  /\ OpenOf(s) \in Seq(Openers)
         /\ OpenOf(Append(s, f)) = OpenOf(s) \o Holds(f.at)
<1> DEFINE t == Append(s, f)
           u == Append(Held(s), Holds(f.at))
<1>1. /\ t \in Seq(S) /\ Len(t) = Len(s) + 1 /\ t[Len(s) + 1] = f
      /\ \A k \in 1..Len(s) : t[k] = s[k]
  BY AppendFacts
<1>2. /\ Held(s) \in Seq(Seq(Openers)) /\ Len(Held(s)) = Len(s)
      /\ \A k \in 1..Len(s) : Held(s)[k] = Holds(s[k].at)
  BY HeldType
<1>3. /\ u \in Seq(Seq(Openers)) /\ Len(u) = Len(s) + 1 /\ u[Len(s) + 1] = Holds(f.at)
      /\ \A k \in 1..Len(s) : u[k] = Held(s)[k]
  BY <1>2, HoldsType, AppendFacts
<1> HIDE DEF t, u
<1>4. /\ Held(t) \in Seq(Seq(Openers)) /\ Len(Held(t)) = Len(s) + 1
      /\ \A k \in 1..(Len(s) + 1) : Held(t)[k] = Holds(t[k].at)
  BY <1>1, HeldType
<1>5. \A k \in 1..(Len(s) + 1) : Held(t)[k] = u[k]
  <2>1. Len(s) \in Nat /\ \A k \in 1..(Len(s) + 1) : k \in 1..Len(s) \/ k = Len(s) + 1
    OBVIOUS
  <2> SUFFICES ASSUME NEW k \in 1..(Len(s) + 1)
               PROVE  Held(t)[k] = u[k]
    OBVIOUS
  <2>2. CASE k \in 1..Len(s)
    BY <1>1, <1>2, <1>3, <1>4, <2>2
  <2>3. CASE k = Len(s) + 1
    BY <1>1, <1>3, <1>4, <2>3
  <2> QED BY <2>1, <2>2, <2>3
<1>6. Held(t) = u
  BY <1>3, <1>4, <1>5, SeqEqual
<1>7. FlattenSeq(u) = FlattenSeq(Held(s)) \o Holds(f.at)
  BY <1>2, HoldsType, FlattenAppend DEF u
<1> QED BY <1>2, <1>6, <1>7, FlattenType DEF OpenOf, t

(* Replacing the top.                                                      *)
LEMMA OpenReplaced ==
  ASSUME NEW S, NEW s \in Seq(S), s # << >>, NEW f \in S
  PROVE  OpenOf([s EXCEPT ![Len(s)] = f]) = OpenOf(Front(s)) \o Holds(f.at)
<1> DEFINE t == [s EXCEPT ![Len(s)] = f]
           u == Append(Front(s), f)
<1>1. /\ Len(s) \in Nat /\ Len(s) >= 1
      /\ Front(s) \in Seq(S) /\ Len(Front(s)) = Len(s) - 1
      /\ \A i \in 1..(Len(s) - 1) : Front(s)[i] = s[i]
  BY FrontFacts
<1>2. /\ t \in Seq(S) /\ Len(t) = Len(s) /\ t[Len(s)] = f
      /\ \A i \in 1..(Len(s) - 1) : t[i] = s[i]
  BY ReplaceFacts DEF Last
<1>3. /\ u \in Seq(S) /\ Len(u) = Len(s) - 1 + 1 /\ u[Len(s) - 1 + 1] = f
      /\ \A i \in 1..(Len(s) - 1) : u[i] = Front(s)[i]
  BY <1>1, AppendFacts
<1>4. Len(s) - 1 + 1 = Len(s) /\ \A i \in 1..Len(s) : i \in 1..(Len(s) - 1) \/ i = Len(s)
  BY <1>1
<1>5. OpenOf(u) = OpenOf(Front(s)) \o Holds(f.at)
  BY <1>1, OpenAppend
<1> HIDE DEF t, u
<1>6. \A i \in 1..Len(s) : t[i] = u[i]
  BY <1>1, <1>2, <1>3, <1>4
<1>7. t = u
  BY <1>2, <1>3, <1>4, <1>6, SeqEqual
<1> QED BY <1>5, <1>7 DEF t

-----------------------------------------------------------------------------
(* How a step changes them.                                                *)

(* What the functions below the top hold.                                  *)
Rest == OpenOf(Front(stack))

(* After the step the function on top holds q instead.                     *)
Holding(q) == OpenOf(stack)' = Rest \o q

LEMMA OpenNow ==
  ASSUME Stacked
  PROVE  /\ Rest \in Seq(Openers)
         /\ OpenOf(stack) = Rest \o Holds(Top.at)
<1>1. stack \in Seq(Frames) /\ stack # << >>
  BY DEF Stacked, WellStacked
<1>2. Front(stack) \in Seq(Frames) /\ Last(stack) \in Frames
  BY <1>1, FrontFacts
<1>3. stack = Append(Front(stack), Last(stack))
  BY <1>1, FrontLast
<1>4. /\ OpenOf(Front(stack)) \in Seq(Openers)
      /\ OpenOf(Append(Front(stack), Last(stack))) = OpenOf(Front(stack)) \o Holds(Last(stack).at)
  BY <1>2, OpenAppend
<1> QED BY <1>3, <1>4 DEF Rest, Top

(* What is held after the top is replaced, moved on, called from or left.  *)
LEMMA LeavesReplaced ==
  ASSUME Stacked, NEW frame, stack' = [stack EXCEPT ![Len(stack)] = frame]
  PROVE  Holding(Holds(frame.at))
<1> DEFINE S == Frames \cup {frame}
<1>1. stack \in Seq(S) /\ stack # << >> /\ frame \in S
  BY DEF Stacked, WellStacked
<1> HIDE DEF S
<1> QED BY <1>1, OpenReplaced DEF Holding, Rest

LEMMA LeavesGone ==
  ASSUME Stacked, NEW p, stack' = [stack EXCEPT ![Len(stack)].at = p]
  PROVE  Holding(Holds(p))
<1>1. Top = stack[Len(stack)] /\ Top \in Frames
  BY StackFacts DEF Stacked, Top
<1>2. stack' = [stack EXCEPT ![Len(stack)] = [Top EXCEPT !.at = p]]
  BY <1>1
<1>3. [Top EXCEPT !.at = p].at = p
  BY <1>1 DEF Frames
<1> QED BY <1>2, <1>3, LeavesReplaced

LEMMA LeavesPushed ==
  ASSUME Stacked, NEW frame, NEW back, Push(frame, back), Holds(frame.at) = << >>
  PROVE  Holding(Holds(back))
<1> DEFINE caller == [Top EXCEPT !.at = back]
           s == [stack EXCEPT ![Len(stack)] = caller]
           S == Frames \cup {caller, frame}
<1>1. /\ stack \in Seq(Frames) /\ stack # << >>
      /\ Top = stack[Len(stack)] /\ Top \in Frames /\ Len(stack) \in Nat
  BY StackFacts DEF Stacked, WellStacked, Top
<1>2. caller.at = back
  BY <1>1 DEF Frames
<1>3. stack' = Append(s, frame)
  BY <1>1 DEF Push
<1> HIDE DEF caller
<1>4. stack \in Seq(S) /\ caller \in S /\ frame \in S
  BY <1>1
<1> HIDE DEF S
<1>5. s \in Seq(S) /\ OpenOf(s) = Rest \o Holds(back)
  BY <1>1, <1>2, <1>4, ReplaceFacts, OpenReplaced DEF Rest
<1> HIDE DEF s
<1>6. OpenOf(s) \in Seq(Openers) /\ OpenOf(stack') = OpenOf(s) \o << >>
  BY <1>3, <1>4, <1>5, OpenAppend
<1>7. OpenOf(stack') = OpenOf(s)
  BY <1>6
<1> QED BY <1>5, <1>7 DEF Holding

LEMMA LeavesPopped ==
  ASSUME Stacked, stack' = Front(stack)
  PROVE  Holding(<< >>)
<1>1. Rest \in Seq(Openers)
  BY OpenNow
<1>2. Rest \o << >> = Rest
  BY <1>1
<1> QED BY <1>2 DEF Holding, Rest

-----------------------------------------------------------------------------
(* The steps are those of Brackets.                                        *)

(* cur is a token that turns what the function on top holds into q.        *)
Takes(q) ==
  \/ cur \notin Bracket /\ q = Holds(Top.at)
  \/ cur \in Openers /\ Holds(Top.at) = << >> /\ q = << cur >>
  \/ cur = "rparen" /\ Holds(Top.at) = << "lparen" >> /\ q = << >>
  \/ cur = "rbrace" /\ Holds(Top.at) = << "lbrace" >> /\ q = << >>
  \/ cur = "rbracket" /\ Holds(Top.at) = << "lbracket" >> /\ q = << >>

(* No error is reported and nothing is excused.                            *)
Same == UNCHANGED << hasErrors, lax >>

(* What the books and the index make of a step after which q is held.      *)
Passes(q) ==
  \/ hasErrors'
  \/ lax' /\ UNCHANGED hasErrors
  \/ Same /\ Shift /\ Takes(q)
  \/ Same /\ UNCHANGED cur /\ q = Holds(Top.at)

(* The token read opens a bracket, closes the innermost one or is none.    *)
ReadsBracket ==
  \/ cur \in Openers /\ OpenOf(stack)' = Append(OpenOf(stack), cur)
  \/ /\ OpenOf(stack) # << >> /\ cur = B!Closing[Last(OpenOf(stack))]
     /\ OpenOf(stack)' = Front(OpenOf(stack))
  \/ cur \notin Bracket /\ OpenOf(stack)' = OpenOf(stack)

(* What the step is of Brackets: a rejection, an excuse, the token read,   *)
(* or none.                                                                *)
Matched ==
  \/ hasErrors'
  \/ lax' /\ UNCHANGED hasErrors
  \/ Same /\ cur' \in Token \cup Ended /\ ReadsBracket
  \/ Same /\ UNCHANGED cur /\ OpenOf(stack)' = OpenOf(stack)

(* A bracket taken for a type is excused.                                  *)
Nested == Parsing /\ Top.at = "externElement" => lax \/ hasErrors

StepOK == Matched /\ Nested'

(* The bracket opened last is the one on top.                              *)
LEMMA OneBracket ==
  ASSUME NEW s \in Seq(Openers), NEW b \in Openers
  PROVE  /\ Append(s, b) = s \o << b >>
         /\ s \o << b >> # << >> /\ Last(s \o << b >>) = b /\ Front(s \o << b >>) = s
<1>1. Append(s, b) = s \o << b >>
  OBVIOUS
<1>2. /\ Append(s, b) \in Seq(Openers) /\ Len(Append(s, b)) = Len(s) + 1
      /\ \A i \in 1..Len(s) : Append(s, b)[i] = s[i]
      /\ Append(s, b)[Len(s) + 1] = b /\ Append(s, b) # << >>
  BY AppendFacts
<1> DEFINE t == Append(s, b)
<1> HIDE DEF t
<1>3. Last(t) = b
  BY <1>2 DEF Last, t
<1>4. /\ Front(t) \in Seq(Openers) /\ Len(Front(t)) = Len(t) - 1
      /\ \A i \in 1..(Len(t) - 1) : Front(t)[i] = t[i]
  BY <1>2, FrontFacts DEF t
<1>5. Len(t) - 1 = Len(s) /\ Len(s) \in Nat
  BY <1>2 DEF t
<1>6. \A i \in 1..Len(s) : Front(t)[i] = s[i]
  BY <1>2, <1>4, <1>5 DEF t
<1>7. Front(t) = s
  BY <1>4, <1>5, <1>6, SeqEqual
<1> QED BY <1>1, <1>2, <1>3, <1>7 DEF t

LEMMA ClosingFacts ==
  /\ B!Closing["lparen"] = "rparen" /\ B!Closing["lbrace"] = "rbrace"
  /\ B!Closing["lbracket"] = "rbracket"
  /\ DOMAIN B!Closing = Openers
  /\ B!Closers = {"rparen", "rbrace", "rbracket"}
BY DEF B!Closing, B!Closers, Openers

(* A step is one of Brackets if what it does to the top is.                *)
LEMMA Passed ==
  ASSUME Running, NEW q, Holding(q), Passes(q)
  PROVE  Matched
<1>1. Rest \in Seq(Openers) /\ OpenOf(stack) = Rest \o Holds(Top.at)
  BY OpenNow DEF Running, Inv
<1>2. Rest \o << >> = Rest
  BY <1>1
<1>3. CASE Same /\ UNCHANGED cur /\ q = Holds(Top.at)
  BY <1>1, <1>3 DEF Holding, Matched
<1>4. CASE Same /\ Shift /\ Takes(q)
  <2>1. cur' \in Token \cup Ended
    BY <1>4, Reads DEF Running, Inv
  <2>2. ASSUME NEW b \in Openers, cur = B!Closing[b], Holds(Top.at) = << b >>, q = << >>
        PROVE  ReadsBracket
    <3>1. /\ OpenOf(stack) # << >> /\ Last(OpenOf(stack)) = b
          /\ Front(OpenOf(stack)) = Rest
      BY <1>1, <2>2, OneBracket
    <3>2. OpenOf(stack)' = Rest
      BY <1>2, <2>2 DEF Holding
    <3> QED BY <2>2, <3>1, <3>2 DEF ReadsBracket
  <2>3. ASSUME cur \notin Bracket, q = Holds(Top.at)
        PROVE  ReadsBracket
    <3>1. OpenOf(stack)' = OpenOf(stack)
      BY <1>1, <2>3, Zenon DEF Holding
    <3> QED BY <2>3, <3>1 DEF ReadsBracket
  <2>4. ASSUME cur \in Openers, Holds(Top.at) = << >>, q = << cur >>
        PROVE  ReadsBracket
    <3>1. OpenOf(stack) = Rest
      BY <1>1, <1>2, <2>4
    <3>2. Append(Rest, cur) = Rest \o << cur >>
      BY <1>1, <2>4, OneBracket
    <3>3. OpenOf(stack)' = Append(OpenOf(stack), cur)
      BY <2>4, <3>1, <3>2 DEF Holding
    <3> QED BY <2>4, <3>3 DEF ReadsBracket
  <2>5. ASSUME NEW b \in Openers, NEW c, cur = c, c = B!Closing[b], Holds(Top.at) = << b >>, q = << >>
        PROVE  ReadsBracket
    BY <2>2, <2>5
  <2>6. ReadsBracket
    <3>1. "lparen" \in Openers /\ "lbrace" \in Openers /\ "lbracket" \in Openers
      BY DEF Openers
    <3> QED BY <1>4, <2>3, <2>4, <2>5, <3>1, ClosingFacts, Zenon DEF Takes
  <2> QED BY <1>4, <2>1, <2>6, Zenon DEF Matched
<1> QED BY <1>3, <1>4 DEF Passes, Matched

-----------------------------------------------------------------------------
(* The steps the parse functions are made of.                              *)

LEMMA QuietSame == Quiet => Same
BY DEF Quiet, Same

LEMMA ShiftPasses ==
  ASSUME Same, Shift, NEW q, Takes(q)
  PROVE  Passes(q)
BY Zenon DEF Passes

LEMMA StayPasses ==
  ASSUME Same, Stay \/ UNCHANGED << cur, nxt >>, NEW q, q = Holds(Top.at)
  PROVE  Passes(q)
<1>1. UNCHANGED cur
  BY DEF Stay
<1> QED BY <1>1, Zenon DEF Passes

LEMMA GoesMatched ==
  ASSUME Running, NEW p, p # "externElement" \/ lax' \/ hasErrors', Goto(p), Passes(Holds(p))
  PROVE  StepOK
<1>1. Holding(Holds(p)) /\ Top'.at = p
  BY LeavesGone, TopGone DEF Running, Inv, Goto
<1> QED BY <1>1, Passed DEF StepOK, Nested

LEMMA CallsMatched ==
  ASSUME Running, NEW p, NEW mark, NEW back, p # "externElement", Holds(p) = << >>,
         Push(Frame(p, mark), back), Passes(Holds(back))
  PROVE  StepOK
<1> DEFINE frame == Frame(p, mark)
<1>1. frame.at = p /\ Push(frame, back)
  BY DEF Frame
<1> HIDE DEF frame
<1>2. Holding(Holds(back)) /\ Top'.at = p
  BY <1>1, LeavesPushed, TopPushed DEF Running, Inv
<1> QED BY <1>2, Passed DEF StepOK, Nested

LEMMA ReturnsMatched ==
  ASSUME Running, Top.at \notin ProgramPart, NEW value, Pop(value), Passes(<< >>)
  PROVE  StepOK
<1>1. Holding(<< >>) /\ Top' = Below /\ Calls(Below.at, Top.at)
  BY LeavesPopped, Popped DEF Running, Inv, Pop
<1>2. Below.at # "externElement"
  BY <1>1 DEF Calls, Lists, BlockCallers, TypeCallers, ExprCallers, SumCallers, Nexts
<1> QED BY <1>1, <1>2, Passed DEF StepOK, Nested

LEMMA ReplacesMatched ==
  ASSUME Running, NEW frame, frame.at # "externElement",
         stack' = [stack EXCEPT ![Len(stack)] = frame], Passes(Holds(frame.at))
  PROVE  StepOK
<1>1. Holding(Holds(frame.at)) /\ Top' = frame
  BY LeavesReplaced, TopReplaced DEF Running, Inv
<1> QED BY <1>1, Passed DEF StepOK, Nested

LEMMA ConsumesMatched ==
  ASSUME Running, NEW p, p # "externElement", Consume(p), Takes(Holds(p))
  PROVE  StepOK
<1>1. Goto(p) /\ Shift /\ Same
  BY QuietSame DEF Consume
<1>2. Passes(Holds(p))
  BY <1>1, ShiftPasses
<1> QED BY <1>1, <1>2, GoesMatched

LEMMA UnchecksMatched ==
  ASSUME Running, NEW p, ConsumeUnchecked(p), Holds(p) = Holds(Top.at),
         p = "externElement" => cur \in Bracket
  PROVE  StepOK
<1>1. hasErrors \in BOOLEAN /\ lax \in BOOLEAN
  BY DEF Running, Inv, Typed
<1>2. CASE cur \in Bracket
  BY <1>1, <1>2, GoesMatched DEF ConsumeUnchecked, Passes
<1>3. CASE cur \notin Bracket
  BY <1>1, <1>3, GoesMatched DEF ConsumeUnchecked, Passes, Takes, Same
<1> QED BY <1>2, <1>3

LEMMA JumpsMatched ==
  ASSUME Running, NEW p, p # "externElement", Jump(p), Holds(p) = Holds(Top.at)
  PROVE  StepOK
<1>1. Goto(p) /\ Stay /\ Same
  BY QuietSame DEF Jump
<1>2. Passes(Holds(p))
  BY <1>1, StayPasses
<1> QED BY <1>1, <1>2, GoesMatched

LEMMA EntersMatched ==
  ASSUME Running, NEW p, NEW back, p # "externElement", Holds(p) = << >>,
         Enter(p, back) \/ Item(p, back), Holds(back) = Holds(Top.at)
  PROVE  StepOK
<1>1. Push(Frame(p, FALSE), back) /\ Same /\ (Stay \/ UNCHANGED << cur, nxt >>)
  BY QuietSame DEF Enter, Item
<1>2. Passes(Holds(back))
  BY <1>1, StayPasses
<1> QED BY <1>1, <1>2, CallsMatched

LEMMA ConsumesEntersMatched ==
  ASSUME Running, NEW p, NEW back, p # "externElement", Holds(p) = << >>,
         ConsumeEnter(p, back), Takes(Holds(back))
  PROVE  StepOK
<1>1. Push(Frame(p, FALSE), back) /\ Same /\ Shift
  BY QuietSame DEF ConsumeEnter
<1>2. Passes(Holds(back))
  BY <1>1, ShiftPasses
<1> QED BY <1>1, <1>2, CallsMatched

LEMMA YieldsMatched ==
  ASSUME Running, Top.at \notin ProgramPart, NEW value,
         \/ Yield(value) /\ Holds(Top.at) = << >>
         \/ ConsumeYield(value) /\ Takes(<< >>)
  PROVE  StepOK
<1>1. Pop(value) /\ Same
  BY DEF Yield, ConsumeYield, Return, Same
<1>2. Passes(<< >>)
  BY <1>1, ShiftPasses, StayPasses DEF Yield, ConsumeYield
<1> QED BY <1>1, <1>2, ReturnsMatched

LEMMA RejectsMatched ==
  ASSUME Running, Top.at \notin ProgramPart, Reject \/ ConsumeReject
  PROVE  StepOK
<1>1. Pop(Null) /\ Report
  BY DEF Reject, ConsumeReject
<1>2. Passes(<< >>)
  BY <1>1, Zenon DEF Report, Passes
<1> QED BY <1>1, <1>2, ReturnsMatched

LEMMA AbandonsMatched ==
  ASSUME Running, Top.at \notin ProgramPart, NEW what, Abandon(what)
  PROVE  StepOK
<1>1. Pop(Null)
  BY DEF Abandon
<1>2. lax' = ~hasErrors /\ hasErrors' = hasErrors
  BY Zenon DEF Abandon
<1>3. Passes(<< >>)
  BY <1>2, Zenon DEF Passes
<1> QED BY <1>1, <1>3, ReturnsMatched

LEMMA ReportsMatched ==
  ASSUME Running, Top.at \notin ProgramPart, NEW value, Pop(value), Report
  PROVE  StepOK
<1>1. Passes(<< >>)
  BY Zenon DEF Report, Passes
<1> QED BY <1>1, ReturnsMatched

(* A comma, with an error if nothing follows.                              *)
LEMMA CommasMatched ==
  ASSUME Running, cur = "comma", Shift, NEW p, p # "externElement", Goto(p),
         Holds(p) = Holds(Top.at), Report \/ Quiet
  PROVE  StepOK
<1>1. CASE Report
  <2>1. Passes(Holds(p))
    BY <1>1, Zenon DEF Report, Passes
  <2> QED BY <2>1, GoesMatched
<1>2. CASE Quiet
  <2>1. Takes(Holds(p))
    BY DEF Takes, Bracket
  <2>2. Passes(Holds(p))
    BY <1>2, <2>1, QuietSame, ShiftPasses
  <2> QED BY <2>2, GoesMatched
<1> QED BY <1>1, <1>2

-----------------------------------------------------------------------------
(* The actions are steps of Brackets.                                      *)

LEMMA ProgramMatched ==
  ASSUME Running, Program
  PROVE  StepOK
<1>1. CASE At("program") /\ cur \notin Ended \cup {"entry"} /\ Item("statement", "program")
  BY <1>1, Here, EntersMatched DEF Holds
<1>2. CASE At("program") /\ cur = "entry" /\ Enter("main", "afterMain")
  BY <1>2, Here, EntersMatched DEF Holds
<1>3. CASE At("afterMain") /\ ~fq /\ Item("statement", "program")
  BY <1>3, Here, EntersMatched DEF Holds
<1> QED BY <1>1, <1>2, <1>3 DEF Program

LEMMA MainMatched ==
  ASSUME Running, Main
  PROVE  StepOK
<1>1. CASE At("main") /\ Consume("mainBody")
  BY <1>1, Here, ConsumesMatched DEF Fits, Takes, Holds, Bracket, Openers
<1>2. CASE At("mainBody") /\ cur = "lbrace" /\ Enter("braces", "mainEnd")
  BY <1>2, Here, EntersMatched DEF Holds
<1>3. CASE At("mainBody") /\ cur # "lbrace" /\ Jump("mainLoop")
  BY <1>3, Here, JumpsMatched DEF Holds
<1>4. CASE At("mainLoop") /\ cur \notin Ended /\ moved /\ ListItem("mainLoop")
  BY <1>4, Here, EntersMatched DEF ListItem, Holds
<1> QED BY <1>1, <1>2, <1>3, <1>4 DEF Main

LEMMA BlockMatched ==
  ASSUME Running, Block
  PROVE  StepOK
<1>1. CASE At("braces") /\ cur = "lbrace" /\ Consume("block")
  BY <1>1, Here, ConsumesMatched DEF Fits, Takes, Holds, Bracket, Openers
<1>2. CASE At("braces") /\ cur # "lbrace" /\ Yield(Null)
  BY <1>2, Here, YieldsMatched DEF Fits, Takes, Holds, Bracket, Openers, ProgramPart
<1>3. CASE At("block") /\ cur \notin {"rbrace", "beyond"} /\ ListItem("block")
  BY <1>3, Here, EntersMatched DEF ListItem, Holds
<1>4. CASE At("block") /\ cur = "rbrace" /\ ConsumeYield(Node)
  BY <1>4, Here, YieldsMatched DEF Fits, Takes, Holds, Bracket, Openers, ProgramPart
<1>5. CASE At("block") /\ cur = "beyond" /\ ConsumeYield(Node)
  <2>1. Top.at = "block" /\ Top.at \notin ProgramPart /\ hasErrors
    BY <1>5, Here DEF PastEnd, TakenEnds, ProgramPart
  <2>2. Pop(Node) /\ hasErrors' = hasErrors
    BY <1>5 DEF ConsumeYield, Return
  <2>3. Passes(<< >>)
    BY <2>1, <2>2, Zenon DEF Passes
  <2> QED BY <2>1, <2>2, <2>3, ReturnsMatched
<1> QED BY <1>1, <1>2, <1>3, <1>4, <1>5 DEF Block

LEMMA StatementMatched ==
  ASSUME Running, Statement
  PROVE  StepOK
<1>0. At("statement")
  BY DEF Statement, Ready
<1>1. CASE cur = "EoF" /\ Yield(Null)
  BY <1>0, <1>1, Here, YieldsMatched DEF Fits, Takes, Holds, Bracket, Openers, ProgramPart
<1>2. CASE /\ cur \in {"let", "const"}
           /\ stack' = [stack EXCEPT ![Len(stack)] = Frame("let", cur = "const")]
           /\ ret' = NoValue /\ Stay /\ Quiet
  <2> DEFINE constant == cur = "const"
             frame == Frame("let", constant)
  <2>1. stack' = [stack EXCEPT ![Len(stack)] = frame]
    BY <1>2
  <2> HIDE DEF constant
  <2>2. frame.at = "let"
    BY DEF Frame
  <2> HIDE DEF frame
  <2>3. Passes(Holds(frame.at))
    <3>1. Holds(frame.at) = Holds(Top.at)
      BY <1>0, <2>2, Here DEF Holds
    <3> QED BY <1>2, <3>1, QuietSame, StayPasses
  <2> QED BY <2>1, <2>2, <2>3, ReplacesMatched
<1>3. CASE cur \in {"if", "while", "for", "function"} /\ Jump(cur)
  BY <1>0, <1>3, Here, JumpsMatched DEF Holds
<1>4. CASE cur = "ident" /\ nxt = "lparen" /\ Jump("call")
  BY <1>0, <1>4, Here, JumpsMatched DEF Holds
<1>5. CASE cur = "ident" /\ nxt = "lbracket" /\ Jump("element")
  BY <1>0, <1>5, Here, JumpsMatched DEF Holds
<1>6. CASE cur = "extern" /\ nxt = "function" /\ Jump("extern")
  BY <1>0, <1>6, Here, JumpsMatched DEF Holds
<1>7. CASE cur \in {"break", "continue"} /\ ConsumeYield(Node)
  BY <1>0, <1>7, Here, YieldsMatched DEF Fits, Takes, Holds, Bracket, Openers, ProgramPart
<1>8. CASE ~Known(cur, nxt) /\ UnknownStatement
  BY <1>0, <1>8, Here, RejectsMatched DEF UnknownStatement, ProgramPart
<1> QED BY <1>1, <1>2, <1>3, <1>4, <1>5, <1>6, <1>7, <1>8 DEF Statement

LEMMA DeclarationMatched ==
  ASSUME Running, Declaration
  PROVE  StepOK
<1>1. CASE At("let") /\ Consume("letName")
  BY <1>1, Here, ConsumesMatched DEF Fits, Takes, Holds, Bracket, Openers
<1>2. CASE At("letName") /\ cur # "ident" /\ Reject
  BY <1>2, Here, RejectsMatched DEF ProgramPart
<1>3. CASE At("letName") /\ cur = "ident" /\ Consume("letType")
  BY <1>3, Here, ConsumesMatched DEF Fits, Takes, Holds, Bracket, Openers
<1>4. CASE At("letType") /\ cur = "ident" /\ Enter("type", "letTyped")
  BY <1>4, Here, EntersMatched DEF Holds
<1>5. CASE /\ At("letTyped") /\ cur # "equ" /\ ~Top.mark
           /\ Stay /\ Pop(Node)
           /\ Flawed("value")
           /\ UNCHANGED << hasErrors, lax >>
  <2>1. Top.at = "letTyped" /\ Pop(Node) /\ Stay /\ Same
    BY <1>5, Here DEF Same
  <2>2. Holds(Top.at) = << >> /\ Top.at \notin ProgramPart
    BY <2>1 DEF Holds, ProgramPart
  <2>3. Passes(<< >>)
    BY <2>1, <2>2, StayPasses
  <2> QED BY <2>1, <2>2, <2>3, ReturnsMatched
<1>6. CASE /\ \/ At("letType") /\ cur \notin {"ident", "equ"}
              \/ At("letTyped") /\ cur # "equ" /\ Top.mark
           /\ IF cur = "EoF" THEN Reject ELSE ConsumeReject
  BY <1>6, Here, RejectsMatched DEF ProgramPart
<1>7. CASE (At("letType") \/ At("letTyped")) /\ cur = "equ" /\ Consume("letValue")
  BY <1>7, Here, ConsumesMatched DEF Fits, Takes, Holds, Bracket, Openers
<1>8. CASE At("letValue") /\ cur = "EoF" /\ Reject
  BY <1>8, Here, RejectsMatched DEF ProgramPart
<1>9. CASE At("letValue") /\ cur # "EoF" /\ Enter("expr", "letEnd")
  BY <1>9, Here, EntersMatched DEF Holds
<1> QED BY <1>1, <1>2, <1>3, <1>4, <1>5, <1>6, <1>7, <1>8, <1>9 DEF Declaration

LEMMA TypeMatched ==
  ASSUME Running, Type
  PROVE  StepOK
<1>1. CASE At("type") /\ cur # "ident" /\ Yield(Null)
  BY <1>1, Here, YieldsMatched DEF Fits, Takes, Holds, Bracket, Openers, ProgramPart
<1>2. CASE At("type") /\ cur = "ident" /\ (ConsumeYield(Null) \/ ConsumeYield(Node))
  BY <1>2, Here, YieldsMatched DEF Fits, Takes, Holds, Bracket, Openers, ProgramPart
<1>3. CASE At("type") /\ cur = "ident" /\ Consume("typeArg")
  BY <1>3, Here, ConsumesMatched DEF Fits, Takes, Holds, Bracket, Openers
<1>4. CASE At("typeArg") /\ cur = "lt" /\ ConsumeEnter("type", "typeClose")
  BY <1>4, Here, ConsumesEntersMatched DEF Fits, Takes, Holds, Bracket, Openers
<1>5. CASE At("typeArg") /\ cur # "lt" /\ Yield(Node)
  BY <1>5, Here, YieldsMatched DEF Fits, Takes, Holds, Bracket, Openers, ProgramPart
<1>6. CASE At("typeClose") /\ cur = "gt" /\ ConsumeYield(Node)
  BY <1>6, Here, YieldsMatched DEF Fits, Takes, Holds, Bracket, Openers, ProgramPart
<1>7. CASE At("typeClose") /\ cur # "gt" /\ Stay /\ Report /\ Pop(Node)
  BY <1>7, Here, ReportsMatched DEF ProgramPart
<1> QED BY <1>1, <1>2, <1>3, <1>4, <1>5, <1>6, <1>7 DEF Type

LEMMA ReturnStatementMatched ==
  ASSUME Running, ReturnStatement
  PROVE  StepOK
<1>1. CASE At("return") /\ ConsumeEnter("expr", "returnEnd")
  BY <1>1, Here, ConsumesEntersMatched DEF Fits, Takes, Holds, Bracket, Openers
<1> QED BY <1>1 DEF ReturnStatement

LEMMA ElementMatched ==
  ASSUME Running, Element
  PROVE  StepOK
<1>1. CASE At("element") /\ Consume("elementOpen")
  BY <1>1, Here, ConsumesMatched DEF Fits, Takes, Holds, Bracket, Openers
<1>2. CASE At("elementOpen") /\ ConsumeEnter("expr", "elementClose")
  BY <1>2, Here, ConsumesEntersMatched DEF Fits, Takes, Holds, Bracket, Openers
<1>3. CASE At("elementClose") /\ cur # "rbracket" /\ Reject
  BY <1>3, Here, RejectsMatched DEF ProgramPart
<1>4. CASE At("elementClose") /\ cur = "rbracket" /\ Consume("elementSet")
  BY <1>4, Here, ConsumesMatched DEF Fits, Takes, Holds, Bracket, Openers
<1>5. CASE At("elementSet") /\ cur = "equ" /\ Enter("expr", "elementEnd")
  BY <1>5, Here, EntersMatched DEF Holds
<1>6. CASE At("elementSet") /\ cur # "equ" /\ Yield(Node)
  BY <1>6, Here, YieldsMatched DEF Fits, Takes, Holds, Bracket, Openers, ProgramPart
<1> QED BY <1>1, <1>2, <1>3, <1>4, <1>5, <1>6 DEF Element

LEMMA IfMatched ==
  ASSUME Running, If
  PROVE  StepOK
<1>1. CASE At("if") /\ Consume("ifOpen")
  BY <1>1, Here, ConsumesMatched DEF Fits, Takes, Holds, Bracket, Openers
<1>2. CASE At("ifOpen") /\ cur # "lparen" /\ Reject
  BY <1>2, Here, RejectsMatched DEF ProgramPart
<1>3. CASE At("ifOpen") /\ cur = "lparen" /\ ConsumeEnter("expr", "ifClose")
  BY <1>3, Here, ConsumesEntersMatched DEF Fits, Takes, Holds, Bracket, Openers
<1>4. CASE At("ifClose") /\ ret = Null /\ Abandon("if")
  BY <1>4, Here, AbandonsMatched DEF ProgramPart
<1>5. CASE At("ifClose") /\ ret # Null /\ cur # "rparen" /\ Reject
  BY <1>5, Here, RejectsMatched DEF ProgramPart
<1>6. CASE At("ifClose") /\ ret # Null /\ cur = "rparen" /\ ConsumeEnter("braces", "ifElse")
  BY <1>6, Here, ConsumesEntersMatched DEF Fits, Takes, Holds, Bracket, Openers
<1>7. CASE At("ifElse") /\ cur # "else" /\ Yield(Node)
  BY <1>7, Here, YieldsMatched DEF Fits, Takes, Holds, Bracket, Openers, ProgramPart
<1>8. CASE At("ifElse") /\ cur = "else" /\ Consume("else")
  BY <1>8, Here, ConsumesMatched DEF Fits, Takes, Holds, Bracket, Openers
<1>9. CASE At("else") /\ cur = "if" /\ Enter("if", "elseEnd")
  BY <1>9, Here, EntersMatched DEF Holds
<1>10. CASE At("else") /\ cur = "lbrace" /\ Enter("braces", "elseEnd")
  BY <1>10, Here, EntersMatched DEF Holds
<1>11. CASE At("else") /\ cur \notin {"if", "lbrace"} /\ Yield(Node)
  BY <1>11, Here, YieldsMatched DEF Fits, Takes, Holds, Bracket, Openers, ProgramPart
<1> QED BY <1>1, <1>2, <1>3, <1>4, <1>5, <1>6, <1>7, <1>8, <1>9, <1>10, <1>11 DEF If

LEMMA WhileMatched ==
  ASSUME Running, While
  PROVE  StepOK
<1>1. CASE At("while") /\ Consume("whileOpen")
  BY <1>1, Here, ConsumesMatched DEF Fits, Takes, Holds, Bracket, Openers
<1>2. CASE At("whileOpen") /\ cur # "lparen" /\ Reject
  BY <1>2, Here, RejectsMatched DEF ProgramPart
<1>3. CASE At("whileOpen") /\ cur = "lparen" /\ ConsumeEnter("expr", "whileClose")
  BY <1>3, Here, ConsumesEntersMatched DEF Fits, Takes, Holds, Bracket, Openers
<1>4. CASE At("whileClose") /\ cur # "rparen" /\ Reject
  BY <1>4, Here, RejectsMatched DEF ProgramPart
<1>5. CASE At("whileClose") /\ cur = "rparen" /\ ConsumeEnter("braces", "bodyEnd")
  BY <1>5, Here, ConsumesEntersMatched DEF Fits, Takes, Holds, Bracket, Openers
<1> QED BY <1>1, <1>2, <1>3, <1>4, <1>5 DEF While

LEMMA ForMatched ==
  ASSUME Running, For
  PROVE  StepOK
<1>1. CASE At("for") /\ Consume("forOpen")
  BY <1>1, Here, ConsumesMatched DEF Fits, Takes, Holds, Bracket, Openers
<1>2. CASE At("forOpen") /\ cur # "lparen" /\ Reject
  BY <1>2, Here, RejectsMatched DEF ProgramPart
<1>3. CASE At("forOpen") /\ cur = "lparen" /\ Consume("forVar")
  BY <1>3, Here, ConsumesMatched DEF Fits, Takes, Holds, Bracket, Openers
<1>4. CASE Ready("forVar") /\ nxt = "arrow" /\ ConsumeUnchecked("forArrow")
  BY <1>4, Here, UnchecksMatched DEF Holds, Bracket, Ready
<1>5. CASE Ready("forVar") /\ nxt = "colon" /\ ConsumeUnchecked("forList")
  BY <1>5, Here, UnchecksMatched DEF Holds, Bracket, Ready
<1>6. CASE Ready("forVar") /\ cur # "EoF" /\ nxt \notin {"arrow", "colon"} /\ Abandon("for")
  BY <1>6, Here, AbandonsMatched DEF ProgramPart, Ready
<1>7. CASE At("forArrow") /\ ConsumeEnter("sum", "forColon")
  BY <1>7, Here, ConsumesEntersMatched DEF Fits, Takes, Holds, Bracket, Openers
<1>8. CASE At("forColon") /\ ConsumeUnchecked("forTo")
  BY <1>8, Here, UnchecksMatched DEF Holds, Bracket
<1>9. CASE At("forTo") /\ Enter("sum", "forStep")
  BY <1>9, Here, EntersMatched DEF Holds
<1>10. CASE At("forStep") /\ cur = "arrow" /\ ConsumeEnter("sum", "forClose")
  BY <1>10, Here, ConsumesEntersMatched DEF Fits, Takes, Holds, Bracket, Openers
<1>11. CASE At("forStep") /\ cur # "arrow" /\ Jump("forClose")
  BY <1>11, Here, JumpsMatched DEF Holds
<1>12. CASE At("forList") /\ Consume("forClose")
  BY <1>12, Here, ConsumesMatched DEF Fits, Takes, Holds, Bracket, Openers
<1>13. CASE At("forClose") /\ cur # "rparen" /\ Reject
  BY <1>13, Here, RejectsMatched DEF ProgramPart
<1>14. CASE At("forClose") /\ cur = "rparen" /\ ConsumeEnter("braces", "bodyEnd")
  BY <1>14, Here, ConsumesEntersMatched DEF Fits, Takes, Holds, Bracket, Openers
<1> QED BY <1>1, <1>2, <1>3, <1>4, <1>5, <1>6, <1>7, <1>8, <1>9, <1>10, <1>11, <1>12, <1>13, <1>14 DEF For

LEMMA FunctionMatched ==
  ASSUME Running, Function
  PROVE  StepOK
<1>1. CASE At("function") /\ Consume("functionName")
  BY <1>1, Here, ConsumesMatched DEF Fits, Takes, Holds, Bracket, Openers
<1>2. CASE At("functionName") /\ ConsumeUnchecked("functionOpen")
  BY <1>2, Here, UnchecksMatched DEF Holds, Bracket
<1>3. CASE At("functionOpen") /\ cur # "lparen" /\ Reject
  BY <1>3, Here, RejectsMatched DEF ProgramPart
<1>4. CASE At("functionOpen") /\ cur = "lparen" /\ Consume("params")
  BY <1>4, Here, ConsumesMatched DEF Fits, Takes, Holds, Bracket, Openers
<1>5. CASE /\ At("params") /\ cur = "comma"
           /\ Shift /\ Goto("params")
           /\ IF cur' = "rparen" THEN Report ELSE Quiet
  BY <1>5, Here, CommasMatched DEF Holds
<1>6. CASE At("params") /\ cur \notin {"comma", "rparen", "ident"} /\ Reject
  BY <1>6, Here, RejectsMatched DEF ProgramPart
<1>7. CASE At("params") /\ cur = "ident" /\ ConsumeEnter("type", "paramType")
  BY <1>7, Here, ConsumesEntersMatched DEF Fits, Takes, Holds, Bracket, Openers
<1>8. CASE At("paramType") /\ ret = Null /\ Reject
  BY <1>8, Here, RejectsMatched DEF ProgramPart
<1>9. CASE At("paramType") /\ ret # Null /\ Jump("params")
  BY <1>9, Here, JumpsMatched DEF Holds
<1>10. CASE At("params") /\ cur = "rparen" /\ Consume("does")
  BY <1>10, Here, ConsumesMatched DEF Fits, Takes, Holds, Bracket, Openers
<1>11. CASE Ready("does") /\ cur = "ident" /\ nxt = "lparen" /\ Enter("call", "functionEnd")
  BY <1>11, Here, EntersMatched DEF Holds, Ready
<1>12. CASE At("does") /\ cur = "lbrace" /\ Enter("braces", "functionEnd")
  BY <1>12, Here, EntersMatched DEF Holds
<1>13. CASE At("does") /\ cur = "return" /\ Enter("return", "functionEnd")
  BY <1>13, Here, EntersMatched DEF Holds
<1>14. CASE /\ Ready("does") /\ cur \notin {"lbrace", "return"}
            /\ ~(cur = "ident" /\ nxt = "lparen")
            /\ ConsumeReject
  BY <1>14, Here, RejectsMatched DEF ProgramPart, Ready
<1> QED BY <1>1, <1>2, <1>3, <1>4, <1>5, <1>6, <1>7, <1>8, <1>9, <1>10, <1>11, <1>12, <1>13, <1>14 DEF Function

LEMMA ExternMatched ==
  ASSUME Running, Nested, Extern
  PROVE  StepOK
<1>1. CASE At("extern") /\ Consume("externKeyword")
  BY <1>1, Here, ConsumesMatched DEF Fits, Takes, Holds, Bracket, Openers
<1>2. CASE At("externKeyword") /\ Consume("externName")
  BY <1>2, Here, ConsumesMatched DEF Fits, Takes, Holds, Bracket, Openers
<1>3. CASE At("externName") /\ ConsumeUnchecked("externOpen")
  BY <1>3, Here, UnchecksMatched DEF Holds, Bracket
<1>4. CASE At("externOpen") /\ cur # "lparen" /\ Reject
  BY <1>4, Here, RejectsMatched DEF ProgramPart
<1>5. CASE At("externOpen") /\ cur = "lparen" /\ Consume("externParams")
  BY <1>5, Here, ConsumesMatched DEF Fits, Takes, Holds, Bracket, Openers
<1>6. CASE /\ At("externParams") /\ cur = "comma"
           /\ Shift /\ Goto("externParam")
           /\ IF cur' = "rparen" THEN Report ELSE Quiet
  BY <1>6, Here, CommasMatched DEF Holds
<1>7. CASE At("externParams") /\ cur \notin {"comma", "rparen"} /\ ConsumeUnchecked("externType")
  BY <1>7, Here, UnchecksMatched DEF Holds, Bracket
<1>8. CASE At("externParam") /\ ConsumeUnchecked("externType")
  BY <1>8, Here, UnchecksMatched DEF Holds, Bracket
<1>9. CASE At("externType") /\ cur \notin {"ident", "lbracket"} /\ Reject
  BY <1>9, Here, RejectsMatched DEF ProgramPart
<1>10. CASE At("externType") /\ cur = "ident" /\ Consume("externParams")
  BY <1>10, Here, ConsumesMatched DEF Fits, Takes, Holds, Bracket, Openers
<1>11. CASE /\ \/ At("externType") /\ cur = "ident"
               \/ At("externElement")
            /\ Stay /\ Goto("externParams")
            /\ Flawed("paramType")
            /\ UNCHANGED << hasErrors, lax >>
  <2>1. Stay /\ Goto("externParams") /\ Same
    BY <1>11 DEF Same
  <2>2. CASE At("externType")
    <3>1. Holds("externParams") = Holds(Top.at)
      BY <2>2, Here DEF Holds
    <3>2. Passes(Holds("externParams"))
      BY <2>1, <3>1, StayPasses
    <3> QED BY <2>1, <3>2, GoesMatched
  <2>3. CASE At("externElement")
    <3>1. lax \/ hasErrors
      BY <2>3, Here DEF Nested, At
    <3>2. hasErrors' = hasErrors /\ lax' = lax
      BY <2>1 DEF Same
    <3>3. Passes(Holds("externParams"))
      BY <3>1, <3>2, Zenon DEF Passes
    <3> QED BY <2>1, <3>3, GoesMatched
  <2> QED BY <1>11, <2>2, <2>3
<1>12. CASE At("externType") /\ cur = "lbracket" /\ ConsumeUnchecked("externElement")
  <2>1. /\ Goto("externElement") /\ hasErrors' = hasErrors
        /\ lax' = (lax \/ (cur \in Bracket /\ ~hasErrors)) /\ cur \in Bracket
    BY <1>12 DEF ConsumeUnchecked, Bracket
  <2>2. lax' \/ hasErrors'
    BY <2>1, Zenon
  <2>3. Passes(Holds("externElement"))
    BY <2>1, <2>2, Zenon DEF Passes
  <2> QED BY <2>1, <2>2, <2>3, GoesMatched
<1>13. CASE At("externParams") /\ cur = "rparen" /\ Consume("externArrow")
  BY <1>13, Here, ConsumesMatched DEF Fits, Takes, Holds, Bracket, Openers
<1>14. CASE At("externArrow") /\ cur # "arrow" /\ Reject
  BY <1>14, Here, RejectsMatched DEF ProgramPart
<1>15. CASE At("externArrow") /\ cur = "arrow" /\ ConsumeEnter("type", "functionEnd")
  BY <1>15, Here, ConsumesEntersMatched DEF Fits, Takes, Holds, Bracket, Openers
<1> QED BY <1>1, <1>2, <1>3, <1>4, <1>5, <1>6, <1>7, <1>8, <1>9, <1>10, <1>11, <1>12, <1>13, <1>14, <1>15 DEF Extern

LEMMA CallMatched ==
  ASSUME Running, Call
  PROVE  StepOK
<1>1. CASE At("call") /\ Consume("callOpen")
  BY <1>1, Here, ConsumesMatched DEF Fits, Takes, Holds, Bracket, Openers
<1>2. CASE At("callOpen") /\ Consume("args")
  BY <1>2, Here, ConsumesMatched DEF Fits, Takes, Holds, Bracket, Openers
<1>3. CASE At("args") /\ cur \in {"rparen", "beyond"} /\ ConsumeYield(Node)
  <2>1. Top.at = "args" /\ cur = "rparen"
    BY <1>3, Here DEF EndPoints, Lists
  <2> QED BY <1>3, <2>1, YieldsMatched DEF Takes, Holds, Bracket, Openers, ProgramPart
<1>4. CASE /\ At("args") /\ cur = "comma"
           /\ Shift /\ Goto("arg")
           /\ IF cur' = "rparen" THEN Report ELSE Quiet
  BY <1>4, Here, CommasMatched DEF Holds
<1>5. CASE At("arg") /\ Enter("expr", "args")
  BY <1>5, Here, EntersMatched DEF Holds
<1>6. CASE At("args") /\ cur \notin {"comma", "rparen", "beyond"} /\ Item("expr", "args")
  BY <1>6, Here, EntersMatched DEF Holds
<1> QED BY <1>1, <1>2, <1>3, <1>4, <1>5, <1>6 DEF Call

LEMMA ParenthesesMatched ==
  ASSUME Running, Parentheses
  PROVE  StepOK
<1>1. CASE At("paren") /\ ConsumeEnter("expr", "parenClose")
  BY <1>1, Here, ConsumesEntersMatched DEF Fits, Takes, Holds, Bracket, Openers
<1>2. CASE At("parenClose") /\ ret # Null /\ cur = "rparen" /\ ConsumeYield(Node)
  BY <1>2, Here, YieldsMatched DEF Fits, Takes, Holds, Bracket, Openers, ProgramPart
<1>3. CASE At("parenClose") /\ ret # Null /\ cur # "rparen" /\ Reject
  BY <1>3, Here, RejectsMatched DEF ProgramPart
<1> QED BY <1>1, <1>2, <1>3 DEF Parentheses

LEMMA CollectionMatched ==
  ASSUME Running, Collection
  PROVE  StepOK
<1>1. CASE At("collection") /\ Consume("elements")
  BY <1>1, Here, ConsumesMatched DEF Fits, Takes, Holds, Bracket, Openers
<1>2. CASE At("elements") /\ cur = "rbracket" /\ ConsumeYield(Node)
  BY <1>2, Here, YieldsMatched DEF Fits, Takes, Holds, Bracket, Openers, ProgramPart
<1>3. CASE At("elements") /\ cur = "comma" /\ Top.mark /\ Reject
  BY <1>3, Here, RejectsMatched DEF ProgramPart
<1>4. CASE /\ At("elements") /\ cur = "comma" /\ ~Top.mark
           /\ Shift
           /\ cur' = "rbracket" /\ Report /\ Pop(Null)
  BY <1>4, Here, ReportsMatched DEF ProgramPart
<1>5. CASE /\ At("elements") /\ cur = "comma" /\ ~Top.mark
           /\ Shift
           /\ cur' # "rbracket" /\ Quiet
           /\ stack' = [stack EXCEPT ![Len(stack)].mark = TRUE] /\ UNCHANGED ret
  <2> DEFINE frame == [Top EXCEPT !.mark = TRUE]
  <2>1. Top = stack[Len(stack)] /\ Top \in Frames /\ Top.at = "elements"
    BY <1>5, Here, StackFacts DEF Running, Inv, Stacked, Top
  <2>2. stack' = [stack EXCEPT ![Len(stack)] = frame] /\ frame.at = "elements"
    BY <1>5, <2>1 DEF Frames
  <2>3. Takes(Holds(frame.at))
    BY <1>5, <2>1, <2>2 DEF Takes, Bracket
  <2> HIDE DEF frame
  <2>4. Passes(Holds(frame.at))
    BY <1>5, <2>3, QuietSame, ShiftPasses
  <2> QED BY <2>2, <2>4, ReplacesMatched
<1>6. CASE At("elements") /\ cur \notin {"rbracket", "comma"} /\ ~Top.mark /\ Reject
  BY <1>6, Here, RejectsMatched DEF ProgramPart
<1>7. CASE At("elements") /\ cur \notin {"rbracket", "comma"} /\ Top.mark /\ Enter("expr", "elementDone")
  BY <1>7, Here, EntersMatched DEF Holds
<1>8. CASE At("elementDone") /\ ret = Null /\ Abandon("collection")
  BY <1>8, Here, AbandonsMatched DEF ProgramPart
<1>9. CASE /\ At("elementDone") /\ ret # Null
           /\ stack' = [stack EXCEPT ![Len(stack)] = Frame("elements", FALSE)]
           /\ ret' = NoValue /\ Stay /\ Quiet
  <2> DEFINE frame == Frame("elements", FALSE)
  <2>1. stack' = [stack EXCEPT ![Len(stack)] = frame] /\ frame.at = "elements"
    BY <1>9 DEF Frame
  <2> HIDE DEF frame
  <2>2. Holds(frame.at) = Holds(Top.at)
    <3>1. Top.at = "elementDone"
      BY <1>9, Here
    <3> QED BY <2>1, <3>1 DEF Holds
  <2>3. Passes(Holds(frame.at))
    BY <1>9, <2>2, QuietSame, StayPasses
  <2> QED BY <2>1, <2>3, ReplacesMatched
<1> QED BY <1>1, <1>2, <1>3, <1>4, <1>5, <1>6, <1>7, <1>8, <1>9 DEF Collection

LEMMA OperandMatched ==
  ASSUME Running, NEW kind, NEW next, << kind, next >> \in Kinds, Operand(kind, next)
  PROVE  StepOK
<1>1. /\ next # "externElement" /\ Holds(next) = << >>
      /\ Top.at = kind /\ Holds(Top.at) = << >>
  BY Here DEF Operand, Ready, Kinds, Holds
<1>2. CASE cur = "ident" /\ nxt = "lparen" /\ Enter("call", next)
  BY <1>1, <1>2, EntersMatched DEF Holds
<1>3. CASE cur = "lparen" /\ Enter("paren", next)
  BY <1>1, <1>3, EntersMatched DEF Holds
<1>4. CASE cur = "lbracket" /\ Stay /\ Push(Frame("collection", TRUE), next) /\ Quiet
  <2>1. Passes(Holds(next))
    BY <1>1, <1>4, QuietSame, StayPasses
  <2>2. Holds("collection") = << >>
    BY DEF Holds
  <2> QED BY <1>4, <2>1, <2>2, CallsMatched
<1>5. ASSUME stack' = [stack EXCEPT ![Len(stack)].at = next], Passes(Holds(next))
      PROVE  StepOK
  <2>1. Holding(Holds(next)) /\ Top'.at = next
    BY <1>5, LeavesGone, TopGone DEF Running, Inv
  <2> QED BY <1>1, <1>5, <2>1, Passed DEF StepOK, Nested
<1>6. CASE /\ \/ cur = "literal"
              \/ cur = "ident" /\ nxt # "lparen"
           /\ Shift /\ Quiet
           /\ stack' = [stack EXCEPT ![Len(stack)].at = next] /\ ret' = Node
  <2>1. Takes(Holds(next))
    BY <1>1, <1>6 DEF Takes, Bracket
  <2>2. Passes(Holds(next))
    BY <1>6, <2>1, QuietSame, ShiftPasses
  <2> QED BY <1>5, <1>6, <2>2
<1>7. CASE /\ cur \notin {"ident", "literal", "lparen", "lbracket"}
           /\ Stay
           /\ stack' = [stack EXCEPT ![Len(stack)].at = next] /\ ret' = Null
           /\ NoOperand
  <2>1. CASE Quiet
    <3>1. Passes(Holds(next))
      BY <1>1, <1>7, <2>1, QuietSame, StayPasses
    <3> QED BY <1>5, <1>7, <3>1
  <2>2. CASE Report
    <3>1. Passes(Holds(next))
      BY <2>2, Zenon DEF Report, Passes
    <3> QED BY <1>5, <1>7, <3>1
  <2> QED BY <1>7, <2>1, <2>2 DEF NoOperand
<1> QED BY <1>2, <1>3, <1>4, <1>6, <1>7 DEF Operand

LEMMA OperatorMatched ==
  ASSUME Running, NEW kind, NEW next, << kind, next >> \in Kinds,
         NEW operators \in SUBSET ({"arithmetic"} \cup Comparison), Operator(kind, next, operators)
  PROVE  StepOK
<1>1. /\ kind # "externElement" /\ Holds(kind) = << >>
      /\ Holds(Top.at) = << >> /\ Top.at \notin ProgramPart
      /\ operators \cap Bracket = {}
  BY Here DEF Operator, Kinds, Holds, ProgramPart, Comparison, Bracket
<1>2. CASE /\ cur \in operators
           /\ Shift
           /\ stack' = [stack EXCEPT ![Len(stack)] = Frame(kind, TRUE)] /\ ret' = NoValue
           /\ UNCHANGED << hasErrors, lax >>
  <2> DEFINE frame == Frame(kind, TRUE)
  <2>1. stack' = [stack EXCEPT ![Len(stack)] = frame] /\ frame.at = kind
    BY <1>2 DEF Frame
  <2> HIDE DEF frame
  <2>2. Takes(Holds(frame.at)) /\ Same /\ Shift
    BY <1>1, <1>2, <2>1 DEF Takes, Same
  <2>3. Passes(Holds(frame.at))
    BY <2>2, ShiftPasses
  <2> QED BY <1>1, <2>1, <2>3, ReplacesMatched
<1>3. ASSUME NEW value, Stay, Pop(value), UNCHANGED << hasErrors, lax >>
      PROVE  StepOK
  <2>1. Passes(<< >>)
    BY <1>1, <1>3, StayPasses DEF Same
  <2> QED BY <1>1, <1>3, <2>1, ReturnsMatched
<1> QED BY <1>2, <1>3 DEF Operator, Return

LEMMA ExpressionMatched ==
  ASSUME Running, Expression
  PROVE  StepOK
<1>1. << "expr", "exprNext" >> \in Kinds /\ << "sum", "sumNext" >> \in Kinds
  BY DEF Kinds
<1>2. CASE Operand("expr", "exprNext") \/ Operand("sum", "sumNext")
  BY <1>1, <1>2, OperandMatched
<1>3. CASE Operator("expr", "exprNext", {"arithmetic"} \cup Comparison)
  BY <1>1, <1>3, OperatorMatched
<1>4. CASE Operator("sum", "sumNext", {"arithmetic"})
  BY <1>1, <1>4, OperatorMatched
<1> QED BY <1>2, <1>3, <1>4 DEF Expression

LEMMA YieldsOutMatched ==
  ASSUME Running, NEW p, At(p), p \in Ends \cup {"mainLoop"}, Yield(Node)
  PROVE  StepOK
<1>1. Top.at = p /\ p \notin ProgramPart /\ Holds(p) = << >>
  BY Here DEF Ends, ProgramPart, Holds
<1> QED BY <1>1, YieldsMatched

LEMMA EndCallMatched ==
  ASSUME Running, EndCall
  PROVE  StepOK
BY YieldsOutMatched DEF EndCall

LEMMA ParseStepMatched ==
  ASSUME Inv, EndInv, Nested, ParseStep
  PROVE  StepOK
<1>1. Running
  BY ParseStepRuns DEF ParseStep, Running
<1> QED BY <1>1, ProgramMatched, MainMatched, BlockMatched, StatementMatched, DeclarationMatched,
           TypeMatched, ReturnStatementMatched, ElementMatched, IfMatched, WhileMatched, ForMatched,
           FunctionMatched, ExternMatched, CallMatched, ParenthesesMatched, CollectionMatched,
           ExpressionMatched, EndCallMatched DEF ParseStep

LEMMA NextMatched ==
  ASSUME Inv, EndInv, Nested, Next
  PROVE  StepOK
<1>1. CASE EndMain
  <2>1. Running
    BY <1>1 DEF EndMain, At, Running
  <2> QED BY <1>1, <2>1, YieldsOutMatched DEF EndMain
<1>2. CASE Peek \/ Finish \/ Crash \/ Overread \/ Exhaust \/ Halted
  <2>1. UNCHANGED << cur, stack, hasErrors, lax >>
    BY <1>2 DEF Peek, Finish, Crash, Overread, Exhaust, Halted, Fail, vars
  <2>2. Parsing' => Parsing
    BY <1>2 DEF Peek, Finish, Crash, Overread, Exhaust, Halted, Fail, vars, Parsing
  <2>3. OpenOf(stack)' = OpenOf(stack) /\ Top' = Top
    BY <2>1 DEF OpenOf, Held, Top
  <2>4. Matched
    BY <2>1, <2>3 DEF Matched, Same
  <2>5. Nested'
    BY <2>1, <2>2, <2>3 DEF Nested
  <2> QED BY <2>4, <2>5 DEF StepOK
<1> QED BY <1>1, <1>2, ParseStepMatched DEF Next

-----------------------------------------------------------------------------
(* What is open when the parser is done.                                   *)

(* The entry point without braces is the rest of the file; the parser is   *)
(* done in Parse itself, at the end of the file or after an error.         *)
Closed ==
  /\ Parsing /\ fq => Top.at = "afterMain" /\ cur \in Ended
  /\ status = "done" => Top.at \in ProgramPart /\ (cur = "EoF" \/ hasErrors)

BracketInv == Nested /\ Closed

LEMMA NothingAfter ==
  ASSUME Parsing, fq, Top.at = "afterMain"
  PROVE  ~ParseStep
<1>1. ASSUME NEW p, At(p) PROVE p = "afterMain"
  BY <1>1 DEF At
<1>2. ~Program /\ ~Main /\ ~Block /\ ~Statement /\ ~Declaration /\ ~Type /\ ~ReturnStatement
  BY <1>1 DEF Program, Main, Block, Statement, Ready, Declaration, Type, ReturnStatement
<1>3. ~Element /\ ~If /\ ~While /\ ~For /\ ~Function /\ ~Extern
  BY <1>1 DEF Element, If, While, For, Function, Extern, Ready
<1>4. ~Call /\ ~Parentheses /\ ~Collection /\ ~Expression /\ ~EndCall
  BY <1>1 DEF Call, Parentheses, Collection, Expression, Operand, Operator, Ready, EndCall, Ends
<1> QED BY <1>2, <1>3, <1>4 DEF ParseStep

LEMMA NextCloses ==
  ASSUME Inv, EndInv, Closed, Next
  PROVE  Closed'
<1>1. CASE ParseStep
  <2>1. UNCHANGED << fq, status >>
    BY <1>1 DEF ParseStep
  <2>2. Parsing
    BY <1>1, ParseStepRuns
  <2>3. ~fq
    BY <1>1, <2>2, NothingAfter DEF Closed
  <2> QED BY <2>1, <2>2, <2>3 DEF Closed, Parsing
<1>2. CASE EndMain
  <2>1. /\ Parsing /\ Top.at = "mainLoop" /\ (cur \in Ended \/ ~moved)
        /\ Stay /\ Pop(Node) /\ status' = status
    BY <1>2 DEF EndMain, At, Yield, Return
  <2>2. cur \in Ended
    BY <2>1 DEF Inv, Fresh, Opening
  <2>3. Top' = Below /\ Calls(Below.at, Top.at)
    BY <2>1, Popped DEF Inv, Pop, ProgramPart
  <2>4. Below.at = "afterMain"
    BY <2>1, <2>3 DEF Calls, IfPart, CallPart, ReturnPart, ParenPart, CollectionPart, ExprPart,
       SumPart, TypePart, BlockPart, MainPart, StatementPart
  <2> QED BY <2>1, <2>2, <2>3, <2>4 DEF Closed, Parsing, Stay
<1>3. CASE Finish
  <2>1. /\ UNCHANGED << cur, stack, hasErrors >> /\ status' = "done" /\ Parsing
        /\ Top.at \in ProgramPart
        /\ Top.at = "afterMain" => fq
        /\ Top.at = "program" => cur \in Ended
    BY <1>3 DEF Finish, Fail, At, ProgramPart
  <2>2. cur \in Ended
    BY <2>1 DEF Closed, ProgramPart
  <2>3. cur = "beyond" => hasErrors
    BY <2>1 DEF EndInv, Beyond, PastEnd, TakenEnds, ProgramPart
  <2>4. Top' = Top
    BY <2>1 DEF Top
  <2> QED BY <2>1, <2>2, <2>3, <2>4 DEF Closed, Parsing, Ended
<1>4. CASE Crash \/ Overread \/ Exhaust
  BY <1>4 DEF Crash, Overread, Exhaust, Fail, Closed, Parsing
<1>5. CASE Peek \/ Halted
  BY <1>5 DEF Peek, Halted, vars, Closed, Parsing, Top
<1> QED BY <1>1, <1>2, <1>3, <1>4, <1>5 DEF Next

LEMMA NothingOpen ==
  ASSUME Stacked, Top.at \in ProgramPart
  PROVE  OpenOf(stack) = << >>
<1>1. stack \in Seq(Frames) /\ stack # << >> /\ Len(stack) = 1
  BY ParseAlone DEF Stacked, WellStacked
<1>2. Front(stack) \in Seq(Frames) /\ Len(Front(stack)) = 0
  BY <1>1, FrontFacts
<1>3. Held(Front(stack)) \in Seq(Seq(Openers)) /\ Len(Held(Front(stack))) = 0
  BY <1>2, HeldType
<1>4. Held(Front(stack)) = << >>
  BY <1>3, EmptySeq
<1>5. Rest = << >>
  BY <1>4, FlattenEmpty DEF Rest, OpenOf
<1>6. Holds(Top.at) = << >>
  BY DEF ProgramPart, Holds
<1> QED BY <1>5, <1>6, OpenNow

-----------------------------------------------------------------------------
(* The driver implements Brackets.                                         *)

BracketStep == B!Read \/ B!Accept \/ B!Excuse \/ B!Reject

LEMMA ParseImplements ==
  ASSUME DriverInv, EndInv, BracketInv, Parse
  PROVE  (BracketStep \/ UNCHANGED B!brackets) /\ BracketInv'
<1>1. StepOK /\ Closed'
  BY NextMatched, NextCloses DEF Parse, DriverInv, BracketInv
<1>2. Parse /\ Inv /\ Inv'
  BY DriverStep DEF CompilerNext, DriverInv
<1>3. /\ stage = "parse" /\ stage' = "parse"
      /\ hasErrors \in BOOLEAN /\ lax \in BOOLEAN
      /\ hasErrors' \in BOOLEAN /\ lax' \in BOOLEAN
  BY <1>2 DEF Parse, Inv, Typed
<1>4. CASE hasErrors'
  <2>1. hasErrors' = TRUE /\ ~(stage = "complete") /\ ~(stage' = "complete")
    BY <1>3, <1>4
  <2>2. B!Reject
    BY <2>1 DEF B!Reject
  <2> QED BY <2>2, <1>1 DEF BracketStep, StepOK, BracketInv
<1>5. CASE lax' /\ UNCHANGED hasErrors /\ ~hasErrors'
  <2>1. lax' = TRUE /\ hasErrors' = FALSE /\ ~hasErrors
    BY <1>3, <1>5
  <2>2. B!Excuse
    BY <2>1 DEF B!Excuse
  <2> QED BY <2>2, <1>1 DEF BracketStep, StepOK, BracketInv
<1>6. CASE Same /\ cur' \in Token \cup Ended /\ ReadsBracket /\ ~hasErrors /\ ~lax
  <2>1. B!Reading
    BY <1>3, <1>6 DEF B!Reading
  <2>2. cur' \in B!Upcoming /\ UNCHANGED << lax, hasErrors >> /\ stage' = stage
    BY <1>3, <1>6 DEF B!Upcoming, Ended, Same
  <2>3. \/ cur \in DOMAIN B!Closing /\ OpenOf(stack)' = Append(OpenOf(stack), cur)
        \/ /\ OpenOf(stack) # << >> /\ cur = B!Closing[Last(OpenOf(stack))]
           /\ OpenOf(stack)' = Front(OpenOf(stack))
        \/ cur \notin DOMAIN B!Closing \cup B!Closers /\ OpenOf(stack)' = OpenOf(stack)
    BY <1>6, ClosingFacts DEF ReadsBracket, Bracket, Openers
  <2>4. /\ B!Last(OpenOf(stack)) = Last(OpenOf(stack))
        /\ B!Front(OpenOf(stack)) = Front(OpenOf(stack))
    BY DEF B!Last, B!Front, Last, Front
  <2>5. B!Read
    BY <2>1, <2>2, <2>3, <2>4, Zenon DEF B!Read, OpenOf, Held
  <2> QED BY <2>5, <1>1 DEF BracketStep, StepOK, BracketInv
<1>7. CASE Same /\ UNCHANGED cur /\ OpenOf(stack)' = OpenOf(stack)
  <2>1. UNCHANGED B!brackets
    BY <1>3, <1>7 DEF B!brackets, Same, OpenOf, Held
  <2> QED BY <2>1, <1>1 DEF StepOK, BracketInv
<1>8. Same => hasErrors' = hasErrors /\ lax' = lax
  BY DEF Same
<1>9. \/ hasErrors'
      \/ lax' /\ UNCHANGED hasErrors /\ ~hasErrors'
      \/ Same /\ cur' \in Token \cup Ended /\ ReadsBracket /\ ~hasErrors /\ ~lax
      \/ Same /\ UNCHANGED cur /\ OpenOf(stack)' = OpenOf(stack)
  <2>1. Matched
    BY <1>1 DEF StepOK
  <2> QED BY <1>8, <2>1, Zenon DEF Matched
<1> QED BY <1>4, <1>5, <1>6, <1>7, <1>9

LEMMA BracketsStep ==
  ASSUME DriverInv, EndInv, BracketInv, [CompilerNext]_compilerVars
  PROVE  (BracketStep \/ UNCHANGED B!brackets) /\ BracketInv'
<1>1. hasErrors \in BOOLEAN /\ lax \in BOOLEAN
  BY DEF DriverInv, Inv, Typed
<1>2. CASE AnalyseTree
  <2>1. /\ UNCHANGED << cur, stack, lax, fq, status >> /\ status = "done"
        /\ stage = "parse" /\ stage' # "complete"
        /\ hasErrors' \in {hasErrors, TRUE}
    BY <1>2 DEF AnalyseTree
  <2>2. BracketInv'
    <3>1. Nested'
      BY <2>1 DEF Nested, Parsing
    <3>2. Top' = Top
      BY <2>1 DEF Top
    <3>3. hasErrors => hasErrors'
      BY <1>1, <2>1
    <3>4. Closed'
      BY <2>1, <3>2, <3>3 DEF Closed, Parsing, BracketInv
    <3> QED BY <3>1, <3>4 DEF BracketInv
  <2>3. CASE hasErrors' = TRUE
    <3>1. B!Reject
      BY <2>1, <2>3 DEF B!Reject
    <3> QED BY <2>2, <3>1 DEF BracketStep
  <2>4. CASE hasErrors' = hasErrors
    <3>1. UNCHANGED B!brackets
      BY <2>1, <2>4 DEF B!brackets
    <3> QED BY <2>2, <3>1
  <2> QED BY <2>1, <2>3, <2>4
<1>3. ASSUME UNCHANGED vars PROVE BracketInv'
  BY <1>3 DEF vars, BracketInv, Nested, Closed, Parsing, Top
<1>4. CASE GiveUp \/ Over \/ UNCHANGED compilerVars
  <2>1. UNCHANGED vars /\ (stage = "complete" <=> stage' = "complete")
    BY <1>4 DEF GiveUp, Over, compilerVars
  <2>2. UNCHANGED B!brackets
    BY <2>1 DEF vars, B!brackets
  <2> QED BY <1>3, <2>1, <2>2
<1>5. CASE Generate
  <2>1. UNCHANGED vars /\ hasErrors = FALSE /\ stage = "analysed" /\ status = "done"
    BY <1>1, <1>5 DEF Generate, Gate, DriverInv
  <2>2. OpenOf(stack) = << >> /\ cur = "EoF"
    BY <2>1, NothingOpen DEF BracketInv, Closed, DriverInv, Inv
  <2>3. CASE stage' = "complete" /\ ~lax
    <3>1. B!Accept
      BY <1>1, <2>1, <2>2, <2>3 DEF B!Accept, B!Reading, vars, OpenOf, Held
    <3> QED BY <1>3, <2>1, <3>1 DEF BracketStep
  <2>4. CASE stage' = "complete" /\ lax
    <3>1. B!Excuse
      BY <1>1, <2>1, <2>4 DEF B!Excuse, vars
    <3> QED BY <1>3, <2>1, <3>1 DEF BracketStep
  <2>5. CASE stage' # "complete"
    <3>1. UNCHANGED B!brackets
      BY <2>1, <2>5 DEF vars, B!brackets
    <3> QED BY <1>3, <2>1, <3>1
  <2> QED BY <2>3, <2>4, <2>5
<1> QED BY <1>2, <1>4, <1>5, ParseImplements DEF CompilerNext

LEMMA BracketsInit ==
  ASSUME CompilerInit
  PROVE  B!Start /\ BracketInv
<1>1. /\ stack = << Frame("program", FALSE) >> /\ Top.at = "program"
      /\ hasErrors = FALSE /\ lax = FALSE /\ fq = FALSE /\ status = "parsing" /\ stage = "parse"
      /\ cur \in B!Upcoming
  BY DEF CompilerInit, Init, Top, Last, Frame, B!Upcoming
<1>2. Stacked
  BY InitInv DEF CompilerInit, Inv
<1>3. OpenOf(stack) = << >>
  BY <1>1, <1>2, NothingOpen DEF ProgramPart
<1>4. B!Start
  BY <1>1, <1>3 DEF B!Start, OpenOf, Held
<1>5. BracketInv
  BY <1>1 DEF BracketInv, Nested, Closed
<1> QED BY <1>4, <1>5

(* The parser and the driver implement Brackets: a program is compiled     *)
(* only if its brackets match, whatever its length and its nesting, but    *)
(* for the leniencies of the parser.                                       *)
THEOREM BracketsMatch == CompilerSpec => CompiledBracketsMatch
<1>1. CompilerInit => B!Start /\ BracketInv
  BY BracketsInit
<1>2. CompilerInit => EndInv
  BY EndInit DEF CompilerInit
<1>3. DriverInv /\ EndInv /\ BracketInv /\ [CompilerNext]_compilerVars
        => [B!Read \/ B!Accept \/ B!Excuse \/ B!Reject]_(B!brackets) /\ BracketInv'
  <2>1. ASSUME DriverInv, EndInv, BracketInv, [CompilerNext]_compilerVars
        PROVE  (BracketStep \/ UNCHANGED B!brackets) /\ BracketInv'
    BY <2>1, BracketsStep
  <2> QED BY <2>1 DEF BracketStep
<1>4. DriverInv /\ EndInv /\ [CompilerNext]_compilerVars => EndInv'
  BY DriverAhead
<1> QED BY <1>1, <1>2, <1>3, <1>4, Invariance, PTL DEF CompilerSpec, CompiledBracketsMatch, B!Match
=============================================================================
