------------------------------- MODULE Parser -------------------------------
(***************************************************************************)
(* The recursive-descent parser of the Sbix compiler (Parser.cpp).         *)
(*                                                                         *)
(* stack holds the parse functions in progress as program points, the      *)
(* innermost last: a call pushes the entry point of the callee and leaves  *)
(* in the caller the point it returns to; a return pops and puts in ret    *)
(* whether the result is a null pointer.  The three functions of binary    *)
(* operators are one: they take operands and operators alternately, and    *)
(* the shape of the tree is not kept.                                      *)
(*                                                                         *)
(* The token array is left open: a token is chosen when it is read, and    *)
(* forgotten when the index moves on, so programs are of any length.       *)
(***************************************************************************)
EXTENDS Integers, SequencesExt

CONSTANTS
  Token,     \* the kinds of token of the programs
  MaxDepth   \* bound: nesting of calls, beyond which the parser may run out of stack

(* The kinds of token the parser tells apart; "other" stands for the rest. *)
AllTokens ==
  {"let", "const", "ident", "literal", "arithmetic", "equality", "lt", "gt", "equ",
   "lparen", "rparen", "lbrace", "rbrace", "lbracket", "rbracket", "comma", "arrow", "colon",
   "if", "else", "while", "for", "return", "function", "extern", "break", "continue",
   "entry", "other"}

ASSUME ParserAssumption == Token \subseteq AllTokens /\ MaxDepth \in Nat

VARIABLES
  cur,        \* arr[i]: a token, "EoF", or "beyond" the array
  nxt,        \* arr[i + 1], or "unread"
  stack,      \* the program points of the functions in progress
  ret,        \* what the last call returned
  moved,      \* the index moved since an iteration of a list began
  hasErrors,  \* the global of that name
  flaw,       \* one of the null or unset children of the tree, if there is no error
  lax,        \* a bracket was consumed unseen or left open, if no error came before
  fq,         \* the global of that name
  status      \* "parsing", "done", or how the run ended otherwise

vars == << cur, nxt, stack, ret, moved, hasErrors, flaw, lax, fq, status >>

-----------------------------------------------------------------------------
(* The tokens.                                                             *)

Ended == {"EoF", "beyond"}
Bracket == {"lparen", "rparen", "lbrace", "rbrace", "lbracket", "rbracket"}
Comparison == {"equality", "lt", "gt"}

(* What may stand behind a token: the last one is EoF.                     *)
After(token) == IF token \in Ended THEN {"beyond"} ELSE Token \cup {"EoF"}

(* i++.                                                                    *)
Shift ==
  /\ cur' \in IF nxt = "unread" THEN After(cur) ELSE {nxt}
  /\ nxt' = "unread"
  /\ moved' = TRUE

Stay == UNCHANGED << cur, nxt, moved >>

-----------------------------------------------------------------------------
(* Calls and returns.                                                      *)

Null == "null"
Node == "node"
NoValue == "none"
NoFlaw == [what |-> "none", atEnd |-> FALSE]

(* mark: the declaration is of a constant, the expression has an operator  *)
(* or the collection expects an element.                                   *)
Frame(point, mark) == [at |-> point, mark |-> mark]

(* The child of a node, or the list, a result goes to.                     *)
Slot == [program |-> "node", block |-> "node", mainLoop |-> "node", args |-> "argument",
         letEnd |-> "value", returnEnd |-> "returns", ifElse |-> "then", bodyEnd |-> "body",
         whileClose |-> "condition", forColon |-> "bound", forStep |-> "bound",
         forClose |-> "bound"]

Top == Last(stack)
Parsing == status = "parsing"

(* Mutant: the '(' of a function is looked for unchecked.                  *)
CheckedLess == {"program", "mainLoop", "block", "args", "type", "params", "does", "externType"}

(* The points that check the index before they read arr[i]; those at which *)
(* a parse function only returns; all those that do not read.              *)
Checked ==
  {"program", "mainLoop", "block", "args", "type", "functionOpen", "params", "does", "externType"}
Ends == {"letEnd", "returnEnd", "bodyEnd", "elseEnd", "functionEnd", "elementEnd", "mainEnd"}
InBounds == Checked \cup Ends \cup {"afterMain", "forTo"}
At(point) == Parsing /\ Top.at = point /\ (cur = "beyond" => point \in InBounds)

(* flaw and lax tell of programs with no error so far.                     *)
Report == hasErrors' = TRUE /\ flaw' = NoFlaw /\ lax' = FALSE
Quiet == UNCHANGED << hasErrors, flaw, lax >>

(* A null child is put into the tree: it may be the one flaw tells of.     *)
Flawed(what) ==
  flaw' \in {flaw} \cup IF hasErrors THEN {} ELSE {[what |-> what, atEnd |-> cur' \in Ended]}

Goto(point) ==
  /\ stack' = [stack EXCEPT ![Len(stack)].at = point]
  /\ ret' = NoValue

Push(frame, back) ==
  /\ Len(stack) < MaxDepth
  /\ stack' = Append([stack EXCEPT ![Len(stack)].at = back], frame)
  /\ ret' = NoValue

Pop(value) == stack' = Front(stack) /\ ret' = value

Return(value) ==
  LET to == Last(Front(stack)).at
  IN  /\ Pop(value)
      /\ IF value = Null /\ to \in DOMAIN Slot THEN Flawed(Slot[to]) ELSE UNCHANGED flaw
      /\ UNCHANGED << hasErrors, lax >>

(* The steps a parse function is made of: to go on at a point or to call,  *)
(* with or without consuming a token; to return; to report and return null.*)
Jump(point) == Stay /\ Goto(point) /\ Quiet
Consume(point) == Shift /\ Goto(point) /\ Quiet
Enter(point, back) == Stay /\ Push(Frame(point, FALSE), back) /\ Quiet
ConsumeEnter(point, back) == Shift /\ Push(Frame(point, FALSE), back) /\ Quiet
Yield(value) == Stay /\ Return(value)
ConsumeYield(value) == Shift /\ Return(value)
Reject == Stay /\ Report /\ Pop(Null)
ConsumeReject == Shift /\ Report /\ Pop(Null)

(* An iteration of a list of statements or arguments begins.               *)
Item(point, back) ==
  /\ moved' = FALSE
  /\ UNCHANGED << cur, nxt >>
  /\ Push(Frame(point, FALSE), back)
  /\ Quiet

(* A token taken whatever it is: a name, or the ':' of a range.            *)
ConsumeUnchecked(point) ==
  /\ Shift /\ Goto(point)
  /\ lax' = (lax \/ (cur \in Bracket /\ ~hasErrors))
  /\ UNCHANGED << hasErrors, flaw >>

(* A construct is given up for null, with no error, from within a bracket. *)
Abandon(what) ==
  /\ Stay /\ Pop(Null)
  /\ Flawed(what)
  /\ lax' = ~hasErrors
  /\ UNCHANGED hasErrors

Fail(outcome) ==
  /\ status' = outcome
  /\ UNCHANGED << cur, nxt, stack, ret, moved, hasErrors, flaw, lax, fq >>

Init ==
  /\ cur \in Token \cup {"EoF"} /\ nxt = "unread"
  /\ stack = << Frame("program", FALSE) >>
  /\ ret = NoValue /\ moved = TRUE
  /\ hasErrors = FALSE /\ flaw = NoFlaw /\ lax = FALSE /\ fq = FALSE
  /\ status = "parsing"

(* arr[i + 1] is looked at: a call, an indexed name, an extern function,   *)
(* the header of a for.                                                    *)
Peeks(point, token) ==
  \/ point \in {"statement", "expr", "sum", "does"} /\ token = "ident"
  \/ point = "statement" /\ token = "extern"
  \/ point = "forVar" /\ token # "EoF"

Peek ==
  /\ Parsing /\ nxt = "unread" /\ Peeks(Top.at, cur)
  /\ nxt' \in After(cur)
  /\ UNCHANGED << cur, stack, ret, moved, hasErrors, flaw, lax, fq, status >>

(* At a point whose look-ahead, if it needs one, has been read.            *)
Ready(point) == At(point) /\ (Peeks(point, cur) => nxt # "unread")

-----------------------------------------------------------------------------
(* Statements.                                                             *)

(* A list takes return and everything ParseBasic takes.                    *)
ListItem(list) == Item(IF cur = "return" THEN "return" ELSE "statement", list)

(* Mutant: the loop of Parse does not look for EoF.                        *)
ProgramPastEnd ==
  \/ At("program") /\ cur \notin {"beyond", "entry"} /\ Item("statement", "program")
  \/ At("program") /\ cur = "entry" /\ Enter("main", "afterMain")
  \/ At("afterMain") /\ ~fq /\ Item("statement", "program")

(* Parse.  After an entry point in braces fq is not set, and the loop goes *)
(* on with a statement, whatever is left of the array.                     *)
Program ==
  \/ At("program") /\ cur \notin Ended \cup {"entry"} /\ Item("statement", "program")
  \/ At("program") /\ cur = "entry" /\ Enter("main", "afterMain")
  \/ At("afterMain") /\ ~fq /\ Item("statement", "program")

(* Mutant: ParseMain leaves the rest of the file to Parse, which it is     *)
(* called from, instead of going through it in a loop of its own.          *)
MainByParse ==
  \/ At("main") /\ Consume("mainBody")
  \/ At("mainBody") /\ cur = "lbrace" /\ Enter("braces", "mainEnd")
  \/ At("mainBody") /\ cur # "lbrace" /\ Enter("program", "mainEnd")

(* ParseMain: the entry point is a block, or the rest of the file.         *)
Main ==
  \/ At("main") /\ Consume("mainBody")
  \/ At("mainBody") /\ cur = "lbrace" /\ Enter("braces", "mainEnd")
  \/ At("mainBody") /\ cur # "lbrace" /\ Jump("mainLoop")
  \/ At("mainLoop") /\ cur \notin Ended /\ moved /\ ListItem("mainLoop")

(* ParseBlock: null when there is no brace.  Only '}' ends the list.       *)
Block ==
  \/ At("braces") /\ cur = "lbrace" /\ Consume("block")
  \/ At("braces") /\ cur # "lbrace" /\ Yield(Null)
  \/ At("block") /\ cur \notin {"rbrace", "beyond"} /\ ListItem("block")
  \/ At("block") /\ cur \in {"rbrace", "beyond"} /\ ConsumeYield(Node)

(* ParseBasic: by the first token, or the first two, of a statement.       *)
Known(token, next) ==
  \/ token \in {"EoF", "let", "const", "if", "while", "for", "function", "break", "continue"}
  \/ token = "ident" /\ next \in {"lparen", "lbracket"}
  \/ token = "extern" /\ next = "function"

(* Mutants: what no statement begins with stays there; is not reported.    *)
UnknownStays == Reject
UnknownSilent == ConsumeYield(Null)
UnknownStatement == ConsumeReject

Statement ==
  /\ Ready("statement")
  /\ \/ cur = "EoF" /\ Yield(Null)
     \/ /\ cur \in {"let", "const"}
        /\ stack' = [stack EXCEPT ![Len(stack)] = Frame("let", cur = "const")]
        /\ ret' = NoValue /\ Stay /\ Quiet
     \/ cur \in {"if", "while", "for", "function"} /\ Jump(cur)
     \/ cur = "ident" /\ nxt = "lparen" /\ Jump("call")
     \/ cur = "ident" /\ nxt = "lbracket" /\ Jump("element")
     \/ cur = "extern" /\ nxt = "function" /\ Jump("extern")
     \/ cur \in {"break", "continue"} /\ ConsumeYield(Node)
     \/ ~Known(cur, nxt) /\ UnknownStatement

(* ParseVariableDeclr.  A variable that has a type needs no value.         *)
Declaration ==
  \/ At("let") /\ Consume("letName")
  \/ At("letName") /\ cur # "ident" /\ Reject
  \/ At("letName") /\ cur = "ident" /\ Consume("letType")
  \/ At("letType") /\ cur = "ident" /\ Enter("type", "letTyped")
  \/ At("letTyped") /\ cur # "equ" /\ ~Top.mark
     /\ Stay /\ Pop(Node)
     /\ Flawed("value")
     /\ UNCHANGED << hasErrors, lax >>
  \/ /\ \/ At("letType") /\ cur \notin {"ident", "equ"}
        \/ At("letTyped") /\ cur # "equ" /\ Top.mark
     /\ IF cur = "EoF" THEN Reject ELSE ConsumeReject
  \/ (At("letType") \/ At("letTyped")) /\ cur = "equ" /\ Consume("letValue")
  \/ At("letValue") /\ cur = "EoF" /\ Reject
  \/ At("letValue") /\ cur # "EoF" /\ Enter("expr", "letEnd")

(* ParseType: the name of a type is void, a plain one, or ptr or items,    *)
(* which an element type may follow.  Unknown is Null here.                *)
Type ==
  \/ At("type") /\ cur # "ident" /\ Yield(Null)
  \/ At("type") /\ cur = "ident" /\ (ConsumeYield(Null) \/ ConsumeYield(Node) \/ Consume("typeArg"))
  \/ At("typeArg") /\ cur = "lt" /\ ConsumeEnter("type", "typeClose")
  \/ At("typeArg") /\ cur # "lt" /\ Yield(Node)
  \/ At("typeClose") /\ cur = "gt" /\ ConsumeYield(Node)
  \/ At("typeClose") /\ cur # "gt" /\ Stay /\ Report /\ Pop(Node)

ReturnStatement == At("return") /\ ConsumeEnter("expr", "returnEnd")

(* ParseCollectionIdnt: an element of a collection.  The '=' is not        *)
(* consumed, so that what should be the content is an expression at '='.   *)
Element ==
  \/ At("element") /\ Consume("elementOpen")
  \/ At("elementOpen") /\ ConsumeEnter("expr", "elementClose")
  \/ At("elementClose") /\ cur # "rbracket" /\ Reject
  \/ At("elementClose") /\ cur = "rbracket" /\ Consume("elementSet")
  \/ At("elementSet") /\ cur = "equ" /\ Enter("expr", "elementEnd")
  \/ At("elementSet") /\ cur # "equ" /\ Yield(Node)

If ==
  \/ At("if") /\ Consume("ifOpen")
  \/ At("ifOpen") /\ cur # "lparen" /\ Reject
  \/ At("ifOpen") /\ cur = "lparen" /\ ConsumeEnter("expr", "ifClose")
  \/ At("ifClose") /\ ret = Null /\ Abandon("if")
  \/ At("ifClose") /\ ret # Null /\ cur # "rparen" /\ Reject
  \/ At("ifClose") /\ ret # Null /\ cur = "rparen" /\ ConsumeEnter("braces", "ifElse")
  \/ At("ifElse") /\ cur # "else" /\ Yield(Node)
  \/ At("ifElse") /\ cur = "else" /\ Consume("else")
  \/ At("else") /\ cur = "if" /\ Enter("if", "elseEnd")
  \/ At("else") /\ cur = "lbrace" /\ Enter("braces", "elseEnd")
  \/ At("else") /\ cur \notin {"if", "lbrace"} /\ Yield(Node)

While ==
  \/ At("while") /\ Consume("whileOpen")
  \/ At("whileOpen") /\ cur # "lparen" /\ Reject
  \/ At("whileOpen") /\ cur = "lparen" /\ ConsumeEnter("expr", "whileClose")
  \/ At("whileClose") /\ cur # "rparen" /\ Reject
  \/ At("whileClose") /\ cur = "rparen" /\ ConsumeEnter("braces", "bodyEnd")

(* for: the name is not checked, nor is the ':' of a range; a header with  *)
(* neither '->' nor ':' gives null with no error, at the name.             *)
For ==
  \/ At("for") /\ Consume("forOpen")
  \/ At("forOpen") /\ cur # "lparen" /\ Reject
  \/ At("forOpen") /\ cur = "lparen" /\ Consume("forVar")
  \/ Ready("forVar") /\ nxt = "arrow" /\ ConsumeUnchecked("forArrow")
  \/ Ready("forVar") /\ nxt = "colon" /\ ConsumeUnchecked("forList")
  \/ Ready("forVar") /\ cur # "EoF" /\ nxt \notin {"arrow", "colon"}
     /\ Abandon("for")
  \/ At("forArrow") /\ ConsumeEnter("sum", "forColon")
  \/ At("forColon") /\ ConsumeUnchecked("forTo")
  \/ At("forTo") /\ Enter("sum", "forStep")
  \/ At("forStep") /\ cur = "arrow" /\ ConsumeEnter("sum", "forClose")
  \/ At("forStep") /\ cur # "arrow" /\ Jump("forClose")
  \/ At("forList") /\ Consume("forClose")
  \/ At("forClose") /\ cur # "rparen" /\ Reject
  \/ At("forClose") /\ cur = "rparen" /\ ConsumeEnter("braces", "bodyEnd")

-----------------------------------------------------------------------------
(* Functions.                                                              *)

(* ParseFunctionDeclr: the name is not checked; parameters need a type but *)
(* no comma between them.                                                  *)
Function ==
  \/ At("function") /\ Consume("functionName")
  \/ At("functionName") /\ ConsumeUnchecked("functionOpen")
  \/ At("functionOpen") /\ cur # "lparen" /\ Reject
  \/ At("functionOpen") /\ cur = "lparen" /\ Consume("params")
  \/ /\ At("params") /\ cur = "comma"
     /\ Shift /\ Goto("params")
     /\ IF cur' = "rparen" THEN Report ELSE Quiet
  \/ At("params") /\ cur \notin {"comma", "rparen", "ident"} /\ Reject
  \/ At("params") /\ cur = "ident" /\ ConsumeEnter("type", "paramType")
  \/ At("paramType") /\ ret = Null /\ Reject
  \/ At("paramType") /\ ret # Null /\ Jump("params")
  \/ At("params") /\ cur = "rparen" /\ Consume("does")
  \/ Ready("does") /\ cur = "ident" /\ nxt = "lparen" /\ Enter("call", "functionEnd")
  \/ At("does") /\ cur = "lbrace" /\ Enter("braces", "functionEnd")
  \/ At("does") /\ cur = "return" /\ Enter("return", "functionEnd")
  \/ Ready("does") /\ cur \notin {"lbrace", "return"} /\ ~(cur = "ident" /\ nxt = "lparen")
     /\ ConsumeReject

(* ParseExternFunc: names are not checked.  Of the types only the built-in *)
(* ones are known: another is not consumed, and the type of the parameter  *)
(* is an uninitialized value.  A built-in type after '[' is stored through *)
(* a null pointer.                                                         *)
Extern ==
  \/ At("extern") /\ Consume("externKeyword")
  \/ At("externKeyword") /\ Consume("externName")
  \/ At("externName") /\ ConsumeUnchecked("externOpen")
  \/ At("externOpen") /\ cur # "lparen" /\ Reject
  \/ At("externOpen") /\ cur = "lparen" /\ Consume("externParams")
  \/ /\ At("externParams") /\ cur = "comma"
     /\ Shift /\ Goto("externParam")
     /\ IF cur' = "rparen" THEN Report ELSE Quiet
  \/ At("externParams") /\ cur \notin {"comma", "rparen"} /\ ConsumeUnchecked("externType")
  \/ At("externParam") /\ ConsumeUnchecked("externType")
  \/ At("externType") /\ cur \notin {"ident", "lbracket"} /\ Reject
  \/ At("externType") /\ cur = "ident" /\ Consume("externParams")
  \/ /\ \/ At("externType") /\ cur = "ident"
        \/ At("externElement")
     /\ Stay /\ Goto("externParams")
     /\ Flawed("paramType")
     /\ UNCHANGED << hasErrors, lax >>
  \/ At("externType") /\ cur = "lbracket" /\ ConsumeUnchecked("externElement")
  \/ At("externParams") /\ cur = "rparen" /\ Consume("externArrow")
  \/ At("externArrow") /\ cur # "arrow" /\ Reject
  \/ At("externArrow") /\ cur = "arrow" /\ ConsumeEnter("type", "functionEnd")

-----------------------------------------------------------------------------
(* Expressions.                                                            *)

(* ParseFunction, a call: no comma is needed between arguments, and an     *)
(* argument that is no expression is tried again.                          *)
Call ==
  \/ At("call") /\ Consume("callOpen")
  \/ At("callOpen") /\ Consume("args")
  \/ At("args") /\ cur \in {"rparen", "beyond"} /\ ConsumeYield(Node)
  \/ /\ At("args") /\ cur = "comma"
     /\ Shift /\ Goto("arg")
     /\ IF cur' = "rparen" THEN Report ELSE Quiet
  \/ At("arg") /\ Enter("expr", "args")
  \/ At("args") /\ cur \notin {"comma", "rparen", "beyond"} /\ Item("expr", "args")

(* Mutant: ')' is not looked for.                                          *)
ParenthesesAny ==
  \/ At("paren") /\ ConsumeEnter("expr", "parenClose")
  \/ At("parenClose") /\ ret # Null /\ ConsumeYield(Node)

(* ParseParentheses: the result is followed before it is checked (:705),   *)
(* see Crash.                                                              *)
Parentheses ==
  \/ At("paren") /\ ConsumeEnter("expr", "parenClose")
  \/ At("parenClose") /\ ret # Null /\ cur = "rparen" /\ ConsumeYield(Node)
  \/ At("parenClose") /\ ret # Null /\ cur # "rparen" /\ Reject

(* ParseCollection: mark says that an element is expected.                 *)
Collection ==
  \/ At("collection") /\ Consume("elements")
  \/ At("elements") /\ cur = "rbracket" /\ ConsumeYield(Node)
  \/ At("elements") /\ cur = "comma" /\ Top.mark /\ Reject
  \/ /\ At("elements") /\ cur = "comma" /\ ~Top.mark
     /\ Shift
     /\ \/ cur' = "rbracket" /\ Report /\ Pop(Null)
        \/ /\ cur' # "rbracket" /\ Quiet
           /\ stack' = [stack EXCEPT ![Len(stack)].mark = TRUE] /\ UNCHANGED ret
  \/ At("elements") /\ cur \notin {"rbracket", "comma"} /\ ~Top.mark /\ Reject
  \/ At("elements") /\ cur \notin {"rbracket", "comma"} /\ Top.mark /\ Enter("expr", "elementDone")
  \/ At("elementDone") /\ ret = Null /\ Abandon("collection")
  \/ /\ At("elementDone") /\ ret # Null
     /\ stack' = [stack EXCEPT ![Len(stack)] = Frame("elements", FALSE)]
     /\ ret' = NoValue /\ Stay /\ Quiet

(* Mutant: what cannot begin an operand is not reported.                   *)
NoOperandSilent == Quiet

(* What cannot begin an operand is reported, unless it is EoF.             *)
NoOperand == IF cur = "EoF" THEN Quiet ELSE Report

(* ParsePrimary: an operand of an expression, or of a sum, the bounds of a *)
(* range.  What cannot begin one is not consumed.                          *)
Operand(kind, next) ==
  /\ Ready(kind)
  /\ \/ cur = "ident" /\ nxt = "lparen" /\ Enter("call", next)
     \/ cur = "lparen" /\ Enter("paren", next)
     \/ cur = "lbracket" /\ Stay /\ Push(Frame("collection", TRUE), next) /\ Quiet
     \/ /\ \/ cur = "literal"
           \/ cur = "ident" /\ nxt # "lparen"
        /\ Shift /\ Quiet
        /\ stack' = [stack EXCEPT ![Len(stack)].at = next] /\ ret' = Node
     \/ /\ cur \notin {"ident", "literal", "lparen", "lbracket"}
        /\ Stay
        /\ stack' = [stack EXCEPT ![Len(stack)].at = next] /\ ret' = Null
        /\ NoOperand

(* ParseTerm, ParseSum and ParseExpression: an operator takes an operand   *)
(* on each side, null or not.                                              *)
Operator(kind, next, operators) ==
  /\ At(next)
  /\ \/ /\ cur \in operators
        /\ Shift
        /\ stack' = [stack EXCEPT ![Len(stack)] = Frame(kind, TRUE)] /\ ret' = NoValue
        /\ IF ret = Null THEN Flawed("operand") ELSE UNCHANGED flaw
        /\ UNCHANGED << hasErrors, lax >>
     \/ /\ cur \notin operators /\ Top.mark /\ ret = Null
        /\ Stay /\ Pop(Node)
        /\ Flawed("operand")
        /\ UNCHANGED << hasErrors, lax >>
     \/ /\ cur \notin operators /\ ~(Top.mark /\ ret = Null)
        /\ Stay /\ Return(ret)

Expression ==
  \/ Operand("expr", "exprNext") \/ Operator("expr", "exprNext", {"arithmetic"} \cup Comparison)
  \/ Operand("sum", "sumNext") \/ Operator("sum", "sumNext", {"arithmetic"})

(* A call was the last thing a parse function had to do.                   *)
EndCall ==
  \E point \in Ends : At(point) /\ Yield(Node)

-----------------------------------------------------------------------------
(* The end of a run.                                                       *)

(* The end of the entry point that has no braces.  The loop also ends when *)
(* a statement has not moved the index (:806).                             *)
EndMain ==
  /\ At("mainLoop") /\ (cur \in Ended \/ ~moved)
  /\ Yield(Node)
  /\ fq' = TRUE
  /\ UNCHANGED status

Finish ==
  /\ \/ At("program") /\ cur \in Ended
     \/ At("afterMain") /\ fq
  /\ Fail("done")

(* A null pointer is followed: the result of ParseExpression in parentheses*)
(* (:705), the metadata of an array parameter (:545).                      *)
Crash ==
  /\ \/ At("parenClose") /\ ret = Null
     \/ At("externElement") /\ cur \in {"ident", "literal"}
  /\ Fail("crashed")

(* arr is read past its end: arr[i], or arr[i + 1] in the header of a for. *)
Overread ==
  /\ Parsing
  /\ \/ cur = "beyond" /\ Top.at \notin InBounds
     \/ cur = "EoF" /\ Top.at = "forVar"
  /\ Fail("overread")

(* The recursion may exhaust the stack of the process.                     *)
Exhaust == Parsing /\ Len(stack) = MaxDepth /\ Fail("exhausted")

Halted == ~Parsing /\ UNCHANGED vars

ParseStep ==
  /\ \/ Program \/ Main \/ Block \/ Statement \/ Declaration \/ Type \/ ReturnStatement
     \/ Element \/ If \/ While \/ For \/ Function \/ Extern
     \/ Call \/ Parentheses \/ Collection \/ Expression \/ EndCall
  /\ UNCHANGED << fq, status >>

Next ==
  \/ Peek \/ ParseStep \/ EndMain
  \/ Finish \/ Crash \/ Overread \/ Exhaust \/ Halted

Spec == Init /\ [][Next]_vars /\ WF_vars(Next)

-----------------------------------------------------------------------------
(* Properties.                                                             *)

Points ==
  {"program", "afterMain", "main", "mainBody", "mainLoop", "mainEnd", "braces", "block",
   "statement", "let", "letName", "letType", "letTyped", "letValue", "letEnd",
   "type", "typeArg", "typeClose", "return", "returnEnd",
   "element", "elementOpen", "elementClose", "elementSet", "elementEnd",
   "if", "ifOpen", "ifClose", "ifElse", "else", "elseEnd", "while", "whileOpen", "whileClose",
   "for", "forOpen", "forVar", "forArrow", "forColon", "forTo", "forStep", "forList",
   "forClose", "bodyEnd", "function", "functionName", "functionOpen", "params", "paramType",
   "does", "functionEnd", "extern", "externKeyword", "externName", "externOpen",
   "externParams", "externParam", "externType", "externElement", "externArrow",
   "call", "callOpen", "args", "arg", "paren", "parenClose", "collection", "elements",
   "elementDone", "expr", "exprNext", "sum", "sumNext"}

Flaws ==
  {Slot[p] : p \in DOMAIN Slot} \cup {"none", "operand", "collection", "if", "for", "paramType"}
Flaw == [what : Flaws, atEnd : BOOLEAN]

(* The type invariant: only Parse itself is at the bottom of the stack.    *)
TypeOK ==
  /\ cur \in Token \cup Ended /\ nxt \in Token \cup Ended \cup {"unread"}
  /\ stack \in Seq([at : Points, mark : BOOLEAN]) /\ stack # << >>
  /\ \A k \in DOMAIN stack : stack[k].at \in {"program", "afterMain"} <=> k = 1
  /\ ret \in {Null, Node, NoValue}
  /\ {moved, hasErrors, lax, fq} \subseteq BOOLEAN
  /\ flaw \in Flaw
  /\ status \in {"parsing", "done", "crashed", "overread", "exhausted"}

(* A null pointer or an unset type is put into the tree of a program with  *)
(* no error only where the code checks nothing: at the end of the file,    *)
(* for the value of a typed variable, the block after a header, a for with *)
(* neither '->' nor ':' and the parameter of an extern function.  Every    *)
(* other null the analyser meets was reported.                             *)
NullsAreReported ==
  flaw # NoFlaw =>
    flaw.atEnd \/ flaw.what \in {"value", "then", "body", "for", "paramType"}

(* An iteration of a list that ended has moved the index, so that no list  *)
(* is read for ever, but at the end of the file, where a block goes on and *)
(* a program ends, and for a call one of whose arguments is no expression. *)
(* So the loop of the entry point never needs its own check (:806).        *)
IterationsAdvance ==
  Parsing /\ Top.at \in {"program", "mainLoop", "block", "args"} /\ ~moved =>
    \/ Top.at \in {"program", "block"} /\ cur = "EoF"
    \/ Top.at = "args" /\ ret = Null

(* The array is read past its end in five places only: an extern function  *)
(* named EoF, the header of a for at the end, the bound of a range behind  *)
(* an EoF taken for ':', the else after a then block the end of the file   *)
(* closed, and the statement behind an entry point in braces.              *)
OverreadsAtEnd ==
  status = "overread" =>
    \/ Top.at \in {"externOpen", "forVar"}
    \/ Top.at = "ifElse" /\ hasErrors
    \/ Top.at = "sum" /\ stack[Len(stack) - 1].at = "forStep"
    \/ Top.at = "statement" /\ Len(stack) = 2

(* A null pointer is followed only after an error, at the end of the file, *)
(* or in an extern function with an array parameter.                       *)
CrashesExplained ==
  status = "crashed" => hasErrors \/ cur = "EoF" \/ Top.at = "externElement"

(* At the end of the file the parser stops, unless a block or a call is    *)
(* still open: these wait for a bracket that does not come.                *)
Unclosed == \E k \in DOMAIN stack : stack[k].at \in {"block", "args", "arg"}
EndsWithInput == (Parsing /\ cur \in Ended /\ ~Unclosed) ~> ~Parsing

=============================================================================
