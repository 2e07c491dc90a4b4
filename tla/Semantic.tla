------------------------------ MODULE Semantic ------------------------------
(***************************************************************************)
(* The semantic analyser of the Sbix compiler (Semantic.cpp): the walk     *)
(* Analyze makes over the nodes the parser built, the symbol table it      *)
(* fills and the diagnostics it reports.                                   *)
(*                                                                         *)
(* Analyze is a recursive function; the model keeps its call stack in the  *)
(* variable frames and lets the program under analysis be any tree: every  *)
(* step picks the next node in the order Analyze visits them, so the       *)
(* behaviours are the analyses of all programs within the bounds.          *)
(*                                                                         *)
(* A string of the code is a sequence of atoms here: the mangled key       *)
(* "f_if3!4_x" is <<"f", "_", "if", "3!4", "_", "x">>.  An atom is a       *)
(* separator, a label word, a source position or (a part of) a name, so    *)
(* that string concatenation, pop_back and rfind act on atoms alike.       *)
(***************************************************************************)
EXTENDS Integers, FiniteSets, SequencesExt

CONSTANTS
  Name,          \* identifiers of the program, non-empty sequences of atoms
  Position,      \* Position[n]: the "line!column" atom of the n-th node
  ForPosition,   \* the atom of the position a for node keeps
  LiteralType,   \* types of the literals
  DeclaredType,  \* types an annotation names
  ParamList,     \* parameter lists: sequences of [name, type] records
  Statement,     \* kinds of statement the program uses
  Operand,       \* kinds of operand the program uses
  MaxNodes,      \* bound: nodes of the program
  MaxDepth,      \* bound: nesting of Analyze calls
  MaxOperands    \* bound: operands that wait for an operator or a call at one time

Atom == STRING
Word == {"_", ":", "if", "else", "while", "for"}

Type == {"String", "Int", "Float", "Bool", "Array", "Unknown"}

Param == [name : Name, type : Type]

ASSUME WordAssumption == Word \subseteq Atom
ASSUME NameAssumption == Name \subseteq Seq(Atom) \ {<<>>}
ASSUME PositionAssumption ==
  /\ Position \in [1..MaxNodes -> Atom]
  /\ ForPosition \in Atom
(* An identifier is of letters, digits and '_' (Lexer.cpp:72-77): the '!'  *)
(* of a position (:17) is in no name and in no label.                      *)
Placed == {Position[n] : n \in 1..MaxNodes} \cup {ForPosition}
ASSUME IdentifierAssumption ==
  /\ Placed \cap Word = {}
  /\ \A name \in Name : ToSet(name) \cap (Placed \cup {":"}) = {}
ASSUME TypeAssumption ==
  /\ LiteralType \subseteq Type
  /\ DeclaredType \subseteq Type
ASSUME ParamAssumption == ParamList \subseteq Seq(Param)
ASSUME BoundAssumption == MaxNodes \in Nat /\ MaxDepth \in Nat /\ MaxOperands \in Nat

VARIABLES
  table,       \* symbolTable: mangled key -> symbol
  frames,      \* the Analyze calls in progress, the innermost last
  loop_depth,  \* the global of that name
  hasEntry,    \* the global of that name
  hasErrors,   \* the global of that name
  silent,      \* a diagnostic was printed without setting hasErrors
  strayBreak,  \* a break with no loop in its own function was accepted
  signature,   \* function key -> the type the function node was given
  nodes,       \* nodes visited so far
  status       \* "running", "done", or "crashed" on a null node

vars == << table, frames, loop_depth, hasEntry, hasErrors, silent,
           strayBreak, signature, nodes, status >>
ghosts == << silent, strayBreak, signature >>

-----------------------------------------------------------------------------
(* The symbol table.                                                       *)

NoKey == <<>>
NoName == <<>>
NoType == "None"     \* a declaration without an annotation
Null == "Null"       \* the "type" of an operand that is a null pointer

(* A symbol.  The last two fields record what the code does not: the scope *)
(* that declared it and, for a function, the parameters it was given.      *)
Variable(type, scope) ==
  [type |-> type, isFunction |-> FALSE, argTypes |-> <<>>,
   scope |-> scope, declared |-> <<>>]

Function(type, argTypes, scope, params) ==
  [type |-> type, isFunction |-> TRUE, argTypes |-> argTypes,
   scope |-> scope, declared |-> params]

(* unordered_map::insert keeps the entries that are there.                 *)
Merge(t, new) ==
  [key \in DOMAIN t \cup DOMAIN new |-> IF key \in DOMAIN t THEN t[key] ELSE new[key]]

Insert(t, key, symbol) == Merge(t, [k \in {key} |-> symbol])

(* The prefixes FindVariableInScopes tries: the current one, the enclosing *)
(* ones that end in ':' and the empty one.  It shortens the prefix to the  *)
(* previous ':', so no prefix that ends in '_' is tried but the first.     *)
SearchScopes(prefix) ==
  {prefix, <<>>} \cup
  {SubSeq(prefix, 1, k) : k \in {j \in 1..(Len(prefix) - 1) : prefix[j] = ":"}}

(* FindVariableInScopes: the key of the longest prefix that has the name.  *)
Lookup(t, prefix, name) ==
  LET hits == {s \in SearchScopes(prefix) : s \o name \in DOMAIN t}
  IN  IF hits = {} THEN NoKey
      ELSE (CHOOSE s \in hits : \A r \in hits : Len(r) <= Len(s)) \o name

(* What follows the last '_' of a key, the whole key when it has none.     *)
LastSegment(key) ==
  SubSeq(key, Max({0} \cup {j \in DOMAIN key : key[j] = "_"}) + 1, Len(key))

(* The parameters a function puts under its prefix, the first of a name.   *)
ParamSymbols(prefix, params, scope) ==
  [key \in {prefix \o params[i].name : i \in DOMAIN params} |->
     LET i == CHOOSE i \in DOMAIN params :
                /\ prefix \o params[i].name = key
                /\ \A j \in 1..(i - 1) : prefix \o params[j].name # key
     IN  Variable(params[i].type, scope)]

ParamTypes(params) == [i \in DOMAIN params |-> params[i].type]

-----------------------------------------------------------------------------
(* The call stack.                                                         *)

LoopKinds == {"while", "for"}
BodyKinds == {"program", "function", "then", "else"} \cup LoopKinds
ExprKinds == {"let", "return", "ifCond", "whileCond", "call"}

(* An operand that was analysed: its evaluatedType and, when it is the use *)
(* of a variable, its name.                                                *)
Value == [type : Type \cup {Null}, use : Name \cup {NoName}]

(* A body frame analyses statements under prefix; id names its scope.  An  *)
(* expression frame collects the operands of the node it stands for (post- *)
(* order, the order Analyze takes them), node being that node's number.    *)
BodyFrame(kind, prefix, id) ==
  [kind |-> kind, prefix |-> prefix, id |-> id, node |-> 0,
   name |-> NoName, type |-> NoType, vals |-> <<>>]

Top == Last(frames)
Below == Front(frames)

ExprFrame(kind, name, type) ==
  [kind |-> kind, prefix |-> Top.prefix, id |-> Top.id, node |-> nodes + 1,
   name |-> name, type |-> type, vals |-> <<>>]

Push(f) == frames' = Append(frames, f)
Pop == frames' = Below
PushValue(v) == frames' = [frames EXCEPT ![Len(frames)].vals = Append(@, v)]

(* What the caller of an expression sees of it, when it is an operand.     *)
Deliver(v) ==
  frames' = IF Last(Below).kind \in ExprKinds
            THEN [Below EXCEPT ![Len(Below)].vals = Append(@, v)]
            ELSE Below

(* Mutants: the label of an if without its position; a function prefix     *)
(* without the separator.                                                  *)
IfPrefixNoPosition(prefix, n) == prefix \o <<"if", "_">>
FunctionPrefixNoBar(prefix, name) == prefix \o name

IfPrefix(prefix, n) == prefix \o <<"if", Position[n], "_">>
ElsePrefix(prefix) == prefix \o <<"else", ":">>
WhilePrefix(prefix, n) == prefix \o <<"while", Position[n], "_">>
ForPrefix(prefix) == prefix \o <<"for", ForPosition, "_">>
FunctionPrefix(prefix, name) == prefix \o name \o <<"_">>

(* The open loops since the last function frame, none when it is on top.   *)
InLoop ==
  \E i \in DOMAIN frames :
    /\ frames[i].kind \in LoopKinds
    /\ \A j \in i..Len(frames) : frames[j].kind # "function"

Running == status = "running"
AtStatement(kind) ==
  /\ Running /\ Top.kind \in BodyKinds
  /\ kind \in Statement
  /\ nodes < MaxNodes
  /\ nodes' = nodes + 1
CanNest == Len(frames) < MaxDepth

(* An expression may take an operand; one that has none yet may always.    *)
AtOperand(kind) ==
  /\ Running /\ Top.kind \in ExprKinds
  /\ kind \in Operand
  /\ \/ nodes < MaxNodes /\ Len(Top.vals) < MaxOperands
     \/ /\ Top.vals = <<>> /\ Top.kind # "call"
  /\ nodes' = nodes + 1

AddErr == hasErrors' = TRUE

(* Analyze follows a null pointer.                                         *)
Crash ==
  /\ status' = "crashed"
  /\ UNCHANGED << table, frames, loop_depth, hasEntry, hasErrors, ghosts, nodes >>

-----------------------------------------------------------------------------
Init ==
  /\ table = << >>
  /\ frames = << BodyFrame("program", <<>>, 0) >>
  /\ loop_depth = 0
  /\ hasEntry = FALSE
  /\ hasErrors = FALSE
  /\ silent = FALSE
  /\ strayBreak = FALSE
  /\ signature = << >>
  /\ nodes = 0
  /\ status = "running"

-----------------------------------------------------------------------------
(* Operands.                                                               *)

(* A literal: the parser gave it its type.                                 *)
Literal(type) ==
  /\ AtOperand("literal")
  /\ PushValue([type |-> type, use |-> NoName])
  /\ UNCHANGED << table, loop_depth, hasEntry, hasErrors, ghosts, status >>

(* An operand the parser failed on, or a missing initializer.              *)
NullOperand ==
  /\ AtOperand("null")
  /\ PushValue([type |-> Null, use |-> NoName])
  /\ UNCHANGED << table, loop_depth, hasEntry, hasErrors, ghosts, status >>

(* A collection: its elements are not analysed, and elements of different  *)
(* types are reported (S104) without addErr.                               *)
Collection(mixed) ==
  /\ AtOperand("collection")
  /\ PushValue([type |-> "Array", use |-> NoName])
  /\ silent' = (silent \/ mixed)
  /\ UNCHANGED << table, loop_depth, hasEntry, hasErrors, strayBreak, signature, status >>

(* The use of a variable (or of any symbol of that name).                  *)
VariableUse(name) ==
  /\ AtOperand("use")
  /\ LET key == Lookup(table, Top.prefix, name) IN
     IF key = NoKey
     THEN /\ AddErr   \* S101
          /\ PushValue([type |-> "Unknown", use |-> name])
     ELSE /\ PushValue([type |-> table[key].type, use |-> name])
          /\ UNCHANGED hasErrors
  /\ UNCHANGED << table, loop_depth, hasEntry, ghosts, status >>

Numeric == {"Int", "Float"}
(* Mutants of Infers: any left operand; a right operand of any type.       *)
InfersAnyLeft(left, right) == right \in Numeric
InfersAnyRight(left, right) == left = "Unknown"
(* A left operand of unknown type takes the number type of the right one.  *)
Infers(left, right) == left = "Unknown" /\ right \in Numeric
Compatible(left, right) == {left, right} \subseteq Numeric \/ left = right

(* A binary operator over the last two operands, whose types were read     *)
(* when each was analysed.  A comparison yields Bool, any other operator   *)
(* the type of the left operand.                                           *)
BinaryOp(isComparison) ==
  LET n == Len(Top.vals)
      left == Top.vals[n - 1]
      right == Top.vals[n]
      inferred == Infers(left.type, right.type)
      leftType == IF inferred THEN right.type ELSE left.type
      key == IF left.use = NoName THEN NoKey ELSE Lookup(table, Top.prefix, left.use)
      arrays == left.type = "Array" /\ right.type = "Array"
      result == IF arrays THEN "Unknown" ELSE IF isComparison THEN "Bool" ELSE leftType
  IN  /\ Running /\ Top.kind \in ExprKinds /\ n >= 2
      /\ IF Null \in {left.type, right.type}
         THEN Crash
         ELSE /\ frames' = [frames EXCEPT ![Len(frames)].vals =
                              Append(SubSeq(@, 1, n - 2), [type |-> result, use |-> NoName])]
              /\ table' = IF inferred /\ key # NoKey
                          THEN [table EXCEPT ![key].type = right.type] ELSE table
              /\ hasErrors' = (hasErrors \/ arrays \/ ~Compatible(leftType, right.type))
              /\ UNCHANGED << loop_depth, hasEntry, ghosts, nodes, status >>

-----------------------------------------------------------------------------
(* Declarations, returns and calls.                                        *)

(* let / const: a key that exists is reported and the node is skipped.     *)
LetClash(name) ==
  /\ AtStatement("let")
  /\ Top.prefix \o name \in DOMAIN table
  /\ AddErr   \* S103
  /\ UNCHANGED << table, frames, loop_depth, hasEntry, ghosts, status >>

Let(name, type) ==
  /\ AtStatement("let") /\ CanNest
  /\ Top.prefix \o name \notin DOMAIN table
  /\ Push(ExprFrame("let", name, type))
  /\ UNCHANGED << table, loop_depth, hasEntry, hasErrors, ghosts, status >>

FinishLet ==
  LET annotated == Top.type # NoType
      type == Top.vals[1].type
  IN  /\ Running /\ Top.kind = "let" /\ Len(Top.vals) = 1
      /\ \/ /\ type = Null /\ ~annotated
            /\ AddErr   \* S105
            /\ UNCHANGED table
         \/ /\ type # Null \/ annotated
            /\ table' = Insert(table, Top.prefix \o Top.name,
                               Variable(IF type = Null THEN Top.type ELSE type, Top.id))
            /\ hasErrors' = (hasErrors \/ (annotated /\ type \notin {Null, Top.type}))   \* S104
      /\ Pop
      /\ UNCHANGED << loop_depth, hasEntry, ghosts, nodes, status >>

(* return: parsed in blocks only.                                          *)
Return ==
  /\ AtStatement("return") /\ CanNest
  /\ Top.kind # "program"
  /\ Push(ExprFrame("return", NoName, NoType))
  /\ UNCHANGED << table, loop_depth, hasEntry, hasErrors, ghosts, status >>

(* Mutant: any function is a target.                                       *)
ReturnTargetsAny(t, prefix) ==
  IF prefix = <<>> \/ Last(prefix) # "_" THEN {} ELSE {k \in DOMAIN t : t[k].isFunction}

(* The functions a return under prefix may be taken to belong to: those    *)
(* whose last segment is the last segment of the prefix.                   *)
ReturnTargets(t, prefix) ==
  IF prefix = <<>> \/ Last(prefix) # "_" THEN {}
  ELSE {k \in DOMAIN t : t[k].isFunction /\ LastSegment(k) = LastSegment(Front(prefix))}

(* The first target in the iteration order of the unordered_map, which the *)
(* model leaves open, gets the type of the returned expression.            *)
FinishReturn ==
  LET targets == ReturnTargets(table, Top.prefix)
      type == Top.vals[1].type
  IN  /\ Running /\ Top.kind = "return" /\ Len(Top.vals) = 1
      /\ IF type = Null
         THEN Crash
         ELSE /\ \/ targets = {} /\ UNCHANGED table
                 \/ \E k \in targets : table' = [table EXCEPT ![k].type = type]
              /\ Pop
              /\ UNCHANGED << loop_depth, hasEntry, hasErrors, ghosts, nodes, status >>

(* A call, as a statement or as an operand; its arguments come first.      *)
Call(name) ==
  /\ CanNest
  /\ \/ AtStatement("call")
     \/ AtOperand("call") /\ nodes < MaxNodes
  /\ Push(ExprFrame("call", name, NoType))
  /\ UNCHANGED << table, loop_depth, hasEntry, hasErrors, ghosts, status >>

FinishCall ==
  LET key == Lookup(table, Top.prefix, Top.name)
      expected == table[key].argTypes
      args == Top.vals
      given == [i \in DOMAIN args |-> args[i].type]
      sameArity == Len(args) = Len(expected)
  IN  /\ Running /\ Top.kind = "call"
      /\ \/ /\ key = NoKey
            /\ AddErr   \* S202
            /\ Deliver([type |-> "Unknown", use |-> NoName])
            /\ UNCHANGED << table, loop_depth, hasEntry, ghosts, nodes, status >>
         \/ /\ key # NoKey /\ sameArity
            /\ \E i \in DOMAIN given : given[i] = Null
            /\ Crash
         \/ /\ key # NoKey
            /\ sameArity => \A i \in DOMAIN given : given[i] # Null
            /\ hasErrors' = (hasErrors \/ given # expected)   \* S204, S205
            /\ Deliver([type |-> table[key].type, use |-> NoName])
            /\ UNCHANGED << table, loop_depth, hasEntry, ghosts, nodes, status >>

(* A function with a body: parameters and function enter the table before  *)
(* the body is analysed under the function's prefix.                       *)
FunctionClash(name) ==
  /\ AtStatement("function") \/ AtStatement("extern")
  /\ Top.prefix \o name \in DOMAIN table
  /\ AddErr   \* S203
  /\ UNCHANGED << table, frames, loop_depth, hasEntry, ghosts, status >>

FunctionDef(name, params) ==
  LET key == Top.prefix \o name
      prefix == FunctionPrefix(Top.prefix, name)
      withParams == Merge(table, ParamSymbols(prefix, params, nodes + 1))
  IN  /\ AtStatement("function") /\ CanNest
      /\ key \notin DOMAIN table
      /\ table' = Insert(withParams, key,
                         Function("Unknown", ParamTypes(params), Top.id, params))
      /\ Push(BodyFrame("function", prefix, nodes + 1))
      /\ UNCHANGED << loop_depth, hasEntry, hasErrors, ghosts, status >>

(* The function node takes the type the table has for it by now.           *)
EndFunction ==
  LET key == Front(Top.prefix)
  IN  /\ Running /\ Top.kind = "function"
      /\ signature' = Merge([k \in {key} |-> table[key].type], signature)
      /\ Pop
      /\ UNCHANGED << table, loop_depth, hasEntry, hasErrors, silent, strayBreak, nodes, status >>

(* extern: entered under its bare name, with no argument types.            *)
Extern(name, params, type) ==
  /\ AtStatement("extern")
  /\ Top.prefix \o name \notin DOMAIN table
  /\ table' = Insert(table, name, Function(type, <<>>, 0, params))
  /\ UNCHANGED << frames, loop_depth, hasEntry, hasErrors, ghosts, status >>

-----------------------------------------------------------------------------
(* Control statements.                                                     *)

If ==
  /\ AtStatement("if") /\ CanNest
  /\ Push(ExprFrame("ifCond", NoName, NoType))
  /\ UNCHANGED << table, loop_depth, hasEntry, hasErrors, ghosts, status >>

(* The parser drops an if without a condition.                             *)
FinishIfCond ==
  LET type == Top.vals[1].type
  IN  /\ Running /\ Top.kind = "ifCond" /\ Len(Top.vals) = 1
      /\ \/ type = Null /\ Pop /\ UNCHANGED hasErrors
         \/ /\ type # Null
            /\ frames' = Append(Below, BodyFrame("then", IfPrefix(Top.prefix, Top.node), Top.node))
            /\ hasErrors' = (hasErrors \/ type # "Bool")   \* S153
      /\ UNCHANGED << table, loop_depth, hasEntry, ghosts, nodes, status >>

(* The else branch (a block or another if) is analysed under the prefix of *)
(* the then branch and "else:".                                            *)
Else ==
  /\ Running /\ Top.kind = "then" /\ nodes < MaxNodes
  /\ nodes' = nodes + 1
  /\ frames' = Append(Below, BodyFrame("else", ElsePrefix(Top.prefix), nodes + 1))
  /\ UNCHANGED << table, loop_depth, hasEntry, hasErrors, ghosts, status >>

EndIf ==
  /\ Running /\ Top.kind \in {"then", "else"}
  /\ Pop
  /\ UNCHANGED << table, loop_depth, hasEntry, hasErrors, ghosts, nodes, status >>

While ==
  /\ AtStatement("while") /\ CanNest
  /\ Push(ExprFrame("whileCond", NoName, NoType))
  /\ UNCHANGED << table, loop_depth, hasEntry, hasErrors, ghosts, status >>

FinishWhileCond ==
  LET type == Top.vals[1].type
  IN  /\ Running /\ Top.kind = "whileCond" /\ Len(Top.vals) = 1
      /\ IF type = Null
         THEN Crash
         ELSE /\ frames' = Append(Below, BodyFrame("while", WhilePrefix(Top.prefix, Top.node),
                                                   Top.node))
              /\ loop_depth' = loop_depth + 1
              /\ hasErrors' = (hasErrors \/ type # "Bool")   \* S153
              /\ UNCHANGED << table, hasEntry, ghosts, nodes, status >>

(* for: the range is not analysed; the iterator is an Int of the body.     *)
For(name) ==
  LET prefix == ForPrefix(Top.prefix)
  IN  /\ AtStatement("for") /\ CanNest
      /\ table' = Insert(table, prefix \o name, Variable("Int", nodes + 1))
      /\ Push(BodyFrame("for", prefix, nodes + 1))
      /\ loop_depth' = loop_depth + 1
      /\ UNCHANGED << hasEntry, hasErrors, ghosts, status >>

(* Mutant: leaving a loop without --loop_depth.                            *)
EndLoopKeepsDepth ==
  /\ Running /\ Top.kind \in LoopKinds
  /\ Pop
  /\ UNCHANGED << table, loop_depth, hasEntry, hasErrors, ghosts, nodes, status >>

EndLoop ==
  /\ Running /\ Top.kind \in LoopKinds
  /\ Pop
  /\ loop_depth' = loop_depth - 1
  /\ UNCHANGED << table, hasEntry, hasErrors, ghosts, nodes, status >>

Break ==
  /\ AtStatement("break")
  /\ hasErrors' = (hasErrors \/ loop_depth <= 0)   \* SBRK
  /\ strayBreak' = (strayBreak \/ (loop_depth > 0 /\ ~InLoop))
  /\ UNCHANGED << table, frames, loop_depth, hasEntry, silent, signature, status >>

(* name[index] = ...: only a global is looked for, its absence is reported *)
(* (S102) without addErr, and the parser never gives the node a content.   *)
CollectionOverride(name) ==
  /\ AtStatement("collectionOverride")
  /\ silent' = (silent \/ name \notin DOMAIN table)
  /\ hasErrors' = (hasErrors \/ (name \in DOMAIN table /\ table[name].type # "Array"))   \* S104
  /\ UNCHANGED << table, frames, loop_depth, hasEntry, strayBreak, signature, status >>

(* @entry: its statements are not analysed.                                *)
Main(isEmpty) ==
  /\ AtStatement("main") /\ Top.kind = "program"
  /\ hasErrors' = (hasErrors \/ hasEntry \/ isEmpty)   \* S401, S402
  /\ hasEntry' = TRUE
  /\ UNCHANGED << table, frames, loop_depth, ghosts, status >>

Finish ==
  /\ Running /\ Top.kind = "program"
  /\ status' = "done"
  /\ UNCHANGED << table, frames, loop_depth, hasEntry, hasErrors, ghosts, nodes >>

(* The analyser has returned or crashed.                                   *)
Halted == ~Running /\ UNCHANGED vars

-----------------------------------------------------------------------------
OperandStep ==
  \/ \E type \in LiteralType : Literal(type)
  \/ NullOperand
  \/ \E mixed \in BOOLEAN : Collection(mixed)
  \/ \E name \in Name : VariableUse(name)
  \/ \E isComparison \in BOOLEAN : BinaryOp(isComparison)

DeclarationStep ==
  \/ \E name \in Name : LetClash(name)
  \/ \E name \in Name, type \in DeclaredType \cup {NoType} : Let(name, type)
  \/ FinishLet
  \/ Return
  \/ FinishReturn
  \/ \E name \in Name : Call(name)
  \/ FinishCall
  \/ \E name \in Name : FunctionClash(name)
  \/ \E name \in Name, params \in ParamList : FunctionDef(name, params)
  \/ EndFunction
  \/ \E name \in Name, params \in ParamList, type \in DeclaredType : Extern(name, params, type)

ControlStep ==
  \/ If
  \/ FinishIfCond
  \/ Else
  \/ EndIf
  \/ While
  \/ FinishWhileCond
  \/ \E name \in Name : For(name)
  \/ EndLoop
  \/ Break
  \/ \E name \in Name : CollectionOverride(name)
  \/ \E isEmpty \in BOOLEAN : Main(isEmpty)
  \/ Finish
  \/ Halted

Next == OperandStep \/ DeclarationStep \/ ControlStep

Spec == Init /\ [][Next]_vars

-----------------------------------------------------------------------------
(* Properties.                                                             *)

Symbol == [type : Type, isFunction : BOOLEAN, argTypes : Seq(Type),
           scope : Nat, declared : Seq(Param)]

Frame == [kind : BodyKinds \cup ExprKinds, prefix : Seq(Atom), id : Nat, node : Nat,
          name : Name \cup {NoName}, type : Type \cup {NoType}, vals : Seq(Value)]

(* The type invariant: of the symbol table, of the call stack (only the    *)
(* first frame analyses the program, the symbol of a function whose body   *)
(* is under analysis is in the table, so :321 finds it, and an expression  *)
(* has nothing but calls nested in it) and of the rest.                    *)
TableOK(t) ==
  /\ DOMAIN t \subseteq Seq(Atom)
  /\ \A key \in DOMAIN t : t[key] \in Symbol

FrameOK(f, keys) ==
  /\ f.kind \in {"ifCond", "whileCond"} => f.node \in 1..MaxNodes
  /\ f.kind = "let" => f.name \in Name
  /\ f.kind = "function" => f.prefix # << >> /\ Front(f.prefix) \in keys

WellStacked(stack, keys) ==
  /\ stack \in Seq(Frame) /\ stack # << >>
  /\ \A i \in DOMAIN stack :
       /\ stack[i].kind = "program" <=> i = 1
       /\ FrameOK(stack[i], keys)
       /\ stack[i].kind \in BodyKinds => stack[i].vals = << >>
       /\ stack[i].kind \in ExprKinds =>
            \A k \in (i + 1)..Len(stack) : stack[k].kind = "call"

TypeOK ==
  /\ TableOK(table)
  /\ WellStacked(frames, DOMAIN table)
  /\ loop_depth \in Int
  /\ {hasEntry, hasErrors, silent, strayBreak} \subseteq BOOLEAN
  /\ DOMAIN signature \subseteq DOMAIN table
  /\ \A key \in DOMAIN signature : signature[key] \in Type
  /\ nodes \in Nat
  /\ status \in {"running", "done", "crashed"}

(* loop_depth, which decides whether a break is accepted, is the number of *)
(* loop bodies under analysis at every moment of the recursion: each early *)
(* return and each nested body leaves the increments of :462 and :474      *)
(* balanced.                                                               *)
OpenLoops(stack) == {i \in DOMAIN stack : stack[i].kind \in LoopKinds}
LoopDepthMatchesNesting == loop_depth = Cardinality(OpenLoops(frames))

(* FindVariableInScopes never resolves a name to a declaration of a scope  *)
(* that is closed, for names without '_' (with one, "y" in a function f_x  *)
(* finds what a closed f declared as "x_y"): mangling by position keeps    *)
(* the branches and loops of a body apart.  The exception is a key with a  *)
(* for label, which all the for statements of a scope share because the    *)
(* parser leaves their position unset.                                     *)
OpenScopes == {frames[i].id : i \in DOMAIN frames}
ScopeSoundness ==
  Running => \A name \in Name :
    LET key == Lookup(table, Top.prefix, name)
    IN  key # NoKey => \/ table[key].scope \in OpenScopes
                       \/ \E j \in DOMAIN key : key[j] = "for"

(* What a call is checked against and what the body sees agree: while the  *)
(* table lives, the first parameter of a name has under the function's     *)
(* prefix the type recorded for it in the function's argumentTypes, for    *)
(* names without '_' (with one, "f" and "x_y" mangle like "f_x" and "y").  *)
ParamsKeepTheirTypes ==
  \A f \in DOMAIN table : \A i \in DOMAIN table[f].argTypes :
    LET params == table[f].declared
        key == FunctionPrefix(<<>>, f) \o params[i].name
    IN  (\A j \in 1..(i - 1) : params[j].name # params[i].name)
          => /\ key \in DOMAIN table
             /\ table[key].type = table[f].argTypes[i]

(* A function node keeps the type it was given when its body ended (the    *)
(* type the C prototype gets); the table, which later calls are checked    *)
(* against, can move away from it only by the inference on an unknown left *)
(* operand or by the return of another function with the same last segment.*)
SignatureDrift ==
  \A f \in DOMAIN signature :
    table[f].type # signature[f] =>
      \/ signature[f] = "Unknown"
      \/ \E g \in DOMAIN table \ {f} :
           table[g].isFunction /\ LastSegment(g) = LastSegment(f)

(* Symbols are stable: no step removes one, turns a variable into a        *)
(* function or changes what a call must pass; and the type of a variable   *)
(* moves only to a number, from unknown or from another number (:133).     *)
(* The last case is real: in x + f(x + 1) the inner sum makes x an Int and *)
(* the outer one, which read x before, makes it what f returns.            *)
Loose == {"Unknown"} \cup Numeric
Preserves(t, u) ==
  \A key \in DOMAIN t :
    /\ key \in DOMAIN u
    /\ u[key].isFunction = t[key].isFunction
    /\ u[key].argTypes = t[key].argTypes
    /\ u[key].type # t[key].type =>
         \/ t[key].isFunction
         \/ t[key].type \in Loose /\ u[key].type \in Numeric
SymbolsAreStable == [][Preserves(table, table')]_vars

(* The type of a left operand is the one read before the right operand was *)
(* analysed; when it was unknown, whatever the variable is by the time it  *)
(* is inferred (:126), it is nothing but unknown, a number or a function,  *)
(* so no other type is overwritten.                                        *)
LooseRead(v, prefix, t) ==
  LET key == Lookup(t, prefix, v.use)
  IN  v.use # NoName /\ v.type = "Unknown" /\ key # NoKey =>
        t[key].isFunction \/ t[key].type \in Loose

ReadsStayLoose(stack, t) ==
  \A i \in DOMAIN stack : \A j \in DOMAIN stack[i].vals :
    LooseRead(stack[i].vals[j], stack[i].prefix, t)

StaleReadsAreLoose == ReadsStayLoose(frames, table)

(* An extern function may be called with the arguments its declaration     *)
(* lists ("extern function add(a int, b int) -> int", Parser.cpp:560).     *)
ArityAsDeclared ==
  \A f \in DOMAIN table : table[f].isFunction =>
    Len(table[f].argTypes) = Len(table[f].declared)

(* A break outside of a loop is reported (Semantic.cpp:487).               *)
StrayBreaksReported == ~strayBreak

(* A program the analyser printed an error for is not compiled: "Array     *)
(* elements must have the same type." (Semantic.cpp:174).                  *)
ErrorsStopCompilation == status = "done" /\ silent => hasErrors

=============================================================================
