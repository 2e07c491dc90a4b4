------------------------------ MODULE Builder ------------------------------
(***************************************************************************)
(* The C back end of the Sbix compiler (builder.cpp): compile translates   *)
(* the functions and the entry point, transpileStatement their statements, *)
(* and a vector of scopes (allocatedStrings) says which strings the C code *)
(* must free.                                                              *)
(*                                                                         *)
(* Like the analyser, the translation is a walk over a tree; every step    *)
(* picks the next node of a tree that is left open.  Of the C code the     *)
(* model keeps what it frees on each path through the function; a string   *)
(* is named by the number of the node that declares it.  Calling back() or *)
(* pop_back() on an empty vector is undefined: nothing is said of what     *)
(* comes after.                                                            *)
(***************************************************************************)
EXTENDS Integers, FiniteSets, SequencesExt

CONSTANTS
  Statement,  \* kinds of statement the program uses
  Orelse,     \* what follows a then branch: "none", "else" or "elseIf"
  MaxNodes,   \* bound: nodes of the program
  MaxDepth    \* bound: nesting of bodies

ASSUME BuilderAssumption ==
  /\ MaxNodes \in Nat /\ MaxDepth \in Nat
  /\ Orelse \subseteq {"none", "else", "elseIf"}

VARIABLES
  bodies,            \* the bodies being translated, the innermost last
  allocatedStrings,  \* the scopes: sequences of strings to free
  declared,          \* the strings the C code declares
  freed,             \* the strings freed at the end of some body
  paths,             \* the paths through the C function under translation
  left,              \* scopes left so far
  nodes,             \* nodes visited so far
  status             \* "running", "done", "crashed" on a null node or "undefined"

vars == << bodies, allocatedStrings, declared, freed, paths, left, nodes, status >>
strings == << allocatedStrings, declared, freed, left >>

-----------------------------------------------------------------------------
BodyKinds == {"function", "main", "for", "while"}   \* bodies whose statements are translated

Running == status = "running"
In == Last(bodies)
Visit == nodes < MaxNodes /\ nodes' = nodes + 1
AtTop(kind) == Running /\ In = "program" /\ kind \in Statement /\ Visit
AtStatement(kind) == Running /\ In \in BodyKinds /\ kind \in Statement /\ Visit

(* A path: the strings freed along it, in order, and where it goes on: at  *)
(* the present point or, once it has left a body, at the end of that one.  *)
(* A path enters each loop once at most.                                   *)
Here == 0
NewPath == [frees |-> << >>, to |-> Here]
Take(ps, xs, to) ==
  {IF p.to = Here THEN [frees |-> p.frees \o xs, to |-> to] ELSE p : p \in ps}
Skip(ps, body) == ps \cup {[p EXCEPT !.to = body] : p \in {q \in ps : q.to = Here}}
Arrive(ps, body) == {IF p.to = body THEN [p EXCEPT !.to = Here] ELSE p : p \in ps}
Pass(ps, xs, body) ==
  Take({p \in ps : p.to = Here}, xs, body) \cup Arrive({p \in ps : p.to # Here}, body)

Fail(outcome) ==
  /\ status' = outcome
  /\ UNCHANGED << bodies, strings, paths >>

Open(kind) ==
  /\ Len(bodies) < MaxDepth
  /\ bodies' = Append(bodies, kind)

Close == bodies' = Front(bodies)

(* Mutants of LeaveBlock: the strings are not freed; the scope stays.      *)
LeaveBlockUnfreed ==
  /\ allocatedStrings' = Front(allocatedStrings)
  /\ left' = left + 1
  /\ UNCHANGED << freed, declared >>
LeaveBlockStays ==
  /\ freed' = freed \cup ToSet(Last(allocatedStrings))
  /\ left' = left + 1
  /\ UNCHANGED << allocatedStrings, declared >>

(* The strings of the innermost scope are freed and the scope is left.     *)
LeaveBlock ==
  /\ freed' = freed \cup ToSet(Last(allocatedStrings))
  /\ allocatedStrings' = Front(allocatedStrings)
  /\ left' = left + 1
  /\ UNCHANGED declared

(* Mutant: a context without its first scope.                              *)
NoScopes == << >>

(* The scopes of a new TranspileContext.                                   *)
FirstScopes == << << >> >>

Init ==
  /\ bodies = << "program" >>
  /\ allocatedStrings = FirstScopes
  /\ declared = {} /\ freed = {} /\ left = 0
  /\ paths = {NewPath}
  /\ nodes = 0
  /\ status = "running"

-----------------------------------------------------------------------------
(* compile: a function with a block, or the entry point.                   *)
Define(kind) ==
  /\ AtTop(kind)
  /\ Open(kind)
  /\ paths' = {NewPath}
  /\ UNCHANGED << strings, status >>

(* Any other node of the top level gives a prototype at most.              *)
TopLevelNode ==
  /\ AtTop("topLevel")
  /\ UNCHANGED << bodies, strings, paths, status >>

(* A null node, which the parser leaves at the end of a file whose entry   *)
(* point is in braces.                                                     *)
NullNode == AtTop("null") /\ Fail("crashed")

(* Mutant: every variable is registered.                                   *)
RegistersAny(isString) == TRUE
Registers(isString) == isString

(* let: a string is registered in the innermost scope.                     *)
Declare(isString) ==
  /\ AtStatement("let")
  /\ \/ /\ ~Registers(isString)
        /\ UNCHANGED << bodies, strings, paths, status >>
     \/ /\ Registers(isString) /\ allocatedStrings = << >>
        /\ Fail("undefined")
     \/ /\ Registers(isString) /\ allocatedStrings # << >>
        /\ allocatedStrings' = [allocatedStrings EXCEPT ![Len(allocatedStrings)] = Append(@, nodes')]
        /\ declared' = IF isString THEN declared \cup {nodes'} ELSE declared
        /\ UNCHANGED << bodies, freed, paths, left, status >>

(* let with a type and without a value: its expression is null (:114).     *)
DeclareOnly == AtStatement("letOnly") /\ Fail("crashed")

(* A null statement is passed over, but the body of a loop looks at its    *)
(* kind first (:189, :220).                                                *)
NullStatement ==
  /\ AtStatement("null")
  /\ IF In \in {"for", "while"} THEN Fail("crashed") ELSE UNCHANGED << bodies, strings, paths, status >>

(* A loop whose block the parser did not find has a null body (:188, :219).*)
LoopWithoutBody == AtStatement("bodyless") /\ Fail("crashed")

(* A call, a for over a collection (:177) or a statement without a case:   *)
(* no state changes.                                                       *)
OtherStatement ==
  /\ AtStatement("other")
  /\ UNCHANGED << bodies, strings, paths, status >>

(* return: the paths that come here end, and nothing is freed on them.     *)
Return ==
  /\ AtStatement("return")
  /\ paths' = {p \in paths : p.to # Here}
  /\ UNCHANGED << bodies, strings, status >>

(* break: in a for it frees the strings of the innermost scope, which      *)
(* stays, on the way out; in a while it frees none, and anywhere else it   *)
(* has no case.                                                            *)
Break ==
  /\ AtStatement("break")
  /\ \/ In = "for" /\ allocatedStrings = << >> /\ Fail("undefined")
     \/ /\ In = "for" /\ allocatedStrings # << >>
        /\ paths' = Take(paths, Last(allocatedStrings), Len(bodies))
        /\ UNCHANGED << bodies, strings, status >>
     \/ /\ In = "while"
        /\ paths' = Take(paths, << >>, Len(bodies))
        /\ UNCHANGED << bodies, strings, status >>
     \/ In \notin {"for", "while"} /\ UNCHANGED << bodies, strings, paths, status >>

(* if, as a statement or as the else of another.  The block of a branch is *)
(* a node transpileStatement has no case for: its statements are dropped.  *)
If ==
  /\ \/ AtStatement("if") /\ Open("then")
     \/ /\ Running /\ In = "elseIf"
        /\ UNCHANGED nodes
        /\ bodies' = Front(bodies) \o << "else", "then" >>
  /\ paths' = Skip(paths, Len(bodies'))
  /\ UNCHANGED << strings, status >>

(* The paths of a then that has an else pass it, the others go into it.    *)
EndThen(orelse) ==
  /\ Running /\ In = "then"
  /\ IF orelse = "elseIf" THEN Len(bodies) < MaxDepth /\ Visit ELSE UNCHANGED nodes
  /\ IF allocatedStrings = << >>
     THEN Fail("undefined")
     ELSE /\ LeaveBlock
          /\ IF orelse = "none"
             THEN /\ Close
                  /\ paths' = Arrive(Take(paths, Last(allocatedStrings), Here), Len(bodies))
             ELSE /\ bodies' = Append(Front(bodies), orelse)
                  /\ paths' = Pass(paths, Last(allocatedStrings), Len(bodies))
          /\ UNCHANGED status

Loop(kind) ==
  /\ AtStatement(kind)
  /\ Open(kind)
  /\ paths' = Skip(paths, Len(bodies'))
  /\ UNCHANGED << strings, status >>

(* The end of an else and of a for leaves a scope nothing entered.         *)
EndScope ==
  /\ Running /\ In \in {"else", "for"}
  /\ IF allocatedStrings = << >>
     THEN Fail("undefined")
     ELSE /\ LeaveBlock /\ Close
          /\ paths' = Arrive(Take(paths, Last(allocatedStrings), Here), Len(bodies))
          /\ UNCHANGED status
  /\ UNCHANGED nodes

(* The end of a function, of the entry point and of a while leaves none.   *)
EndBody ==
  /\ Running /\ In \in {"function", "main", "while"}
  /\ Close
  /\ paths' = Arrive(paths, Len(bodies))
  /\ UNCHANGED << strings, nodes, status >>

Finish ==
  /\ Running /\ In = "program"
  /\ status' = "done"
  /\ UNCHANGED << bodies, strings, paths, nodes >>

(* The compiler has ended, in whatever way.                                *)
Halted == ~Running /\ UNCHANGED vars

Next ==
  \/ \E kind \in {"function", "main"} : Define(kind)
  \/ TopLevelNode \/ NullNode
  \/ \E isString \in BOOLEAN : Declare(isString)
  \/ DeclareOnly \/ NullStatement \/ LoopWithoutBody
  \/ OtherStatement \/ Return \/ Break
  \/ If
  \/ \E orelse \in Orelse : EndThen(orelse)
  \/ \E kind \in {"for", "while"} : Loop(kind)
  \/ EndScope \/ EndBody
  \/ Finish \/ Halted

Spec == Init /\ [][Next]_vars

-----------------------------------------------------------------------------
(* Properties.                                                             *)

(* The type invariant: only the strings the C code declares are freed, and *)
(* a path that has left a body left one that is still open.                *)
TypeOK ==
  /\ bodies \in Seq(BodyKinds \cup {"program", "then", "else", "elseIf"}) /\ bodies # << >>
  /\ declared \subseteq 1..nodes
  /\ allocatedStrings \in Seq(Seq(declared)) /\ freed \subseteq declared
  /\ \A p \in paths : p.frees \in Seq(declared) /\ p.to \in {Here} \cup 2..Len(bodies)
  /\ left \in Nat /\ nodes \in Nat
  /\ status \in {"running", "done", "crashed", "undefined"}

(* The bookkeeping of strings loses none: a string the C code declares is  *)
(* freed at the end of some body or is still in a scope.                   *)
Pending == UNION {ToSet(allocatedStrings[k]) : k \in DOMAIN allocatedStrings}
NoStringForgotten == declared = freed \cup Pending

(* No path through a C function that enters each loop once at most frees a *)
(* string twice: a break of a for frees strings that stay in the scope, to *)
(* be freed again at the end of a body, but only of bodies the path does   *)
(* not reach.  (A path that goes round a loop again frees again, :200.)    *)
ReleasedOnce ==
  \A p \in paths : \A m, n \in DOMAIN p.frees : p.frees[m] = p.frees[n] => m = n

(* There is one scope to leave: a translation that does not end in         *)
(* undefined behaviour leaves one branch or for at most, and one without   *)
(* any is defined, whatever it declares and however its bodies nest.       *)
OneScopeOnly == left <= 1 /\ (status = "undefined" => left = 1)

(* The if of README.md:44-50, with an else if and an else, is translated.  *)
IfChainDefined == status # "undefined"

=============================================================================
