------------------------------ MODULE Compiler ------------------------------
(***************************************************************************)
(* The driver of the Sbix compiler (Simbixit.cpp) around the parser: the   *)
(* tree goes to the analyser whatever the parser reported, and to the back *)
(* end unless an error was reported by either.                             *)
(*                                                                         *)
(* Both follow some of the null children of the tree, if they get there:   *)
(* they pass over the nodes below one they give up, and the analyser never *)
(* looks into the entry point.  What else they do is in Semantic and       *)
(* Builder; here they may report an error or crash on a null.              *)
(***************************************************************************)
EXTENDS Parser

VARIABLE stage   \* "parse", "analysed", or how the compilation ended

compilerVars == << vars, stage >>

(* The children the analyser and the back end follow without a check: the  *)
(* operands (Semantic.cpp:114), the value returned (:368), an argument     *)
(* (:417); a node of the top level (builder.cpp:267) or of a loop, the     *)
(* body of a loop (:188, :219) and the value of a declaration (:114).      *)
FollowedByAnalyser == {"operand", "returns", "argument", "condition"}
FollowedByBackEnd == {"node", "if", "for", "body", "value"}

CompilerInit == Init /\ stage = "parse"

Parse == stage = "parse" /\ Parsing /\ Next /\ UNCHANGED stage

AnalyseTree ==
  /\ stage = "parse" /\ status = "done"
  /\ \/ hasErrors' \in {hasErrors, TRUE} /\ stage' = "analysed"
     \/ /\ hasErrors \/ flaw.what \in FollowedByAnalyser
        /\ stage' = "analyserCrashed" /\ UNCHANGED hasErrors
  /\ UNCHANGED << cur, nxt, stack, ret, moved, flaw, lax, fq, status >>

Gate == ~hasErrors

GiveUp == stage = "analysed" /\ ~Gate /\ stage' = "failed" /\ UNCHANGED vars

Generate ==
  /\ stage = "analysed" /\ Gate
  /\ \/ stage' = "complete"
     \/ flaw.what \in FollowedByBackEnd /\ stage' = "backEndCrashed"
  /\ UNCHANGED vars

(* The compilation has ended, if in the parser then not as it should.      *)
Over ==
  /\ stage = "parse" => status \notin {"parsing", "done"}
  /\ stage # "analysed"
  /\ UNCHANGED compilerVars

CompilerNext == Parse \/ AnalyseTree \/ GiveUp \/ Generate \/ Over

CompilerSpec ==
  CompilerInit /\ [][CompilerNext]_compilerVars /\ WF_compilerVars(CompilerNext)

-----------------------------------------------------------------------------
(* Properties.                                                             *)

(* The analyser follows a null only of a program with a syntax error or    *)
(* one that ends in the middle of an expression.                           *)
AnalyserCrashesExplained == stage = "analyserCrashed" => hasErrors \/ flaw.atEnd

(* The back end follows a null only of a program that ends too early, that *)
(* declares a variable without a value, or that has a loop without a block *)
(* or a for with neither '->' nor ':'.                                     *)
BackEndCrashesExplained ==
  stage = "backEndCrashed" => flaw.atEnd \/ flaw.what \in {"value", "body", "for"}

(* A program is compiled only if its brackets match and no error was       *)
(* reported, but for the leniencies of the parser (lax): names that are    *)
(* brackets, an if or a collection at the end of the file, and the header  *)
(* of a for.  No other sequence of calls leaves a bracket open, closes it  *)
(* by another, or goes past one.                                           *)
Holds(point) ==
  CASE point = "block" -> << "lbrace" >>
    [] point \in {"elements", "elementDone", "elementClose"} -> << "lbracket" >>
    [] point \in {"ifClose", "whileClose", "forVar", "forArrow", "forColon", "forTo", "forStep",
                  "forList", "forClose", "params", "paramType", "externParams", "externParam",
                  "externType", "parenClose", "args", "arg"} -> << "lparen" >>
    [] OTHER -> << >>

B == INSTANCE Brackets WITH
       next <- cur,
       open <- FlattenSeq([k \in DOMAIN stack |-> Holds(stack[k].at)]),
       excused <- lax,
       rejected <- hasErrors,
       accepted <- stage = "complete"
CompiledBracketsMatch == B!Match

=============================================================================
