----------------------------- MODULE MCCompiler -----------------------------
(* The instance of Compiler for TLC: programs of every kind of token.      *)
EXTENDS Compiler

AllKinds == AllTokens
=============================================================================
