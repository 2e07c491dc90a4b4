----------------------------- MODULE MCBuilder -----------------------------
(* Small instances of Builder for TLC.                                     *)
EXTENDS Builder
=============================================================================
