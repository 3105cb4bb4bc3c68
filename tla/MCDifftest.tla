----------------------------- MODULE MCDifftest -----------------------------
(***************************************************************************)
(* Difftest for TLC, on the instance of MCVTop: the first two doublewords  *)
(* of memory are device registers, the other two RAM.                      *)
(***************************************************************************)
EXTENDS Difftest, MCVTop
=============================================================================
