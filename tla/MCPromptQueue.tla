---------------------------- MODULE MCPromptQueue ----------------------------
(***************************************************************************)
(* The instance of PromptQueue for model checking.  The prompts differ in  *)
(* nothing but their names.                                                *)
(***************************************************************************)
EXTENDS PromptQueue, TLC

PromptSymmetry == Permutations(Prompts)
=============================================================================
