-------------------------- MODULE MCServiceConsole --------------------------
(***************************************************************************)
(* ServiceConsole for TLC.  Consoles are alike, and so are processes.      *)
(***************************************************************************)
EXTENDS ServiceConsole, TLC

ServiceSymmetry == Permutations(Console) \union Permutations(Instance)
=============================================================================
