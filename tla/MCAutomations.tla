---------------------------- MODULE MCAutomations ----------------------------
(* A small instance of Automations.                                          *)
EXTENDS Automations, TLC

Symmetry == Permutations(Uploader) \cup Permutations(File)
==============================================================================
