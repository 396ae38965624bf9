------------------------------- MODULE MCUndo -------------------------------
(* Instances of Undo for TLC.                                              *)
EXTENDS Undo, TLC

\* The commands differ in nothing but their names.
Symmetry == Permutations(Undos)

AllWorlds == [kind : Kinds, create : BOOLEAN, overwrite : BOOLEAN]
                 \ [kind : {"booking"}, create : {FALSE}, overwrite : BOOLEAN]
=============================================================================
