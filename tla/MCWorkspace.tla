---------------------------- MODULE MCWorkspace ----------------------------
(* A project with a main document and one more path.                         *)
EXTENDS Workspace, TLC
CONSTANTS text1, text2
MCSymmetry == Permutations({text1, text2})
=============================================================================
