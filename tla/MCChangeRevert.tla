---------------------------- MODULE MCChangeRevert -----------------------------
(* ChangeRevert for TLC.  Files and texts are interchangeable, and only       *)
(* safety is checked, so both are symmetric.                                  *)
EXTENDS ChangeRevert, TLC

Symmetry == Permutations(Paths) \cup Permutations(Texts)
===============================================================================
