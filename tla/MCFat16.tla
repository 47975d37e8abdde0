------------------------------- MODULE MCFat16 -------------------------------
(* Small volumes for Fat16. *)
EXTENDS Fat16, TLC

CONSTANTS A, B, C, D

\* Plain files are interchangeable; the subdirectory's name is not.
FileSymmetry == Permutations({A, B, C})
=============================================================================
