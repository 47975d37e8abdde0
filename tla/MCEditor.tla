------------------------------ MODULE MCEditor ------------------------------
(* A file that is missing or longer than a cluster; files that are empty or *)
(* too large for the pool come from saving.                                 *)
EXTENDS Editor

PrintableKeys == {"i", "x"}

FileSet == { Absent, <<"i", NL>> }
=============================================================================
