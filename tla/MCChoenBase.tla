---------------------------- MODULE MCChoenBase ----------------------------
(* A small instance of ChoenBase: two processes that read and write through *)
(* two files.                                                               *)
EXTENDS ChoenBase, TLC

CONSTANTS p1, p2, f1, f2

\* Processes are interchangeable, and so are files that allow the same.
Symmetry == Permutations({p1, p2}) \cup Permutations({f1, f2})
=============================================================================
