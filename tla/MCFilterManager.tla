--------------------------- MODULE MCFilterManager ---------------------------
(***************************************************************************)
(* Small instances of FilterManager for TLC.                               *)
(***************************************************************************)
EXTENDS FilterManager, TLC

\* Threads and wrapper addresses are interchangeable.
Symmetry == Permutations(Clients) \cup Permutations(Wrappers)

=============================================================================
