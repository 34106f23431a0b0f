----------------------------- MODULE MCLibrary ------------------------------
(* The library for TLC: hashes, titles and names are interchangeable.        *)
EXTENDS Library, TLC

Symmetry == Permutations(Hashes) \cup Permutations(Names) \cup Permutations(Titles)
=============================================================================
