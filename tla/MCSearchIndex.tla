---------------------------- MODULE MCSearchIndex ----------------------------
(* Small instances of SearchIndex for TLC. *)
EXTENDS SearchIndex, TLC

\* The safety runs only: names of one kind, and writers, are interchangeable.
Symmetry ==
    Permutations(Systems) \cup Permutations(Carriers) \cup Permutations(Writers)

=============================================================================
