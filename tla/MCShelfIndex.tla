---------------------------- MODULE MCShelfIndex ----------------------------
(* The instances of ShelfIndex that TLC checks; books are alike. *)
EXTENDS ShelfIndex, TLC

Symmetry == Permutations(Book)

=============================================================================
