---------------------------- MODULE MCRowEditing ----------------------------
(* Two rows, any panel of their table, two values, two saves, one change of panel. *)
EXTENDS RowEditing, TLC

RowSymmetry == Permutations(Rows)
=============================================================================
