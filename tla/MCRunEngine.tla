---------------------------- MODULE MCRunEngine ----------------------------
(***************************************************************************)
(* The run engine for TLC: cells are interchangeable.  The symmetry is     *)
(* used only where no temporal property is checked.                        *)
(***************************************************************************)
EXTENDS RunEngine, TLC

CellSymmetry == Permutations(Cells)
=============================================================================
