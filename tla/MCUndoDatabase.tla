--------------------------- MODULE MCUndoDatabase ---------------------------
(* TLC instance of UndoDatabase. *)
EXTENDS UndoDatabase, TLC

(* Contents of objects are only copied and compared with Nothing. *)
ValueSymmetry == Permutations(Values)
=============================================================================
