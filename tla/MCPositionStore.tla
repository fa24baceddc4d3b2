--------------------------- MODULE MCPositionStore ---------------------------
(***************************************************************************)
(* Instances of PositionStore for TLC.                                     *)
(***************************************************************************)
EXTENDS PositionStore, TLC

(* Symbols and clients are interchangeable; prices are ordered. *)
Symmetry == Permutations(Symbols) \cup Permutations(Clients)
=============================================================================
