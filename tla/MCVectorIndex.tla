--------------------------- MODULE MCVectorIndex ---------------------------
(***************************************************************************)
(* Instances of VectorIndex for TLC: the processes and the reader are      *)
(* model values.                                                           *)
(***************************************************************************)
EXTENDS VectorIndex

CONSTANTS p1, p2, r1
=============================================================================
