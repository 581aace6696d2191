--------------------------- MODULE MCPointOfSale ---------------------------
(* Instances of PointOfSale for TLC. *)
EXTENDS PointOfSale
=============================================================================
