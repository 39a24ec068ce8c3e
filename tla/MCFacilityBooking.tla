------------------------- MODULE MCFacilityBooking -------------------------
(* Small instances of FacilityBooking. *)
EXTENDS FacilityBooking, TLC

\* Requests differ only in their names.
RequestSymmetry == Permutations(Requests)
=============================================================================
