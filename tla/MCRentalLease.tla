--------------------------- MODULE MCRentalLease ---------------------------
(* Instance of RentalLease for TLC. *)
EXTENDS RentalLease

CONSTANTS j1, j2
=============================================================================
