------------------------------- MODULE MCProbe -------------------------------
(***************************************************************************)
(* Probe with two servers; the first reference stands in both.             *)
(***************************************************************************)
EXTENDS Probe

CONSTANTS r1, r2

MCPlaces == <<r1, r2, r1>>

=============================================================================
