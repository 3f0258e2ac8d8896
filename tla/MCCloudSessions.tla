--------------------------- MODULE MCCloudSessions ---------------------------
(***************************************************************************)
(* CloudSessions with two processes on one machine and a third on another. *)
(***************************************************************************)
EXTENDS CloudSessions

CONSTANTS p1, p2, p3, m1, m2

MCMachineOf == [p \in Procs |-> IF p = p3 THEN m2 ELSE m1]

=============================================================================
