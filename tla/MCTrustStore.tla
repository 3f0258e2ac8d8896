---------------------------- MODULE MCTrustStore ----------------------------
(***************************************************************************)
(* TrustStore with two servers, two launch commands and a remote server;   *)
(* the policy denies one command under one name.                           *)
(***************************************************************************)
EXTENDS TrustStore, TLC

CONSTANTS a, b, x, y, url

MCInitial == {[s \in {a, b} |-> IF s = a THEN x ELSE e] : e \in {None, url}}
MCRemotes == {[s \in {a, b} |-> IF s = a THEN y ELSE e] : e \in {x, url}}
MCDenied == {<<b, y>>}
MCSymmetry == Permutations(Procs)

=============================================================================
