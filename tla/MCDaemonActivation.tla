------------------------- MODULE MCDaemonActivation -------------------------
(* Instances of DaemonActivation for TLC. *)
EXTENDS DaemonActivation, TLC

DaemonSymmetry == Permutations(Daemons)
=============================================================================
