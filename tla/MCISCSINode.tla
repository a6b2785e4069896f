---------------------------- MODULE MCISCSINode ----------------------------
(***************************************************************************)
(* Instances of ISCSINode for TLC.  Claims and targets are named after     *)
(* volumes: every volume has its own, or both are LUNs of one target.      *)
(***************************************************************************)
EXTENDS ISCSINode, TLC

CONSTANTS v1

OwnClaims    == [v \in Volumes |-> v]
OwnTargets   == [v \in Volumes |-> v]
SharedTarget == [v \in Volumes |-> v1]

Symmetry == Permutations(Handlers) \cup Permutations(Devices)

=============================================================================
