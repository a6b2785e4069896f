-------------------------- MODULE MCOperationLock --------------------------
(***************************************************************************)
(* Instances of OperationLock for TLC.  Clients are interchangeable, and   *)
(* so are volumes.                                                         *)
(***************************************************************************)
EXTENDS OperationLock, TLC

Symmetry == Permutations(Clients) \cup Permutations(Volumes)

=============================================================================
