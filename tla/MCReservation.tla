--------------------------- MODULE MCReservation ---------------------------
(***************************************************************************)
(* Instances of Reservation for TLC: host names, and so keys, differ.      *)
(***************************************************************************)
EXTENDS Reservation, TLC

OwnKeys == [n \in Nodes |-> n]

Symmetry == Permutations(Nodes)

=============================================================================
