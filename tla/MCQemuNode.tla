----------------------------- MODULE MCQemuNode -----------------------------
(***************************************************************************)
(* Instances of QemuNode for TLC.  Claims are named after volumes, each    *)
(* with its own, so volumes are interchangeable, and so are handlers.      *)
(***************************************************************************)
EXTENDS QemuNode, TLC

OwnClaims == [v \in Volumes |-> v]

Symmetry == Permutations(Handlers) \cup Permutations(Volumes)

=============================================================================
