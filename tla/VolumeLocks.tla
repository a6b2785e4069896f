---------------------------- MODULE VolumeLocks ----------------------------
(***************************************************************************)
(* pkg/utils/lock/idlocker.go, type VolumeLocks: the set of volume IDs     *)
(* with an ongoing operation.  Each method runs entirely under vl.mux, so  *)
(* each is one atomic action on "locks".                                   *)
(***************************************************************************)
CONSTANT Volumes        \* the volume IDs (PV names) requests may carry

VARIABLE locks          \* VolumeLocks.locks, a sets.String

LocksTypeOK == locks \subseteq Volumes

(* NewVolumeLocks: the set starts empty, and is rebuilt empty by a restart. *)
NewVolumeLocks == {}

(* A slip in TryAcquire: the membership test is forgotten. *)
TryAcquireWithoutHas(v) == locks' = locks \cup {v}

(* TryAcquire(v) returning true. *)
TryAcquire(v) ==
  /\ v \notin locks
  /\ locks' = locks \cup {v}

(* TryAcquire(v) returning false: another operation is using v. *)
AcquireDenied(v) ==
  /\ v \in locks
  /\ UNCHANGED locks

(* Release(v), which every handler that acquired v defers. *)
Release(v) == locks' = locks \ {v}

=============================================================================
