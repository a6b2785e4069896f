--------------------------- MODULE OperationLock ---------------------------
(***************************************************************************)
(* pkg/utils/lock/idlocker.go, type OperationLock: locks on volume IDs     *)
(* with a kind of operation each.  Some kinds exclude each other, others   *)
(* may run in parallel and are counted.  Every method runs entirely under  *)
(* ol.mux, so each is one atomic action on "locks".                        *)
(*                                                                         *)
(* The repository has no caller yet.  A caller is taken to be a goroutine  *)
(* that gets one lock, does its work and releases what it got.             *)
(***************************************************************************)
EXTENDS Naturals, FiniteSets

CONSTANTS
  Volumes,        \* volume IDs
  Clients,        \* goroutines that take locks
  NoHold,         \* a client that holds nothing
  Serialised      \* operations that callers run one at a time on a volume, by
                  \*   other means such as VolumeLocks

operations == {"create", "delete", "clone", "restore", "expand"}

Holds == [op : operations, vol : Volumes]

ASSUME OperationAssumption ==
  /\ IsFiniteSet(Clients)
  /\ NoHold \notin Holds
  /\ Serialised \subseteq operations

VARIABLES
  locks,          \* OperationLock.locks: for each operation a map of counters
  held            \* the lock each client holds, and has to release

vars == <<locks, held>>

-----------------------------------------------------------------------------
(* The maps: an ID is in the domain exactly while the Go map has its key. *)

Has(op, v)   == v \in DOMAIN locks[op]
Count(op, v) == IF Has(op, v) THEN locks[op][v] ELSE 0

Put(op, v, n) ==
  locks' = [locks EXCEPT ![op] =
             [w \in DOMAIN locks[op] \cup {v} |-> IF w = v THEN n ELSE locks[op][w]]]

Delete(op, v) ==
  locks' = [locks EXCEPT ![op] = [w \in DOMAIN locks[op] \ {v} |-> locks[op][w]]]

Holders(op, v) == {c \in Clients : held[c] = [op |-> op, vol |-> v]}

-----------------------------------------------------------------------------
(* A slip in tryAcquire: delete does not look for a restore. *)
CheckedWithoutRestore(op) ==
  CASE op = "create"  -> {}
    [] op = "clone"   -> {"expand"}
    [] op = "delete"  -> {"expand"}
    [] op = "restore" -> {"delete"}
    [] op = "expand"  -> {"delete", "clone", "create"}

(* A slip in tryAcquire: expand does not look for a create. *)
CheckedWithoutCreate(op) ==
  CASE op = "create"  -> {}
    [] op = "clone"   -> {"expand"}
    [] op = "delete"  -> {"expand", "restore"}
    [] op = "restore" -> {"delete"}
    [] op = "expand"  -> {"delete", "clone"}

(* The operations tryAcquire looks for before it lets op in. *)
Checked(op) ==
  CASE op = "create"  -> {}
    [] op = "clone"   -> {"expand"}
    [] op = "delete"  -> {"expand", "restore"}
    [] op = "restore" -> {"delete"}
    [] op = "expand"  -> {"delete", "clone", "create"}

(* Operations of which tryAcquire counts the holders. *)
Counted == {"create", "clone", "restore"}

(* A slip in tryAcquire: the counter is set where it has to be increased. *)
tryAcquireUncounted(c, op, v) ==
  /\ \A other \in Checked(op) : ~ Has(other, v)
  /\ Put(op, v, 1)
  /\ held' = [held EXCEPT ![c] = [op |-> op, vol |-> v]]

(* tryAcquire that returns nil: Get...Lock of each operation. *)
tryAcquire(c, op, v) ==
  /\ \A other \in Checked(op) : ~ Has(other, v)
  /\ Put(op, v, IF op \in Counted THEN Count(op, v) + 1 ELSE 1)
  /\ held' = [held EXCEPT ![c] = [op |-> op, vol |-> v]]

(* tryAcquire that returns an error: a conflicting operation exists. *)
Refused(op, v) ==
  /\ \E other \in Checked(op) : Has(other, v)
  /\ UNCHANGED vars

(* A slip in release: the key stays in the map when its counter is zero. *)
releaseKeepingKey(c, op, v) ==
  /\ IF Has(op, v) THEN Put(op, v, locks[op][v] - 1) ELSE UNCHANGED locks
  /\ held' = [held EXCEPT ![c] = NoHold]

(* release: Release...Lock of each operation. *)
release(c, op, v) ==
  /\ IF Has(op, v)
       THEN IF locks[op][v] = 1 THEN Delete(op, v)
                                ELSE Put(op, v, locks[op][v] - 1)
       ELSE UNCHANGED locks
  /\ held' = [held EXCEPT ![c] = NoHold]

-----------------------------------------------------------------------------
(* NewOperationLock *)
Init ==
  /\ locks = [op \in operations |-> [v \in {} |-> 0]]
  /\ held  = [c \in Clients |-> NoHold]

Get(c, op, v) ==
  /\ held[c] = NoHold
  /\ op \in Serialised => Holders(op, v) = {}
  /\ tryAcquire(c, op, v) \/ Refused(op, v)

Release(c) ==
  /\ held[c] # NoHold
  /\ release(c, held[c].op, held[c].vol)

Next ==
  \E c \in Clients :
    \/ \E op \in operations, v \in Volumes : Get(c, op, v)
    \/ Release(c)

Spec == Init /\ [][Next]_vars

-----------------------------------------------------------------------------
(* Properties *)

(* A key that is in a map has a positive counter, and no more than there   *)
(* can be clients.                                                         *)
TypeOK ==
  /\ DOMAIN locks = operations
  /\ \A op \in operations :
       /\ DOMAIN locks[op] \subseteq Volumes
       /\ \A v \in DOMAIN locks[op] : locks[op][v] \in 1 .. Cardinality(Clients)
  /\ held \in [Clients -> Holds \cup {NoHold}]

Together(op, other, v) == Holders(op, v) # {} /\ Holders(other, v) # {}

(* No key outlives its holders, whoever overlaps with whom: once everybody *)
(* has released, no later operation is refused for ever.                   *)
NoOrphanLock ==
  \A op \in operations, v \in Volumes : Has(op, v) => Holders(op, v) # {}

(* Parallel operations are counted right, in whatever order they come and  *)
(* go: the key disappears with the last holder and not before.             *)
CountersMatch ==
  \A op \in operations \ {"delete", "expand"}, v \in Volumes :
    Count(op, v) = Cardinality(Holders(op, v))

(* When callers serialise deletes and expands, a delete is never under way *)
(* together with a restore or an expand, nor an expand with a clone.       *)
ConflictsExcluded ==
  \A v \in Volumes :
    /\ ~ Together("delete", "restore", v)
    /\ ~ Together("delete", "expand", v)
    /\ ~ Together("expand", "clone", v)

Starts(op, v) == ~ (Holders(op, v)' \subseteq Holders(op, v))
NobodyHolds(ops, v) == \A op \in ops : Holders(op, v) = {}

(* The other half of the conflicts, those that hold one way only included: *)
(* an expand never starts while a create, a clone or a delete is under     *)
(* way, although a create may start during an expand.  However many        *)
(* creates and clones came and went, the lock of one of them is found.     *)
ConflictsRefused ==
  [][\A v \in Volumes :
       /\ Starts("expand", v)  => NobodyHolds({"create", "clone", "delete"}, v)
       /\ Starts("delete", v)  => NobodyHolds({"expand", "restore"}, v)
       /\ Starts("restore", v) => NobodyHolds({"delete"}, v)
       /\ Starts("clone", v)   => NobodyHolds({"expand"}, v)]_vars

(* GetRestoreLock "ensures that there is no delete operation on given      *)
(* volumeID" while the restore is under way.                               *)
RestoreMeansNoDelete == \A v \in Volumes : ~ Together("restore", "delete", v)

=============================================================================
