------------------------ MODULE OperationLockProofs ------------------------
(***************************************************************************)
(* Theorems about OperationLock, for every number of clients and volumes.  *)
(* The counters of create, clone and restore are the numbers of holders;   *)
(* the keys of delete and expand have a holder, but may be missing for one *)
(* unless callers serialise them.                                          *)
(***************************************************************************)
EXTENDS OperationLock, FiniteSetTheorems, TLAPS

LocksType ==
  /\ DOMAIN locks = operations
  /\ \A op \in operations :
       /\ locks[op] = [v \in DOMAIN locks[op] |-> locks[op][v]]
       /\ DOMAIN locks[op] \subseteq Volumes
  /\ locks = [op \in operations |-> locks[op]]

HeldType == held \in [Clients -> Holds \cup {NoHold}]

(* The key of an operation and volume is right for those who hold it. *)
KeyOK(op, v) ==
  IF op \in Counted
    THEN /\ Count(op, v) = Cardinality(Holders(op, v))
         /\ Has(op, v) <=> Holders(op, v) # {}
    ELSE Has(op, v) => Holders(op, v) # {} /\ locks[op][v] = 1

KeysInv ==
  /\ LocksType
  /\ HeldType
  /\ \A op \in operations, v \in Volumes : KeyOK(op, v)

-----------------------------------------------------------------------------
(* Holders *)

LEMMA HoldersFinite ==
  ASSUME NEW op, NEW v
  PROVE  /\ IsFiniteSet(Holders(op, v))
         /\ Cardinality(Holders(op, v)) \in 0 .. Cardinality(Clients)
<1>1. Holders(op, v) \subseteq Clients
  BY DEF Holders
<1> QED
  BY <1>1, FS_Subset, FS_CardinalityType, OperationAssumption, SMTT(20)
     DEF OperationAssumption

Joins(c, op, v)  == held[c] = NoHold /\ held' = [held EXCEPT ![c] = [op |-> op, vol |-> v]]
Leaves(c, op, v) == held[c] = [op |-> op, vol |-> v] /\ held' = [held EXCEPT ![c] = NoHold]

(* A client joins or leaves the holders of one lock and of no other. *)
LEMMA HoldersGet ==
  ASSUME HeldType, NEW c \in Clients, NEW op \in operations, NEW v \in Volumes,
         Joins(c, op, v), NEW o \in operations, NEW w \in Volumes
  PROVE  /\ c \notin Holders(o, w)
         /\ Holders(o, w)' = IF o = op /\ w = v THEN Holders(o, w) \cup {c}
                                                ELSE Holders(o, w)
<1>1. NoHold # [op |-> o, vol |-> w]
  BY OperationAssumption DEF Holds
<1> QED BY <1>1 DEF Holders, HeldType, Joins, Leaves

LEMMA HoldersRelease ==
  ASSUME HeldType, NEW c \in Clients, NEW op \in operations, NEW v \in Volumes,
         Leaves(c, op, v), NEW o \in operations, NEW w \in Volumes
  PROVE  /\ c \in Holders(op, v)
         /\ Holders(o, w)' = IF o = op /\ w = v THEN Holders(o, w) \ {c}
                                                ELSE Holders(o, w)
<1>1. NoHold # [op |-> o, vol |-> w]
  BY OperationAssumption DEF Holds
<1> QED BY <1>1 DEF Holders, HeldType, Joins, Leaves

(* A client that holds something holds an operation on a volume. *)
LEMMA HeldParts ==
  ASSUME HeldType, NEW c \in Clients, held[c] # NoHold
  PROVE  /\ held[c].op \in operations /\ held[c].vol \in Volumes
         /\ held[c] = [op |-> held[c].op, vol |-> held[c].vol]
<1>1. held[c] \in Holds
  BY DEF HeldType
<1> QED BY <1>1 DEF Holds

-----------------------------------------------------------------------------
(* The maps *)

LEMMA PutKey ==
  ASSUME LocksType, NEW op \in operations, NEW v \in Volumes, NEW n, Put(op, v, n)
  PROVE  /\ LocksType'
         /\ Has(op, v)' /\ Count(op, v)' = n /\ locks'[op][v] = n
         /\ \A o \in operations, w \in Volumes : (o # op \/ w # v) =>
              /\ Has(o, w)' <=> Has(o, w)
              /\ Count(o, w)' = Count(o, w)
              /\ Has(o, w) => locks'[o][w] = locks[o][w]
BY DEF LocksType, Put, Has, Count

LEMMA DeleteKey ==
  ASSUME LocksType, NEW op \in operations, NEW v \in Volumes, Delete(op, v)
  PROVE  /\ LocksType'
         /\ ~ Has(op, v)' /\ Count(op, v)' = 0
         /\ \A o \in operations, w \in Volumes : (o # op \/ w # v) =>
              /\ Has(o, w)' <=> Has(o, w)
              /\ Count(o, w)' = Count(o, w)
              /\ Has(o, w) => locks'[o][w] = locks[o][w]
BY DEF LocksType, Delete, Has, Count

(* Keys and holders of another operation or volume are still right. *)
LEMMA KeyStays ==
  ASSUME NEW o, NEW w, KeyOK(o, w), Holders(o, w)' = Holders(o, w),
         Has(o, w)' <=> Has(o, w), Count(o, w)' = Count(o, w),
         Has(o, w) => locks'[o][w] = locks[o][w]
  PROVE  KeyOK(o, w)'
BY DEF KeyOK

-----------------------------------------------------------------------------
LEMMA GetKeys ==
  ASSUME KeysInv, NEW c \in Clients, held[c] = NoHold,
         NEW op \in operations, NEW v \in Volumes, tryAcquire(c, op, v)
  PROVE  KeysInv'
<1> DEFINE n == IF op \in Counted THEN Count(op, v) + 1 ELSE 1
<1>0. HeldType
  BY DEF KeysInv
<1>1. Put(op, v, n) /\ Joins(c, op, v)
  BY DEF tryAcquire, Joins
<1>2. LocksType' /\ HeldType'
  BY <1>1, PutKey DEF KeysInv, HeldType, Holds, Joins
<1>3. /\ Holders(op, v)' = Holders(op, v) \cup {c}
      /\ c \notin Holders(op, v)
  BY <1>0, <1>1, HoldersGet
<1>4. KeyOK(op, v)'
  <2>1. Has(op, v)' /\ Count(op, v)' = n /\ locks'[op][v] = n
    BY <1>1, PutKey DEF KeysInv
  <2>2. Cardinality(Holders(op, v) \cup {c}) = Cardinality(Holders(op, v)) + 1
    BY <1>3, HoldersFinite, FS_AddElement
  <2>3. op \in Counted => Count(op, v) = Cardinality(Holders(op, v))
    BY DEF KeysInv, KeyOK
  <2> QED BY <1>3, <2>1, <2>2, <2>3 DEF KeyOK
<1>5. ASSUME NEW o \in operations, NEW w \in Volumes, (o # op \/ w # v)
      PROVE  KeyOK(o, w)'
  <2>1. Holders(o, w)' = Holders(o, w)
    BY <1>0, <1>1, <1>5, HoldersGet
  <2>2. /\ Has(o, w)' <=> Has(o, w)
        /\ Count(o, w)' = Count(o, w)
        /\ Has(o, w) => locks'[o][w] = locks[o][w]
    BY <1>1, <1>5, PutKey DEF KeysInv
  <2> QED BY <2>1, <2>2, KeyStays DEF KeysInv
<1> QED BY <1>2, <1>4, <1>5 DEF KeysInv

LEMMA ReleaseKeys ==
  ASSUME KeysInv, NEW c \in Clients, NEW op \in operations, NEW v \in Volumes,
         held[c] = [op |-> op, vol |-> v], release(c, op, v)
  PROVE  KeysInv'
<1>1. HeldType /\ Leaves(c, op, v)
  BY DEF release, Leaves, KeysInv
<1>2. /\ Holders(op, v)' = Holders(op, v) \ {c}
      /\ c \in Holders(op, v)
      /\ KeyOK(op, v)
      /\ \A o \in operations, w \in Volumes :
           (o # op \/ w # v) => Holders(o, w)' = Holders(o, w)
  <2>1. ASSUME NEW o \in operations, NEW w \in Volumes
        PROVE  /\ c \in Holders(op, v)
               /\ Holders(o, w)' = IF o = op /\ w = v THEN Holders(o, w) \ {c}
                                                     ELSE Holders(o, w)
    BY <1>1, HoldersRelease
  <2> QED BY <2>1 DEF KeysInv
<1>3. Cardinality(Holders(op, v) \ {c}) = Cardinality(Holders(op, v)) - 1
  BY <1>2, HoldersFinite, FS_RemoveElement
<1>4. Cardinality(Holders(op, v)) \in Nat
  BY HoldersFinite
<1>5. Holders(op, v) \ {c} = {} <=> Cardinality(Holders(op, v)) = 1
  <2>1. IsFiniteSet(Holders(op, v) \ {c})
    BY HoldersFinite, FS_RemoveElement
  <2>2. Cardinality(Holders(op, v) \ {c}) = 0 <=> Holders(op, v) \ {c} = {}
    BY <2>1, FS_EmptySet
  <2> QED BY <1>3, <1>4, <2>2
<1>6. /\ LocksType'
      /\ KeyOK(op, v)'
      /\ \A o \in operations, w \in Volumes : (o # op \/ w # v) =>
           /\ Has(o, w)' <=> Has(o, w)
           /\ Count(o, w)' = Count(o, w)
           /\ Has(o, w) => locks'[o][w] = locks[o][w]
  <2>1. CASE ~ Has(op, v)
    <3>1. op \notin Counted /\ UNCHANGED locks
      BY <1>2, <2>1 DEF KeyOK, release
    <3>2. LocksType' /\ KeyOK(op, v)'
      BY <2>1, <3>1 DEF KeyOK, KeysInv, LocksType, Has
    <3> QED BY <3>1, <3>2 DEF Has, Count
  <2>2. CASE Has(op, v) /\ locks[op][v] = 1
    <3>1. Delete(op, v)
      BY <2>2 DEF release
    <3>2. op \in Counted => Cardinality(Holders(op, v)) = 1
      BY <1>2, <2>2 DEF KeyOK, Count
    <3>3. op \in Counted => /\ Holders(op, v)' = {}
                            /\ Cardinality(Holders(op, v)') = 0
      BY <1>2, <1>3, <1>5, <3>2
    <3>4. KeyOK(op, v)'
      BY <3>1, <3>3, DeleteKey DEF KeyOK, KeysInv
    <3> QED BY <3>1, <3>4, DeleteKey DEF KeysInv
  <2>3. CASE Has(op, v) /\ locks[op][v] # 1
    <3>1. op \in Counted /\ locks[op][v] = Cardinality(Holders(op, v))
      BY <1>2, <2>3 DEF KeyOK, Count
    <3>2. Put(op, v, Cardinality(Holders(op, v)) - 1)
      BY <2>3, <3>1 DEF release
    <3>3. Holders(op, v)' # {}
      BY <1>2, <1>5, <2>3, <3>1
    <3>4. KeyOK(op, v)'
      BY <1>2, <1>3, <3>1, <3>2, <3>3, PutKey DEF KeyOK, KeysInv
    <3> QED BY <3>2, <3>4, PutKey DEF KeysInv
  <2> QED BY <2>1, <2>2, <2>3
<1>7. HeldType'
  BY <1>1 DEF Leaves, HeldType
<1>8. ASSUME NEW o \in operations, NEW w \in Volumes, (o # op \/ w # v)
      PROVE  KeyOK(o, w)'
  BY <1>2, <1>6, <1>8, KeyStays DEF KeysInv
<1> QED BY <1>6, <1>7, <1>8 DEF KeysInv

LEMMA KeysCorrect == Spec => []KeysInv
<1>1. Init => KeysInv
  <2> SUFFICES ASSUME Init PROVE KeysInv
    OBVIOUS
  <2>1. LocksType /\ HeldType
    BY DEF Init, LocksType, HeldType
  <2>2. ASSUME NEW op \in operations, NEW v \in Volumes PROVE KeyOK(op, v)
    <3>1. Holders(op, v) = {}
      BY OperationAssumption DEF Init, Holders, Holds
    <3>2. ~ Has(op, v)
      BY DEF Init, Has
    <3> QED BY <3>1, <3>2, FS_EmptySet DEF KeyOK, Count
  <2> QED BY <2>1, <2>2 DEF KeysInv
<1>2. ASSUME KeysInv, [Next]_vars PROVE KeysInv'
  <2>1. CASE UNCHANGED vars
    <3>1. LocksType' /\ HeldType'
      BY <1>2, <2>1 DEF vars, KeysInv, LocksType, HeldType
    <3>2. \A o \in operations, w \in Volumes : KeyOK(o, w)'
      BY <1>2, <2>1, KeyStays DEF vars, KeysInv, Has, Count, Holders
    <3> QED BY <3>1, <3>2 DEF KeysInv
  <2>2. ASSUME NEW c \in Clients, NEW op \in operations, NEW v \in Volumes,
               Get(c, op, v)
        PROVE  KeysInv'
    BY <1>2, <2>1, <2>2, GetKeys DEF Get, Refused
  <2>3. ASSUME NEW c \in Clients, Release(c) PROVE KeysInv'
    BY <1>2, <2>3, HeldParts, ReleaseKeys DEF Release, KeysInv
  <2> QED BY <1>2, <2>1, <2>2, <2>3 DEF Next
<1> QED BY <1>1, <1>2, PTL DEF Spec

(* No key outlives its holders, whatever callers do at the same time. *)
THEOREM NoOrphanLockHolds == Spec => []NoOrphanLock
<1>1. KeysInv => NoOrphanLock
  BY DEF KeysInv, KeyOK, NoOrphanLock
<1> QED BY <1>1, KeysCorrect, PTL

(* The counters of operations that may run in parallel are exact. *)
THEOREM CountersMatchHolds == Spec => []CountersMatch
<1>1. KeysInv => CountersMatch
  BY DEF KeysInv, KeyOK, CountersMatch, Counted, operations
<1> QED BY <1>1, KeysCorrect, PTL

(* The maps and the clients always have the values the code can give them. *)
THEOREM TypeCorrect == Spec => []TypeOK
<1>1. ASSUME KeysInv, NEW op \in operations, NEW v \in DOMAIN locks[op]
      PROVE  locks[op][v] \in 1 .. Cardinality(Clients)
  <2>1. v \in Volumes /\ Has(op, v) /\ KeyOK(op, v) /\ Holders(op, v) # {}
    BY <1>1 DEF KeysInv, LocksType, Has, KeyOK
  <2>2. /\ Cardinality(Holders(op, v)) \in 0 .. Cardinality(Clients)
        /\ Cardinality(Holders(op, v)) # 0
        /\ Cardinality(Clients) \in Nat
    BY <2>1, HoldersFinite, FS_EmptySet, FS_CardinalityType, OperationAssumption
  <2>3. locks[op][v] \in {1, Cardinality(Holders(op, v))}
    BY <2>1 DEF KeyOK, Count
  <2> QED BY <2>2, <2>3
<1>2. KeysInv => TypeOK
  BY <1>1 DEF KeysInv, LocksType, HeldType, TypeOK
<1> QED BY <1>2, KeysCorrect, PTL

-----------------------------------------------------------------------------
(* Conflicts.  The key of an operation that is counted, or that callers    *)
(* serialise, stays until its last holder releases it; of any other it     *)
(* goes with the first release.                                            *)
Exact == Counted \cup Serialised

(* Two operations that look for each other. *)
Exclusive(o, p) == o \in operations /\ o \in Checked(p) /\ p \in Checked(o)

ExclusionInv ==
  \A o, p \in Exact : Exclusive(o, p) => \A v \in Volumes : ~ Together(o, p, v)

AloneInv ==
  /\ \A op \in Serialised \ Counted, v \in Volumes :
       /\ Holders(op, v) # {} => Has(op, v)
       /\ \A c, d \in Holders(op, v) : c = d
  /\ ExclusionInv

LEMMA OperationSets ==
  /\ Counted \subseteq operations
  /\ Serialised \subseteq operations
  /\ \A o \in operations : Checked(o) \subseteq operations \ {o}
BY OperationAssumption DEF Counted, operations, Checked

(* tryAcquire finds every holder of an operation it looks for. *)
LEMMA CheckedFound ==
  ASSUME KeysInv, AloneInv, NEW o \in Exact, NEW v \in Volumes, ~ Has(o, v)
  PROVE  Holders(o, v) = {}
BY OperationSets DEF KeysInv, AloneInv, KeyOK, Exact

LEMMA GetAlone ==
  ASSUME KeysInv, AloneInv, NEW c \in Clients, held[c] = NoHold,
         NEW op \in operations, NEW v \in Volumes,
         op \in Serialised => Holders(op, v) = {}, tryAcquire(c, op, v)
  PROVE  AloneInv'
<1> DEFINE n == IF op \in Counted THEN Count(op, v) + 1 ELSE 1
<1>1. HeldType /\ LocksType /\ Put(op, v, n) /\ Joins(c, op, v)
  BY DEF tryAcquire, Joins, KeysInv
<1>2. ASSUME NEW o \in operations, NEW w \in Volumes
      PROVE  Holders(o, w)' = IF o = op /\ w = v THEN Holders(o, w) \cup {c}
                                                 ELSE Holders(o, w)
  BY <1>1, HoldersGet
<1>3. ASSUME NEW o \in operations, NEW w \in Volumes
      PROVE  Has(o, w)' <=> Has(o, w) \/ (o = op /\ w = v)
  BY <1>1, PutKey
<1>4. \A o \in Checked(op) \cap Exact : Holders(o, v) = {}
  BY CheckedFound DEF tryAcquire
<1>5. ASSUME NEW o \in Serialised \ Counted, NEW w \in Volumes
      PROVE  /\ Holders(o, w)' # {} => Has(o, w)'
             /\ \A d, e \in Holders(o, w)' : d = e
  BY <1>2, <1>3, OperationSets DEF AloneInv
<1>6. ASSUME NEW o \in Exact, NEW p \in Exact, Exclusive(o, p), NEW w \in Volumes
      PROVE  ~ Together(o, p, w)'
  <2>1. o \in operations /\ p \in operations /\ o # p
    BY <1>6, OperationSets DEF Exclusive
  <2>2. ~ Together(o, p, w)
    BY <1>6 DEF AloneInv, ExclusionInv
  <2>3. CASE w # v \/ op \notin {o, p}
    BY <1>2, <2>1, <2>2, <2>3 DEF Together
  <2>4. CASE w = v /\ op \in {o, p}
    BY <1>2, <1>4, <1>6, <2>1, <2>4 DEF Together, Exclusive
  <2> QED BY <2>3, <2>4
<1> QED BY <1>5, <1>6 DEF AloneInv, ExclusionInv

LEMMA ReleaseAlone ==
  ASSUME KeysInv, AloneInv, NEW c \in Clients, NEW op \in operations,
         NEW v \in Volumes, held[c] = [op |-> op, vol |-> v], release(c, op, v)
  PROVE  AloneInv'
<1>1. HeldType /\ LocksType /\ Leaves(c, op, v)
  BY DEF release, Leaves, KeysInv
<1>2. ASSUME NEW o \in operations, NEW w \in Volumes
      PROVE  /\ c \in Holders(op, v)
             /\ Holders(o, w)' = IF o = op /\ w = v THEN Holders(o, w) \ {c}
                                                    ELSE Holders(o, w)
  BY <1>1, HoldersRelease
<1>3. ASSUME NEW o \in operations, NEW w \in Volumes, o # op \/ w # v
      PROVE  Has(o, w)' <=> Has(o, w)
  <2>1. CASE Delete(op, v)
    BY <1>1, <1>3, <2>1, DeleteKey
  <2>2. CASE \E n : Put(op, v, n)
    BY <1>1, <1>3, <2>2, PutKey
  <2>3. CASE UNCHANGED locks
    BY <2>3 DEF Has
  <2> QED BY <2>1, <2>2, <2>3 DEF release
<1>4. ASSUME NEW o \in Serialised \ Counted, NEW w \in Volumes
      PROVE  /\ Holders(o, w)' # {} => Has(o, w)'
             /\ \A d, e \in Holders(o, w)' : d = e
  <2>1. CASE o = op /\ w = v
    BY <1>2, <2>1 DEF AloneInv
  <2>2. CASE o # op \/ w # v
    BY <1>2, <1>3, <2>2, OperationSets DEF AloneInv
  <2> QED BY <2>1, <2>2
<1>5. ASSUME NEW o \in Exact, NEW p \in Exact, Exclusive(o, p), NEW w \in Volumes
      PROVE  ~ Together(o, p, w)'
  BY <1>2, <1>5, OperationSets DEF AloneInv, ExclusionInv, Together, Exclusive
<1> QED BY <1>4, <1>5 DEF AloneInv, ExclusionInv

LEMMA Alone == Spec => []AloneInv
<1>1. Init => AloneInv
  <2> SUFFICES ASSUME Init PROVE AloneInv
    OBVIOUS
  <2>1. ASSUME NEW op \in operations, NEW v \in Volumes PROVE Holders(op, v) = {}
    BY OperationAssumption DEF Init, Holders, Holds
  <2> QED BY <2>1, OperationSets DEF AloneInv, ExclusionInv, Together, Exclusive
<1>2. ASSUME KeysInv, AloneInv, [Next]_vars PROVE AloneInv'
  <2>1. CASE UNCHANGED vars
    <3>1. \A o, w : /\ Has(o, w)' <=> Has(o, w)
                    /\ Holders(o, w)' = Holders(o, w)
      BY <2>1 DEF vars, Has, Holders
    <3>2. ExclusionInv'
      BY <1>2, <3>1 DEF AloneInv, ExclusionInv, Together
    <3> QED BY <1>2, <3>1, <3>2 DEF AloneInv
  <2>2. ASSUME NEW c \in Clients, NEW op \in operations, NEW v \in Volumes,
               Get(c, op, v)
        PROVE  AloneInv'
    BY <1>2, <2>1, <2>2, GetAlone DEF Get, Refused
  <2>3. ASSUME NEW c \in Clients, Release(c) PROVE AloneInv'
    BY <1>2, <2>3, HeldParts, ReleaseAlone DEF Release, KeysInv
  <2> QED BY <1>2, <2>1, <2>2, <2>3 DEF Next
<1> QED BY <1>1, <1>2, KeysCorrect, PTL DEF Spec

(* A release adds to no holders. *)
LEMMA ReleaseStartsNone ==
  ASSUME HeldType, NEW c \in Clients, Release(c),
         NEW p \in operations, NEW v \in Volumes
  PROVE  ~ Starts(p, v)
<1>1. PICK op \in operations, w \in Volumes : Leaves(c, op, w)
  BY HeldParts DEF Release, release, Leaves
<1>2. Holders(p, v)' \subseteq Holders(p, v)
  BY <1>1, HoldersRelease
<1> QED BY <1>2 DEF Starts

(* An operation that is counted, or that callers serialise, is found by    *)
(* every operation that looks for it: none of those starts while it is     *)
(* under way, whether it looks for them too or not.  An operation that is  *)
(* neither loses its key with the release of a second holder.              *)
THEOREM Exclusion ==
  Spec => [][\A o \in Exact, p \in operations, v \in Volumes :
               o \in Checked(p) /\ Starts(p, v) => Holders(o, v) = {}]_vars
<1> DEFINE Excluded == \A o \in Exact, p \in operations, v \in Volumes :
                         o \in Checked(p) /\ Starts(p, v) => Holders(o, v) = {}
<1>1. ASSUME KeysInv, AloneInv, [Next]_vars PROVE [Excluded]_vars
  <2> SUFFICES ASSUME Next,
                      NEW o \in Exact, NEW p \in operations, NEW v \in Volumes,
                      o \in Checked(p), Starts(p, v)
               PROVE  Holders(o, v) = {}
    BY <1>1
  <2>0. HeldType
    BY <1>1 DEF KeysInv
  <2>1. PICK c \in Clients, op \in operations, w \in Volumes : Get(c, op, w)
    BY <2>0, ReleaseStartsNone DEF Next
  <2>2. tryAcquire(c, op, w)
    <3>1. UNCHANGED vars => Holders(p, v)' = Holders(p, v)
      BY DEF vars, Holders
    <3> QED BY <2>1, <3>1 DEF Get, Refused, Starts
  <2>3. Joins(c, op, w)
    BY <2>1, <2>2 DEF Get, tryAcquire, Joins
  <2>4. op = p /\ w = v
    BY <2>0, <2>3, HoldersGet DEF Starts
  <2>5. ~ Has(o, v)
    BY <2>2, <2>4 DEF tryAcquire
  <2> QED BY <1>1, <2>5, CheckedFound
<1>2. Spec => [][Excluded]_vars
  <2> HIDE DEF Excluded
  <2> QED BY <1>1, KeysCorrect, Alone, PTL DEF Spec
<1> QED BY <1>2

(* If callers serialise deletes and expands of a volume, no operation      *)
(* starts while one it must not run beside is under way.                   *)
THEOREM ConflictsRefusedHolds ==
  ASSUME {"delete", "expand"} \subseteq Serialised PROVE Spec => ConflictsRefused
<1> DEFINE Excluded == \A o \in Exact, p \in operations, v \in Volumes :
                         o \in Checked(p) /\ Starts(p, v) => Holders(o, v) = {}
           Refusals == \A v \in Volumes :
             /\ Starts("expand", v)  => NobodyHolds({"create", "clone", "delete"}, v)
             /\ Starts("delete", v)  => NobodyHolds({"expand", "restore"}, v)
             /\ Starts("restore", v) => NobodyHolds({"delete"}, v)
             /\ Starts("clone", v)   => NobodyHolds({"expand"}, v)
<1>1. ASSUME Excluded PROVE Refusals
  <2>1. /\ operations \subseteq Exact
        /\ operations = {"create", "delete", "clone", "restore", "expand"}
    BY DEF Exact, Counted, operations
  <2>2. /\ Checked("expand") = {"delete", "clone", "create"}
        /\ Checked("delete") = {"expand", "restore"}
        /\ Checked("restore") = {"delete"}
        /\ Checked("clone") = {"expand"}
    BY DEF Checked
  <2> QED BY <1>1, <2>1, <2>2 DEF NobodyHolds
<1>2. Spec => [][Refusals]_vars
  <2>1. Spec => [][Excluded]_vars
    BY Exclusion
  <2> HIDE DEF Excluded, Refusals
  <2> QED BY <1>1, <2>1, PTL
<1> QED BY <1>2 DEF ConflictsRefused

(* If callers serialise deletes and expands of a volume, a delete never    *)
(* runs together with a restore or an expand, nor an expand with a clone,  *)
(* whatever else runs in parallel.                                         *)
THEOREM ConflictsExcludedHolds ==
  ASSUME {"delete", "expand"} \subseteq Serialised PROVE Spec => []ConflictsExcluded
<1>1. AloneInv => ConflictsExcluded
  BY DEF AloneInv, ExclusionInv, ConflictsExcluded, Exact, Exclusive, Counted, Checked, operations
<1> QED BY <1>1, Alone, PTL

(* What GetRestoreLock says of deletes is true when callers serialise      *)
(* deletes, whatever they do about the other operations; without, two      *)
(* deletes are enough for a counterexample.                                *)
THEOREM RestoreMeansNoDeleteHolds ==
  ASSUME "delete" \in Serialised PROVE Spec => []RestoreMeansNoDelete
<1>1. AloneInv => RestoreMeansNoDelete
  BY DEF AloneInv, ExclusionInv, RestoreMeansNoDelete, Exact, Exclusive, Counted, Checked,
         operations
<1> QED BY <1>1, Alone, PTL

=============================================================================
