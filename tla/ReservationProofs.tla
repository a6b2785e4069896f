------------------------- MODULE ReservationProofs -------------------------
(***************************************************************************)
(* Theorems about Reservation, for every number of nodes: at most one      *)
(* guest writes to the LUN whatever the keys of the nodes, and when keys   *)
(* differ a PreemptLUN of several commands implements LunOwner.            *)
(***************************************************************************)
EXTENDS Reservation, TLAPS

(* The steps of one node. *)
Act(n) == PreemptLUN(n) \/ Command(n) \/ Stop(n) \/ DriverRestart(n)

LEMMA NextParts ==
  ASSUME [Next]_vars
  PROVE  \/ \E n \in Nodes : Act(n)
         \/ TargetRestart
         \/ UNCHANGED vars
  BY DEF Next, Act

LEMMA Constants == NoNode \notin Nodes /\ NoKey \notin Keys /\ KeyOf \in [Nodes -> Keys]
  BY ReservationAssumption DEF ReservationAssumption

-----------------------------------------------------------------------------
(* Type correctness *)

LEMMA AnswerType ==
  ASSUME TypeOK
  PROVE  /\ AnsweredKey \in Keys \cup {NoKey}
         /\ AnsweredKey = NoKey <=> reservation = NoNode
  BY Constants DEF TypeOK, AnsweredKey

(* What a node's step leaves alone, and where it may go. *)
LEMMA ActType ==
  ASSUME TypeOK, NEW n \in Nodes, Act(n)
  PROVE  TypeOK'
<1> USE Constants DEF TypeOK, Calling, target, Stages
<1>1. CASE PreemptLUN(n)
  BY <1>1 DEF PreemptLUN
<1>2. CASE ReadKeys(n)
  BY <1>2 DEF ReadKeys, Goto, Return, ReturnError
<1>3. CASE Register(n)
  BY <1>3 DEF Register, Goto, Return, ReturnError
<1>4. CASE ReadReservation(n)
  BY <1>4, AnswerType DEF ReadReservation, Goto, Return, ReturnNil, ReturnError
<1>5. CASE Reserve(n)
  BY <1>5 DEF Reserve, Grants, Return, ReturnNil, ReturnError
<1>6. CASE Preempt(n)
  BY <1>6 DEF Preempt, Obeys, Victims, Return, ReturnNil, ReturnError
<1>7. CASE Stop(n)
  BY <1>7 DEF Stop
<1>8. CASE DriverRestart(n)
  BY <1>8 DEF DriverRestart, Return, ReturnError
<1> QED BY <1>1, <1>2, <1>3, <1>4, <1>5, <1>6, <1>7, <1>8 DEF Act, Command

(* TypeOK holds of every reachable state. *)
THEOREM TypeCorrect == Spec => []TypeOK
<1>1. Init => TypeOK
  BY Constants DEF Init, TypeOK, Calling
<1>2. TypeOK /\ [Next]_vars => TypeOK'
  <2> SUFFICES ASSUME TypeOK, [Next]_vars PROVE TypeOK'
    OBVIOUS
  <2>1. ASSUME NEW n \in Nodes, Act(n) PROVE TypeOK'
    BY <2>1, ActType
  <2>2. CASE TargetRestart
    BY <2>2, Constants DEF TargetRestart, TypeOK, Calling
  <2>3. CASE UNCHANGED vars
    BY <2>3 DEF vars, target, TypeOK, Calling
  <2> QED BY <2>1, <2>2, <2>3, NextParts
<1> QED BY <1>1, <1>2, PTL DEF Spec

-----------------------------------------------------------------------------
(* The reservation *)

(* Whoever serves since the target last restarted does so under someone's  *)
(* reservation, and whoever preempts and is registered since then preempts *)
(* an owner: the target never drops a reservation but to pass it on.       *)
ServingReserved == serving \subseteq stale \/ reservation # NoNode

PreemptReserved ==
  \A n \in Nodes : pc[n] = "preempt" /\ n \in registered => reservation # NoNode

ReservedInv == ServingReserved /\ PreemptReserved

LEMMA ActReserved ==
  ASSUME TypeOK, ReservedInv, NEW n \in Nodes, Act(n)
  PROVE  ReservedInv'
<1> USE Constants DEF ReservedInv, ServingReserved, PreemptReserved, TypeOK, target
<1>1. CASE PreemptLUN(n)
  BY <1>1 DEF PreemptLUN
<1>2. CASE ReadKeys(n)
  BY <1>2 DEF ReadKeys, Goto, Return, ReturnError
<1>3. CASE Register(n)
  BY <1>3 DEF Register, Goto, Return, ReturnError
<1>4. CASE ReadReservation(n)
  BY <1>4, AnswerType DEF ReadReservation, Goto, Return, ReturnNil, ReturnError
<1>5. CASE Reserve(n)
  BY <1>5 DEF Reserve, Grants, Return, ReturnNil, ReturnError
<1>6. CASE Preempt(n)
  BY <1>6 DEF Preempt, Obeys, Victims, Return, ReturnNil, ReturnError
<1>7. CASE Stop(n)
  BY <1>7 DEF Stop
<1>8. CASE DriverRestart(n)
  BY <1>8 DEF DriverRestart, Return, ReturnError
<1> QED BY <1>1, <1>2, <1>3, <1>4, <1>5, <1>6, <1>7, <1>8 DEF Act, Command

LEMMA Reserved == Spec => []ReservedInv
<1>1. Init => ReservedInv
  BY DEF Init, ReservedInv, ServingReserved, PreemptReserved
<1>2. TypeOK /\ ReservedInv /\ [Next]_vars => ReservedInv'
  <2> SUFFICES ASSUME TypeOK, ReservedInv, [Next]_vars PROVE ReservedInv'
    OBVIOUS
  <2>1. ASSUME NEW n \in Nodes, Act(n) PROVE ReservedInv'
    BY <2>1, ActReserved
  <2>2. CASE TargetRestart
    BY <2>2 DEF TargetRestart, ReservedInv, ServingReserved, PreemptReserved
  <2>3. CASE UNCHANGED vars
    BY <2>3 DEF vars, target, ReservedInv, ServingReserved, PreemptReserved
  <2> QED BY <2>1, <2>2, <2>3, NextParts
<1> QED BY <1>1, <1>2, TypeCorrect, PTL DEF Spec

(* Any number of nodes, with any keys, never has two guests that the       *)
(* target lets write but those that were there when it restarted.          *)
THEOREM AtMostOneWriterHolds == Spec => []AtMostOneWriter
<1>1. ReservedInv => AtMostOneWriter
  BY DEF ReservedInv, ServingReserved, AtMostOneWriter, Writers
<1> QED BY <1>1, Reserved, PTL

(* Without such a restart no guest is left over: at most one writes to the *)
(* LUN, and whoever serves does so while some node holds the reservation.  *)
THEOREM OneWriter ==
  ASSUME "target" \notin Faults
  PROVE  Spec => [](/\ \A m, n \in Writers : m = n
                    /\ serving # {} => reservation # NoNode)
<1> DEFINE NoneStale == stale = {}
           Single    == /\ \A m, n \in Writers : m = n
                        /\ serving # {} => reservation # NoNode
<1>1. Init => NoneStale
  BY DEF Init
<1>2. ASSUME NoneStale, [Next]_vars PROVE NoneStale'
  <2>1. ASSUME NEW n \in Nodes, Act(n) PROVE NoneStale'
    BY <1>2, <2>1
       DEF Act, Command, PreemptLUN, ReadKeys, Register, ReadReservation, Reserve,
           Preempt, Stop, DriverRestart
  <2>2. ASSUME TargetRestart PROVE FALSE
    BY <2>2 DEF TargetRestart
  <2>3. CASE UNCHANGED vars
    BY <1>2, <2>3 DEF vars
  <2> QED BY <1>2, <2>1, <2>2, <2>3, NextParts
<1>3. ASSUME ReservedInv, AtMostOneWriter, NoneStale PROVE Single
  BY <1>3 DEF ReservedInv, ServingReserved, AtMostOneWriter, Writers
<1>4. Spec => []Single
  <2> HIDE DEF NoneStale, Single
  <2> QED BY <1>1, <1>2, <1>3, Reserved, AtMostOneWriterHolds, PTL DEF Spec
<1> QED BY <1>4

-----------------------------------------------------------------------------
(* The refinement *)

(* No two nodes have the same key. *)
KeysDistinct == \A m, n \in Nodes : KeyOf[m] = KeyOf[n] => m = n

(* A registered node about to preempt finds another node to be the owner,  *)
(* be it the one whose key it has read or not.                             *)
OwnerKnown ==
  \A n \in Nodes : pc[n] = "preempt" /\ n \in registered => reservation \in Nodes \ {n}

LEMMA ActOwner ==
  ASSUME TypeOK, OwnerKnown, NEW n \in Nodes, Act(n)
  PROVE  OwnerKnown'
<1> USE Constants DEF OwnerKnown, TypeOK, target
<1>1. CASE PreemptLUN(n)
  BY <1>1 DEF PreemptLUN
<1>2. CASE ReadKeys(n)
  BY <1>2 DEF ReadKeys, Goto, Return, ReturnError
<1>3. CASE Register(n)
  BY <1>3 DEF Register, Goto, Return, ReturnError
<1>4. CASE ReadReservation(n)
  BY <1>4, AnswerType DEF AnsweredKey, ReadReservation, Goto, Return, ReturnNil, ReturnError
<1>5. CASE Reserve(n)
  BY <1>5 DEF Reserve, Grants, Return, ReturnNil, ReturnError
<1>6. CASE Preempt(n)
  BY <1>6 DEF Preempt, Obeys, Victims, Return, ReturnNil, ReturnError
<1>7. CASE Stop(n)
  BY <1>7 DEF Stop
<1>8. CASE DriverRestart(n)
  BY <1>8 DEF DriverRestart, Return, ReturnError
<1> QED BY <1>1, <1>2, <1>3, <1>4, <1>5, <1>6, <1>7, <1>8 DEF Act, Command

LEMMA OwnerKnownHolds == Spec => []OwnerKnown
<1>1. Init => OwnerKnown
  BY DEF Init, OwnerKnown
<1>2. TypeOK /\ OwnerKnown /\ [Next]_vars => OwnerKnown'
  <2> SUFFICES ASSUME TypeOK, OwnerKnown, [Next]_vars PROVE OwnerKnown'
    OBVIOUS
  <2>1. ASSUME NEW n \in Nodes, Act(n) PROVE OwnerKnown'
    BY <2>1, ActOwner
  <2>2. CASE TargetRestart
    BY <2>2 DEF TargetRestart, OwnerKnown
  <2>3. CASE UNCHANGED vars
    BY <2>3 DEF vars, target, OwnerKnown
  <2> QED BY <2>1, <2>2, <2>3, NextParts
<1> QED BY <1>1, <1>2, TypeCorrect, PTL DEF Spec

(* What every call has seen, the state of LunOwner that ownerKey stands    *)
(* for.                                                                    *)
Seen == [n \in Nodes |-> Rival(n)]

LEMMA SeenNone ==
  ASSUME TypeOK, NEW n \in Nodes, pc[n] # "preempt"
  PROVE  Seen[n] = NoNode
  BY DEF Seen, Rival, TypeOK

(* The key of a node tells which node a call has seen. *)
LEMMA SeenOwner ==
  ASSUME KeysDistinct, TypeOK, NEW n \in Nodes, NEW m \in Nodes, ownerKey[n] = KeyOf[m]
  PROVE  Seen[n] = m
<1>1. ownerKey[n] # NoKey
  BY Constants
<1>2. \A k \in Nodes : KeyOf[k] = ownerKey[n] => k = m
  BY DEF KeysDistinct
<1> QED BY <1>1, <1>2 DEF Seen, Rival, NodeOf

LEMMA SeenKept ==
  ASSUME UNCHANGED ownerKey
  PROVE  Seen' = Seen
  BY DEF Seen, Rival

(* The steps that end a call of n or leave all calls as they are. *)
LEMMA CallGoesOn ==
  ASSUME NEW n \in Nodes, NEW stage, TypeOK, pc[n] # "idle", stage # "idle",
         pc' = [pc EXCEPT ![n] = stage]
  PROVE  Calling' = Calling
  BY DEF Calling, TypeOK

LEMMA CallEnds ==
  ASSUME NEW n \in Nodes, TypeOK, pc[n] # "idle", Return(n)
  PROVE  Owner!Return(n)
<1>1. n \in Calling /\ Calling' = Calling \ {n}
  BY DEF Return, Calling, TypeOK
<1>2. Seen' = [Seen EXCEPT ![n] = NoNode]
  <2>1. ownerKey'[n] = NoKey /\ \A m \in Nodes \ {n} : ownerKey'[m] = ownerKey[m]
    BY DEF Return, TypeOK
  <2>2. Seen'[n] = NoNode
    BY <2>1 DEF Seen, Rival
  <2>3. ASSUME NEW m \in Nodes \ {n} PROVE Seen'[m] = Seen[m]
    <3>1. ownerKey'[m] = ownerKey[m]
      BY <2>1
    <3> QED BY <3>1 DEF Seen, Rival
  <2> QED BY <2>2, <2>3 DEF Seen
<1> QED BY <1>1, <1>2 DEF Owner!Return, Seen

LEMMA ErrorFails ==
  ASSUME NEW n \in Nodes, TypeOK, pc[n] # "idle", ReturnError(n),
         UNCHANGED reservation \/ (Owner!CanTake(n) /\ reservation' = n)
  PROVE  Owner!Fail(n)
  BY CallEnds DEF ReturnError, Owner!Fail

LEMMA NilSucceeds ==
  ASSUME NEW n \in Nodes, TypeOK, pc[n] # "idle", ReturnNil(n),
         Owner!CanTake(n), reservation' = n
  PROVE  Owner!Succeed(n)
  BY CallEnds DEF ReturnNil, Owner!Succeed

LEMMA GotoStutters ==
  ASSUME NEW n \in Nodes, NEW stage \in Stages, TypeOK, pc[n] # "idle",
         Goto(n, stage), UNCHANGED reservation
  PROVE  UNCHANGED Owner!vars
<1>1. Calling' = Calling
  BY CallGoesOn DEF Goto, Stages
<1>2. Seen' = Seen
  BY SeenKept DEF Goto
<1> QED BY <1>1, <1>2 DEF Goto, Owner!vars, Seen

(* A call that has not looked takes the LUN when it is free or its own. *)
LEMMA CanTakeFree ==
  ASSUME TypeOK, NEW n \in Nodes, pc[n] # "preempt", reservation \in {NoNode, n}
  PROVE  Owner!CanTake(n)
  BY SeenNone DEF Owner!CanTake, Seen

(* The answer to --read-reservation is a look at another owner. *)
LEMMA ReadLooks ==
  ASSUME KeysDistinct, TypeOK, NEW n \in Nodes, pc[n] = "reservation",
         AnsweredKey \notin {NoKey, KeyOf[n]},
         ownerKey' = [ownerKey EXCEPT ![n] = AnsweredKey],
         pc' = [pc EXCEPT ![n] = "preempt"],
         UNCHANGED <<serving, reservation>>
  PROVE  Owner!Look(n)
<1> USE Constants
<1>1. reservation \in Nodes \ {n} /\ AnsweredKey = KeyOf[reservation]
  BY DEF AnsweredKey, TypeOK
<1>2. n \in Calling /\ Calling' = Calling
  BY CallGoesOn DEF Calling
<1>3. \A k \in Nodes : KeyOf[k] = AnsweredKey <=> k = reservation
  BY <1>1 DEF KeysDistinct
<1>4. NodeOf(AnsweredKey) = reservation
  BY <1>1, <1>3 DEF NodeOf
<1>5. Seen' = [Seen EXCEPT ![n] = reservation]
  <2>1. AnsweredKey # NoKey
    OBVIOUS
  <2>2. ownerKey'[n] = AnsweredKey /\ \A m \in Nodes \ {n} : ownerKey'[m] = ownerKey[m]
    BY DEF TypeOK
  <2>3. Seen'[n] = reservation
    BY <1>4, <2>1, <2>2 DEF Seen, Rival
  <2>4. \A m \in Nodes \ {n} : Seen'[m] = Seen[m]
    BY <2>2 DEF Seen, Rival
  <2> QED BY <2>3, <2>4 DEF Seen
<1>6. Seen[n] = NoNode
  BY SeenNone
<1> QED BY <1>1, <1>2, <1>5, <1>6 DEF Owner!Look, Seen

(* The reservation is with the node that the call has seen exactly when    *)
(* that node is among the victims.                                         *)
LEMMA PreemptRefines ==
  ASSUME KeysDistinct, TypeOK, OwnerKnown, NEW n \in Nodes, Preempt(n)
  PROVE  Owner!Succeed(n) \/ Owner!SucceedInVain(n) \/ Owner!Fail(n)
<1> USE Constants
<1>1. pc[n] = "preempt"
  BY DEF Preempt
<1>2. CASE Obeys(n) /\ reservation \in Victims(n)
  <2>1. reservation \in Nodes /\ Seen[n] = reservation
    BY <1>2, SeenOwner DEF Victims, TypeOK
  <2>2. Owner!CanTake(n)
    BY <2>1 DEF Owner!CanTake, Seen
  <2>3. reservation' = n \/ (ReturnError(n) /\ UNCHANGED reservation)
    BY <1>2 DEF Preempt, target
  <2>4. ReturnNil(n) \/ ReturnError(n)
    BY <1>2 DEF Preempt
  <2>5. ASSUME ReturnNil(n), reservation' = n PROVE Owner!Succeed(n)
    BY <1>1, <2>2, <2>5, NilSucceeds
  <2>6. ASSUME ReturnError(n) PROVE Owner!Fail(n)
    BY <1>1, <2>2, <2>3, <2>6, ErrorFails
  <2> QED BY <2>3, <2>4, <2>5, <2>6
<1>3. CASE Obeys(n) /\ reservation \notin Victims(n)
  <2>1. UNCHANGED reservation /\ (ReturnNil(n) \/ ReturnError(n))
    BY <1>3 DEF Preempt, target
  <2>2. ASSUME ReturnNil(n) PROVE Owner!SucceedInVain(n)
    <3>1. reservation \in Nodes \ {n} /\ reservation \in registered
      BY <1>1, <1>3 DEF OwnerKnown, Obeys, TypeOK
    <3>2. PICK m \in Victims(n) : m \in Nodes /\ KeyOf[m] = ownerKey[n]
      BY <1>3 DEF Obeys, Victims, TypeOK
    <3>3. Seen[n] = m /\ m # NoNode
      BY <3>2, SeenOwner
    <3>4. reservation # m
      BY <1>3, <3>2
    <3>5. Owner!Return(n)
      BY <1>1, <2>2, CallEnds DEF ReturnNil
    <3> QED BY <2>1, <2>2, <3>1, <3>3, <3>4, <3>5 DEF ReturnNil, Owner!SucceedInVain, Seen
  <2>3. ASSUME ReturnError(n) PROVE Owner!Fail(n)
    BY <1>1, <2>1, <2>3, ErrorFails
  <2> QED BY <2>1, <2>2, <2>3
<1>4. CASE ~ Obeys(n)
  <2>1. ReturnError(n) /\ UNCHANGED reservation
    BY <1>4 DEF Preempt, target
  <2> QED BY <1>1, <2>1, ErrorFails
<1> QED BY <1>2, <1>3, <1>4

LEMMA ActRefines ==
  ASSUME KeysDistinct, TypeOK, OwnerKnown, NEW n \in Nodes, Act(n)
  PROVE  \/ Owner!Call(n) \/ Owner!Look(n) \/ Owner!Stop(n)
         \/ Owner!Succeed(n) \/ Owner!SucceedInVain(n) \/ Owner!Fail(n)
         \/ UNCHANGED Owner!vars
<1> USE Constants
<1>a. ASSUME ReturnError(n), pc[n] # "idle", UNCHANGED reservation PROVE Owner!Fail(n)
  BY <1>a, ErrorFails
<1>1. CASE PreemptLUN(n)
  <2>1. Calling' = Calling \cup {n} /\ n \notin Calling
    BY <1>1 DEF PreemptLUN, Calling, TypeOK
  <2>2. Seen' = Seen
    BY <1>1, SeenKept DEF PreemptLUN
  <2> QED BY <1>1, <2>1, <2>2 DEF PreemptLUN, Owner!Call, target, Seen
<1>2. CASE ReadKeys(n)
  BY <1>2, <1>a, GotoStutters DEF ReadKeys, target, Stages
<1>3. CASE Register(n)
  BY <1>3, <1>a, GotoStutters DEF Register, Stages
<1>4. CASE ReadReservation(n)
  <2>1. pc[n] = "reservation" /\ UNCHANGED reservation
    BY <1>4 DEF ReadReservation, target
  <2>2. ASSUME AnsweredKey = KeyOf[n], ReturnNil(n) PROVE Owner!Succeed(n)
    <3>1. reservation = n
      BY <2>2, AnswerType DEF KeysDistinct, AnsweredKey, TypeOK
    <3> QED BY <2>1, <2>2, <3>1, CanTakeFree, NilSucceeds
  <2> QED BY <1>4, <1>a, <2>1, <2>2, GotoStutters, ReadLooks DEF ReadReservation, Stages
<1>5. CASE Reserve(n)
  <2>1. pc[n] = "reserve"
    BY <1>5 DEF Reserve
  <2>2. ASSUME Grants(n) PROVE Owner!CanTake(n)
    BY <2>1, <2>2, CanTakeFree DEF Grants
  <2> QED BY <1>5, <1>a, <2>1, <2>2, ErrorFails, NilSucceeds DEF Reserve
<1>6. CASE Preempt(n)
  BY <1>6, PreemptRefines
<1>7. CASE Stop(n)
  <2>1. Calling' = Calling /\ Seen' = Seen
    BY <1>7, SeenKept DEF Stop, Calling
  <2> QED BY <1>7, <2>1 DEF Stop, Owner!Stop, target, Seen
<1>8. CASE DriverRestart(n)
  BY <1>8, <1>a DEF DriverRestart, target
<1> QED BY <1>1, <1>2, <1>3, <1>4, <1>5, <1>6, <1>7, <1>8 DEF Act, Command

LEMMA TargetRestartRefines ==
  ASSUME TargetRestart
  PROVE  Owner!Forget
<1>1. Calling' = Calling /\ Seen' = Seen
  BY SeenKept DEF TargetRestart, Calling
<1> QED BY <1>1 DEF TargetRestart, Owner!Forget, Seen

(* When keys differ, Reservation implements LunOwner: PreemptLUN reads the *)
(* owner's key and preempts it later, and between the two the owner may    *)
(* change; it takes the LUN only from the owner it has read.               *)
THEOREM LunOwnerRefinement ==
  ASSUME KeysDistinct
  PROVE  Spec => ImplementsLunOwner
<1>1. Init => Owner!Init
  <2> SUFFICES ASSUME Init PROVE Owner!Init
    OBVIOUS
  <2>1. Seen = [n \in Nodes |-> NoNode]
    BY DEF Init, Seen, Rival
  <2> QED BY <2>1 DEF Init, Calling, Owner!Init, Seen
<1>2. TypeOK /\ OwnerKnown /\ [Next]_vars => [Owner!Next]_(Owner!vars)
  <2> SUFFICES ASSUME TypeOK, OwnerKnown, [Next]_vars
               PROVE  Owner!Next \/ UNCHANGED Owner!vars
    OBVIOUS
  <2>1. ASSUME NEW n \in Nodes, Act(n)
        PROVE  Owner!Next \/ UNCHANGED Owner!vars
    BY <2>1, ActRefines DEF Owner!Next
  <2>2. CASE TargetRestart
    BY <2>2, TargetRestartRefines DEF Owner!Next
  <2>3. CASE UNCHANGED vars
    BY <2>3, SeenKept DEF vars, target, Calling, Owner!vars, Seen
  <2> QED BY <2>1, <2>2, <2>3, NextParts
<1> QED BY <1>1, <1>2, TypeCorrect, OwnerKnownHolds, PTL
        DEF Spec, ImplementsLunOwner, Owner!Spec

-----------------------------------------------------------------------------
(* With two nodes nothing can come between that LunOwner has to allow for: *)
(* whoever takes the LUN during a call has preempted the caller, so that   *)
(* its last command is refused.  A PreemptLUN that returns nil leaves its  *)
(* node with the reservation.                                              *)
THEOREM NilOwnsLUN ==
  ASSUME KeysDistinct, \A a, b, c \in Nodes : a = b \/ b = c \/ a = c
  PROVE  Spec => [][\A n \in Nodes : n \in serving' \ serving => reservation' = n]_vars
<1> DEFINE NilOwns == \A n \in Nodes : n \in serving' \ serving => reservation' = n
<1>1. ASSUME TypeOK, OwnerKnown, [Next]_vars PROVE [NilOwns]_vars
  <2>1. ASSUME NEW n \in Nodes, Act(n), n \in serving' \ serving
        PROVE  reservation' = n
    <3> USE <1>1, <2>1, Constants DEF TypeOK, target
    <3>1. CASE ReadReservation(n)
      <4>1. AnsweredKey = KeyOf[n] /\ UNCHANGED reservation
        BY <3>1 DEF ReadReservation, Goto, ReturnError
      <4> QED BY <4>1, AnswerType DEF AnsweredKey, KeysDistinct
    <3>2. CASE Reserve(n)
      BY <3>2 DEF Reserve, ReturnError
    <3>3. CASE Preempt(n)
      <4>1. Obeys(n) /\ reservation' = IF reservation \in Victims(n) THEN n ELSE reservation
        BY <3>3 DEF Preempt, ReturnError
      <4>2. pc[n] = "preempt" /\ n \in registered
        BY <3>3, <4>1 DEF Preempt, Obeys
      <4>3. reservation \in Nodes \ {n}
        BY <4>2 DEF OwnerKnown
      <4>4. PICK m \in Victims(n) : m \in Nodes \ {n}
        BY <4>1 DEF Obeys, Victims
      <4>5. m = reservation
        BY <4>3, <4>4
      <4> QED BY <4>1, <4>4, <4>5
    <3> QED
      BY <3>1, <3>2, <3>3
         DEF Act, Command, PreemptLUN, ReadKeys, Register, Stop, DriverRestart, Goto,
             ReturnError
  <2>2. ASSUME NEW n \in Nodes, Act(n), NEW m \in Nodes, m # n
        PROVE  m \notin serving' \ serving
    BY <2>2
       DEF Act, Command, PreemptLUN, ReadKeys, Register, ReadReservation, Reserve,
           Preempt, Stop, DriverRestart, Goto, ReturnNil, ReturnError
  <2>3. CASE TargetRestart
    BY <2>3 DEF TargetRestart
  <2> QED BY <1>1, <2>1, <2>2, <2>3, NextParts
<1>2. Spec => [][NilOwns]_vars
  <2> HIDE DEF NilOwns
  <2> QED BY <1>1, TypeCorrect, OwnerKnownHolds, PTL DEF Spec
<1> QED BY <1>2

=============================================================================
