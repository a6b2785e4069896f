---------------------------- MODULE Reservation ----------------------------
(***************************************************************************)
(* PreemptLUN of pkg/utils/iscsi/iscsi.go, run by the drivers of several   *)
(* nodes against one LUN.  A call sends up to four sg_persist commands to  *)
(* the target, one action each, and those of other nodes come in between.  *)
(*                                                                         *)
(* Outside the program: the persistent reservations of the target (SPC-3). *)
(* Registrations and the reservation, of type 3 (exclusive access), outlive*)
(* sessions; they do not outlive the target, for the driver leaves         *)
(* --param-aptpl out.                                                      *)
(***************************************************************************)
CONSTANTS
  Nodes,          \* nodes that publish the LUN
  Keys,           \* registration keys
  KeyOf,          \* generateISCSIKey: the hash of each node's host name
  NoNode,         \* nobody holds the reservation
  NoKey,          \* ownerKey before it is read
  Faults          \* what may go wrong in the environment, see FaultKinds

(***************************************************************************)
(* "timeout": sg_persist fails or is killed after five seconds, before or  *)
(* after the target has carried the command out; "target": the target      *)
(* restarts; "restart": a driver restarts.                                 *)
(***************************************************************************)
FaultKinds == {"timeout", "target", "restart"}

ASSUME ReservationAssumption ==
  /\ NoNode \notin Nodes
  /\ NoKey \notin Keys
  /\ KeyOf \in [Nodes -> Keys]
  /\ Faults \subseteq FaultKinds

VARIABLES
  pc,             \* the command each node is about to send, or "idle"
  ownerKey,       \* the local ownerKey of each node's call
  registered,     \* target: the nodes that are registered
  reservation,    \* target: the node that holds the reservation
  serving,        \* nodes that run a guest on the LUN: PreemptLUN returned
                  \*   nil, and neither was the volume unpublished since nor
                  \*   its session closed for a new call
  stale           \* history: nodes in "serving" since before the target
                  \*   restarted

target == <<registered, reservation>>
vars   == <<pc, ownerKey, registered, reservation, serving, stale>>

Stages == {"keys", "register", "reservation", "reserve", "preempt"}

Calling == {n \in Nodes : pc[n] # "idle"}

-----------------------------------------------------------------------------
(* Calls *)

Killed == "timeout" \in Faults

Goto(n, stage) ==
  /\ pc' = [pc EXCEPT ![n] = stage]
  /\ UNCHANGED <<ownerKey, serving>>

Return(n) ==
  /\ pc' = [pc EXCEPT ![n] = "idle"]
  /\ ownerKey' = [ownerKey EXCEPT ![n] = NoKey]

ReturnNil(n) == Return(n) /\ serving' = serving \cup {n}

(* Connect detaches the disk after an error. *)
ReturnError(n) == Return(n) /\ UNCHANGED serving

(* ISCSIRootFS.Connect gets to PreemptLUN when ReopenDisk has closed the   *)
(* session, if there was one, and opened it again.                         *)
PreemptLUN(n) ==
  /\ pc[n] = "idle"
  /\ pc' = [pc EXCEPT ![n] = "keys"]
  /\ serving' = serving \ {n}
  /\ stale' = stale \ {n}
  /\ UNCHANGED <<ownerKey, target>>

-----------------------------------------------------------------------------
(* Commands *)

(* sg_persist --read-keys *)
ReadKeys(n) ==
  /\ pc[n] = "keys"
  /\ \/ Goto(n, IF \E m \in registered : KeyOf[m] = KeyOf[n] THEN "reservation"
                                                             ELSE "register")
     \/ Killed /\ ReturnError(n)
  /\ UNCHANGED <<target, stale>>

(* sg_persist --out --register *)
Register(n) ==
  /\ pc[n] = "register"
  /\ \/ /\ registered' = registered \cup {n}
        /\ Goto(n, "reservation") \/ (Killed /\ ReturnError(n))
     \/ Killed /\ ReturnError(n) /\ UNCHANGED registered
  /\ UNCHANGED <<reservation, stale>>

(* What --read-reservation answers: the key of the owner, if there is one. *)
AnsweredKey == IF reservation = NoNode THEN NoKey ELSE KeyOf[reservation]

(* A slip in PreemptLUN: without a reservation there is nothing to do. *)
ReadReservationWithoutReserve(n) ==
  /\ pc[n] = "reservation"
  /\ \/ /\ AnsweredKey \in {NoKey, KeyOf[n]}
        /\ ReturnNil(n)
     \/ /\ AnsweredKey \notin {NoKey, KeyOf[n]}
        /\ ownerKey' = [ownerKey EXCEPT ![n] = AnsweredKey]
        /\ pc' = [pc EXCEPT ![n] = "preempt"]
        /\ UNCHANGED serving
     \/ Killed /\ ReturnError(n)
  /\ UNCHANGED <<target, stale>>

(* A slip in PreemptLUN: the answer is not searched for "NO reservation",  *)
(* and not checked for a key.                                              *)
ReadReservationWithoutKey(n) ==
  /\ pc[n] = "reservation"
  /\ \/ AnsweredKey = KeyOf[n] /\ ReturnNil(n)
     \/ /\ AnsweredKey # KeyOf[n]
        /\ ownerKey' = [ownerKey EXCEPT ![n] = AnsweredKey]
        /\ pc' = [pc EXCEPT ![n] = "preempt"]
        /\ UNCHANGED serving
     \/ Killed /\ ReturnError(n)
  /\ UNCHANGED <<target, stale>>

(* sg_persist --read-reservation: nobody holds the LUN, this node does, or *)
(* another one, whose key is to be preempted.                              *)
ReadReservation(n) ==
  /\ pc[n] = "reservation"
  /\ \/ AnsweredKey = NoKey /\ Goto(n, "reserve")
     \/ AnsweredKey = KeyOf[n] /\ ReturnNil(n)
     \/ /\ AnsweredKey \notin {NoKey, KeyOf[n]}
        /\ ownerKey' = [ownerKey EXCEPT ![n] = AnsweredKey]
        /\ pc' = [pc EXCEPT ![n] = "preempt"]
        /\ UNCHANGED serving
     \/ Killed /\ ReturnError(n)
  /\ UNCHANGED <<target, stale>>

(* The target grants a reservation to a registered node, unless another    *)
(* node holds one: reservation conflict.                                   *)
Grants(n) == n \in registered /\ reservation \in {NoNode, n}

(* A slip in PreemptLUN: the error of the reserve command is ignored. *)
ReserveIgnoringError(n) ==
  /\ pc[n] = "reserve"
  /\ reservation' = IF Grants(n) THEN n ELSE reservation
  /\ ReturnNil(n)
  /\ UNCHANGED <<registered, stale>>

(* sg_persist --out --reserve *)
Reserve(n) ==
  /\ pc[n] = "reserve"
  /\ \/ /\ Grants(n)
        /\ reservation' = n
        /\ ReturnNil(n) \/ (Killed /\ ReturnError(n))
     \/ /\ ~ Grants(n) \/ Killed
        /\ ReturnError(n)
        /\ UNCHANGED reservation
  /\ UNCHANGED <<registered, stale>>

(* The registrations the target removes: all with the key the node read.   *)
(* Without any, or from a node that is not registered itself, the command  *)
(* is a reservation conflict.                                              *)
Victims(n) == {m \in registered \ {n} : KeyOf[m] = ownerKey[n]}
Obeys(n)   == n \in registered /\ Victims(n) # {}

(* sg_persist --out --preempt: the reservation changes hands only if it is *)
(* one of the victims that holds it.                                       *)
Preempt(n) ==
  /\ pc[n] = "preempt"
  /\ \/ /\ Obeys(n)
        /\ registered' = registered \ Victims(n)
        /\ reservation' = IF reservation \in Victims(n) THEN n ELSE reservation
        /\ ReturnNil(n) \/ (Killed /\ ReturnError(n))
     \/ /\ ~ Obeys(n) \/ Killed
        /\ ReturnError(n)
        /\ UNCHANGED target
  /\ UNCHANGED stale

-----------------------------------------------------------------------------
(* The volume is unpublished, or its node goes down.  Nothing is released. *)
Stop(n) ==
  /\ pc[n] = "idle"
  /\ n \in serving
  /\ serving' = serving \ {n}
  /\ stale' = stale \ {n}
  /\ UNCHANGED <<pc, ownerKey, target>>

(* The driver ends inside a call; so does the call. *)
DriverRestart(n) ==
  /\ "restart" \in Faults
  /\ pc[n] # "idle"
  /\ ReturnError(n)
  /\ UNCHANGED <<target, stale>>

(* Sessions are opened again by the initiators: guests go on. *)
TargetRestart ==
  /\ "target" \in Faults
  /\ registered' = {}
  /\ reservation' = NoNode
  /\ stale' = serving
  /\ UNCHANGED <<pc, ownerKey, serving>>

Init ==
  /\ pc = [n \in Nodes |-> "idle"]
  /\ ownerKey = [n \in Nodes |-> NoKey]
  /\ registered = {}
  /\ reservation = NoNode
  /\ serving = {}
  /\ stale = {}

Command(n) ==
  \/ ReadKeys(n)
  \/ Register(n)
  \/ ReadReservation(n)
  \/ Reserve(n)
  \/ Preempt(n)

Next ==
  \/ \E n \in Nodes : PreemptLUN(n) \/ Command(n) \/ Stop(n) \/ DriverRestart(n)
  \/ TargetRestart

Spec == Init /\ [][Next]_vars

-----------------------------------------------------------------------------
(* Properties *)

(* Every variable has the values the code and the target can give it: a    *)
(* node preempts with a key it has read, and only a registered node holds  *)
(* the reservation.                                                        *)
TypeOK ==
  /\ pc \in [Nodes -> {"idle"} \cup Stages]
  /\ ownerKey \in [Nodes -> Keys \cup {NoKey}]
  /\ \A n \in Nodes : pc[n] = "preempt" <=> ownerKey[n] # NoKey
  /\ registered \subseteq Nodes
  /\ reservation \in registered \cup {NoNode}
  /\ serving \subseteq Nodes \ Calling
  /\ stale \subseteq serving

(* The nodes whose guests the target lets write to the LUN. *)
Writers == {n \in serving : reservation \in {NoNode, n}}

(* However calls of several nodes interleave, time out and are cut off,    *)
(* two guests never write to the LUN at a time, except for those that were *)
(* there when the target restarted and forgot the reservation.  Preempted  *)
(* nodes are not told: it is the reservation that keeps them out.          *)
AtMostOneWriter ==
  \A m, n \in Writers : m # n => m \in stale /\ n \in stale

(* The owner a node's call has read the key of and is about to preempt. *)
NodeOf(key) == CHOOSE m \in Nodes : KeyOf[m] = key
Rival(n)    == IF ownerKey[n] = NoKey THEN NoNode ELSE NodeOf(ownerKey[n])

(* Seen from the nodes, a PreemptLUN that runs into those of other nodes   *)
(* between any two of its commands takes the LUN in one step, and only     *)
(* while it is free or still with the owner whose key the call has read.   *)
(* It returns nil without taking it only if a third node took it from that *)
(* owner before the preempt command.                                       *)
Owner == INSTANCE LunOwner
           WITH owner <- reservation, calling <- Calling, seen <- [n \in Nodes |-> Rival(n)]

ImplementsLunOwner == Owner!Spec

=============================================================================
