------------------------------ MODULE LunOwner ------------------------------
(***************************************************************************)
(* What PreemptLUN of pkg/utils/iscsi/iscsi.go promises the nodes of a     *)
(* cluster, whatever commands it sends.  A call takes a LUN that is free   *)
(* or, once it has looked who the owner is, takes it from that owner, who  *)
(* must be the owner still.  Nobody becomes the owner in any other way.    *)
(*                                                                         *)
(* It does not promise that a call that returns nil has made its node the  *)
(* owner, at any moment: if yet another node has become the owner since    *)
(* the call looked, it may return nil and the LUN stay where it is         *)
(* (SucceedInVain).  Nor does an error say that the call has not taken the *)
(* LUN, for the answer of a command can get lost.                          *)
(***************************************************************************)
CONSTANTS
  Nodes,          \* the nodes that publish the LUN
  NoNode          \* the LUN has no owner, or a call has not looked yet

VARIABLES
  owner,          \* the node the target lets use the LUN
  calling,        \* nodes inside PreemptLUN
  seen,           \* for each node the owner its call is to preempt
  serving         \* nodes whose call returned nil, until they stop or call again

vars == <<owner, calling, seen, serving>>

Init ==
  /\ owner = NoNode
  /\ calling = {}
  /\ seen = [n \in Nodes |-> NoNode]
  /\ serving = {}

Call(n) ==
  /\ n \notin calling
  /\ calling' = calling \cup {n}
  /\ serving' = serving \ {n}
  /\ UNCHANGED <<owner, seen>>

(* The call finds another node to be the owner. *)
Look(n) ==
  /\ n \in calling
  /\ seen[n] = NoNode
  /\ owner \notin {n, NoNode}
  /\ seen' = [seen EXCEPT ![n] = owner]
  /\ UNCHANGED <<owner, calling, serving>>

(* A call takes nothing from an owner it has not seen. *)
CanTake(n) == IF seen[n] = NoNode THEN owner \in {NoNode, n}
                                  ELSE owner = seen[n]

Return(n) ==
  /\ n \in calling
  /\ calling' = calling \ {n}
  /\ seen' = [seen EXCEPT ![n] = NoNode]

Succeed(n) ==
  /\ Return(n)
  /\ CanTake(n)
  /\ owner' = n
  /\ serving' = serving \cup {n}

(* The owner the call looked at has lost the LUN to a third node since:    *)
(* nil, and the node has never owned the LUN.                              *)
SucceedInVain(n) ==
  /\ Return(n)
  /\ seen[n] # NoNode
  /\ owner \notin {seen[n], n, NoNode}
  /\ serving' = serving \cup {n}
  /\ UNCHANGED owner

Fail(n) ==
  /\ Return(n)
  /\ UNCHANGED owner \/ (CanTake(n) /\ owner' = n)
  /\ UNCHANGED serving

Stop(n) ==
  /\ serving' = serving \ {n}
  /\ UNCHANGED <<owner, calling, seen>>

(* The target forgets the owner. *)
Forget ==
  /\ owner' = NoNode
  /\ UNCHANGED <<calling, seen, serving>>

Next ==
  \/ \E n \in Nodes : Call(n) \/ Look(n) \/ Stop(n)
  \/ \E n \in Nodes : Succeed(n) \/ SucceedInVain(n) \/ Fail(n)
  \/ Forget

Spec == Init /\ [][Next]_vars

=============================================================================
