--------------------------- MODULE VolumeDevices ---------------------------
(***************************************************************************)
(* What the node service promises its caller about devices, without        *)
(* locks, stages, files or commands.  A handler works on one volume, alone, *)
(* and touches no other volume's device.  A publish is answered with OK    *)
(* when its volume is on a device, an unpublish when it is on none or the  *)
(* node has lost track of it.  Until its volume is worked on again, and    *)
(* unless the node goes down, nothing changes about it.                    *)
(*                                                                         *)
(* ISCSINode is shown to implement this specification whatever fails,      *)
(* QemuNode as long as nothing fails.                                      *)
(***************************************************************************)
CONSTANTS Handlers, Volumes, Devices, NoVolume

VARIABLES
  working,        \* the volume each handler is working on
  attached,       \* the volume on each device
  view,           \* what the caller was last told about each volume
  lost            \* volumes whose device may be left behind by an unpublish

state == <<working, attached, view, lost>>

On(v)      == \E d \in Devices : attached[d] = v
Without(v) == [d \in Devices |-> IF attached[d] = v THEN NoVolume ELSE attached[d]]
Told(v, w) == [view EXCEPT ![v] = w]
Unsure(v)  == view' \in {view, Told(v, "unknown")}

Works(h, v) == v \in Volumes /\ working[h] = v
Answer(h)   == working' = [working EXCEPT ![h] = NoVolume]

Init ==
  /\ working = [h \in Handlers |-> NoVolume]
  /\ attached = [d \in Devices |-> NoVolume]
  /\ view = [v \in Volumes |-> "unpublished"]
  /\ lost = {}

-----------------------------------------------------------------------------
Begin(h, v) ==
  /\ working[h] = NoVolume
  /\ \A g \in Handlers : working[g] # v
  /\ working' = [working EXCEPT ![h] = v]
  /\ Unsure(v)
  /\ UNCHANGED <<attached, lost>>

(* A volume that is not published gets a device, and only one; the login   *)
(* may have to be given up at once.                                        *)
Connect(h, v) ==
  /\ Works(h, v)
  /\ view[v] = "unknown"
  /\ ~ On(v)
  /\ \E d \in Devices : /\ attached[d] = NoVolume
                        /\ attached' = [attached EXCEPT ![d] = v]
  /\ lost' \in {lost \ {v}, lost \cup {v}}
  /\ UNCHANGED <<working, view>>

(* A device that was left behind is taken up again. *)
Recover(h, v) ==
  /\ Works(h, v)
  /\ On(v)
  /\ lost' = lost \ {v}
  /\ UNCHANGED <<working, attached, view>>

(* The caller cannot rely on the volume from now on, if it could before. *)
Disconnect(h, v) ==
  /\ Works(h, v)
  /\ attached' = Without(v)
  /\ lost' = lost \ {v}
  /\ view' = Told(v, "unknown")
  /\ UNCHANGED working

(* The volume may stay on a device that nobody will disconnect. *)
Lose(h, v) ==
  /\ Works(h, v)
  /\ lost' \in {lost, lost \cup {v}}
  /\ Unsure(v)
  /\ UNCHANGED <<working, attached>>

PublishOK(h, v) ==
  /\ Works(h, v)
  /\ On(v)
  /\ v \notin lost
  /\ Answer(h)
  /\ view' = Told(v, "published")
  /\ UNCHANGED <<attached, lost>>

UnpublishOK(h, v) ==
  /\ Works(h, v)
  /\ On(v) => v \in lost
  /\ Answer(h)
  /\ view' = Told(v, "unpublished")
  /\ UNCHANGED <<attached, lost>>

(* Any other answer; what a publish connected it disconnects, or loses. *)
Fail(h, v) ==
  /\ Works(h, v)
  /\ Answer(h)
  /\ \/ UNCHANGED attached /\ lost' \in {lost, lost \cup {v}}
     \/ view[v] = "unknown" /\ attached' = Without(v) /\ lost' = lost \ {v}
  /\ UNCHANGED view

(* The driver or its node restarts: the caller learns which of its volumes *)
(* lost their devices.                                                     *)
Restart ==
  /\ working' = [h \in Handlers |-> NoVolume]
  /\ \A d \in Devices : attached'[d] \in {attached[d], NoVolume}
  /\ lost' \subseteq lost \cup {working[h] : h \in Handlers}
  /\ view' = [v \in Volumes |->
                IF view[v] = "published" /\ \A d \in Devices : attached'[d] # v
                  THEN "unknown" ELSE view[v]]

-----------------------------------------------------------------------------
Work(h, v) ==
  \/ Begin(h, v)
  \/ Connect(h, v)
  \/ Recover(h, v)
  \/ Disconnect(h, v)
  \/ Lose(h, v)
  \/ PublishOK(h, v)
  \/ UnpublishOK(h, v)
  \/ Fail(h, v)

Next == Restart \/ \E h \in Handlers, v \in Volumes : Work(h, v)

Spec == Init /\ [][Next]_state

=============================================================================
