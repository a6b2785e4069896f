--------------------------- MODULE QemuNodeProofs ---------------------------
(***************************************************************************)
(* Theorems about QemuNode, for every number of handlers, volumes and      *)
(* devices and every combination of faults.                                *)
(*                                                                         *)
(* The control (locks, pc, op, vol) is NodeServer's: it is enough to show  *)
(* that every action is a control step of NodeServerProofs.  What is left  *)
(* is the types of the data, and NBDConnectLock.                           *)
(***************************************************************************)
EXTENDS QemuNode, NodeServerProofs

QemuDataOK ==
  /\ attached \in [Devices -> Volumes \cup {NoVolume}]
  /\ nbdLock \in Handlers \cup {NoHandler}
  /\ image \in [Volumes -> Images]
  /\ harmed \subseteq Volumes
  /\ excused \subseteq Devices

TypeInv == ControlInv(Stages) /\ NodeDataOK /\ QemuDataOK

-----------------------------------------------------------------------------
(* Control *)

LEMMA StagesOK == "idle" \notin Stages /\ NodeStages \subseteq Stages
BY DEF Stages, NodeStages

LEMMA StepControl ==
  ASSUME NEW h \in Handlers, Step(h)
  PROVE  Advances(h, Stages) \/ Finishes(h)
<1>1. CASE NodeStep(h)
  BY <1>1, NodeStepControl, StagesOK
<1> USE DEF Advances, Finishes, Active, Idle, Stages
<1>2. CASE Allocate(h)
  BY <1>2 DEF Allocate
<1>3. CASE CreateImageFromBase(h)
  BY <1>3 DEF CreateImageFromBase
<1>4. CASE LockNBD(h)
  BY <1>4 DEF LockNBD
<1>5. CASE AttachNBD(h)
  BY <1>5 DEF AttachNBD
<1>6. CASE SettleNBD(h)
  BY <1>6 DEF SettleNBD
<1>7. CASE Disconnect(h)
  BY <1>7 DEF Disconnect
<1> QED BY <1>1, <1>2, <1>3, <1>4, <1>5, <1>6, <1>7 DEF Step

LEMMA NextControl == [Next]_vars => ControlNext(Stages)
<1>1. ASSUME NEW h \in Handlers, Request(h) PROVE ControlNext(Stages)
  BY <1>1, RequestControl, StagesOK
<1>2. ASSUME NEW h \in Handlers, Step(h) PROVE ControlNext(Stages)
  BY <1>2, StepControl DEF ControlNext
<1>3. ASSUME Restart PROVE ControlNext(Stages)
  BY <1>3, NodeRestartControl DEF Restart, ControlNext
<1>4. ASSUME UNCHANGED vars PROVE ControlNext(Stages)
  BY <1>4 DEF vars, nodeVars, ControlNext, Stands
<1> QED BY <1>1, <1>2, <1>3, <1>4 DEF Next

LEMMA ControlCorrect == Spec => []ControlInv(Stages)
<1>1. Init => ControlInv(Stages)
  BY ControlInit DEF Init
<1>2. ControlInv(Stages) /\ [Next]_vars => ControlInv(Stages)'
  BY NextControl, ControlStep, StagesOK
<1> QED BY <1>1, <1>2, PTL DEF Spec

(* Handlers never share a volume, and the lock of a volume is released on  *)
(* every path out of NodePublishVolume and NodeUnpublishVolume, cleanup    *)
(* and restarts included.                                                  *)
THEOREM VolumeExclusionHolds == Spec => []VolumeExclusion
BY ControlCorrect, PTL DEF ControlInv

(* The node service refines SerialVolumes: each of its steps begins, ends  *)
(* or abandons work on volumes as SerialVolumes allows, or is invisible.   *)
THEOREM SerialRefinement == Spec => ImplementsSerialVolumes
<1>1. Init => Serial!Init
  BY SerialInit DEF Init
<1>2. ControlInv(Stages) /\ [Next]_vars => [Serial!Next]_vol
  BY NextControl, SerialStep, StagesOK
<1> QED
  BY <1>1, <1>2, ControlCorrect, PTL DEF Spec, ImplementsSerialVolumes, Serial!Spec

-----------------------------------------------------------------------------
(* Types *)

LEMMA DataInit == Init => NodeDataOK /\ QemuDataOK
BY NodeDataInit DEF Init, QemuDataOK, Images

LEMMA StepData ==
  ASSUME NEW h \in Handlers, TypeInv, Step(h)
  PROVE  NodeDataOK' /\ QemuDataOK'
<1>1. vol[h] \in Volumes /\ dev[h] \in DeviceOrNone
  BY StepControl
     DEF TypeInv, ControlInv, ControlTypeOK, ActiveHasVolume, NodeDataOK,
         Advances, Finishes, Active
<1>2. CASE NodeStep(h) /\ harmed' = StillHarmed(h)
           /\ UNCHANGED <<attached, nbdLock, image, excused>>
  BY <1>1, <1>2, NodeStepData DEF TypeInv, QemuDataOK, StillHarmed
<1> USE <1>1 DEF TypeInv, NodeDataOK, QemuDataOK, DeviceOrNone
<1>3. CASE Allocate(h)
  BY <1>3 DEF Allocate, Return, qemuVars
<1>4. CASE CreateImageFromBase(h)
  BY <1>4 DEF CreateImageFromBase, Return, Images
<1>5. CASE LockNBD(h)
  BY <1>5 DEF LockNBD, FirstFree, FreeDevices
<1>6. CASE AttachNBD(h)
  BY <1>6 DEF AttachNBD, Images
<1>7. CASE SettleNBD(h)
  BY <1>7 DEF SettleNBD
<1>8. CASE Disconnect(h)
  <2>1. dev' \in [Handlers -> DeviceOrNone]
    BY <1>8 DEF Disconnect, Return
  <2>2. /\ attached' \in [Devices -> Volumes \cup {NoVolume}]
        /\ harmed' \subseteq Volumes
        /\ excused' \subseteq Devices
    BY <1>8 DEF Disconnect, FreeDevice
  <2> QED BY <1>8, <2>1, <2>2 DEF Disconnect
<1> QED BY <1>2, <1>3, <1>4, <1>5, <1>6, <1>7, <1>8 DEF Step

LEMMA RestartData ==
  ASSUME TypeInv, Restart PROVE NodeDataOK' /\ QemuDataOK'
<1>1. PICK alive \in SUBSET UsedDevices :
        /\ NodeRestart({attached[d] : d \in Devices \ alive})
        /\ attached' = [d \in Devices |->
                         IF d \in alive THEN attached[d] ELSE NoVolume]
        /\ excused' = alive \cap (excused \cup HeldDevices)
  BY DEF Restart
<1>2. image' \in [Volumes -> Images]
  BY DEF Restart, TypeInv, QemuDataOK, Images
<1>3. NodeDataOK'
  BY <1>1, NodeRestartData DEF TypeInv
<1> QED
  BY <1>1, <1>2, <1>3 DEF Restart, TypeInv, QemuDataOK, UsedDevices, HeldDevices

LEMMA TypeInvCorrect == Spec => []TypeInv
<1>1. Init => TypeInv
  BY ControlInit, DataInit DEF Init, TypeInv
<1>2. ASSUME TypeInv, [Next]_vars PROVE TypeInv'
  <2>1. ControlInv(Stages)'
    BY <1>2, NextControl, ControlStep, StagesOK DEF TypeInv
  <2>2. NodeDataOK' /\ QemuDataOK'
    <3>1. CASE \E h \in Handlers : Request(h) /\ UNCHANGED qemuVars
      BY <1>2, <3>1, RequestData DEF TypeInv, QemuDataOK, qemuVars
    <3>2. CASE UNCHANGED vars
      BY <1>2, <3>2 DEF TypeInv, NodeDataOK, QemuDataOK, vars, nodeVars, qemuVars
    <3> QED BY <1>2, <3>1, <3>2, StepData, RestartData DEF Next
  <2> QED BY <2>1, <2>2 DEF TypeInv
<1> QED BY <1>1, <1>2, PTL DEF Spec

(* The variables always have the values the code can give them. *)
THEOREM TypeCorrect == Spec => []TypeOK
<1>1. TypeInv => TypeOK
  BY NodeTypeSplit DEF TypeInv, ControlInv, TypeOK, QemuDataOK
<1> QED BY <1>1, TypeInvCorrect, PTL

-----------------------------------------------------------------------------
(* NBDConnectLock *)

Connecting == {"attach", "settle"}

(* A handler holds NBDConnectLock, with a device in hand, exactly while it *)
(* is within NBD.Connect, past allocate().                                 *)
ConnectOK ==
  \A h \in Handlers :
    /\ pc[h] \in Connecting <=> nbdLock = h
    /\ pc[h] \in Connecting => dev[h] \in Devices

NBDInv == ConnectOK /\ AllocatedDeviceIsOurs

LEMMA NBDInit == Init => NBDInv
BY QemuAssumption
   DEF Init, NodeInit, NBDInv, ConnectOK, AllocatedDeviceIsOurs, Connecting

(* A handler outside NBD.Connect that stays outside, and at most takes an  *)
(* image off a device, disturbs nobody within.                             *)
LEMMA NBDFrame ==
  ASSUME TypeInv, NBDInv, NEW h \in Handlers,
         pc[h] \notin Connecting, pc'[h] \notin Connecting,
         \A g \in Handlers \ {h} :
           pc'[g] = pc[g] /\ vol'[g] = vol[g] /\ dev'[g] = dev[g],
         \A d \in Devices : attached'[d] \in {NoVolume, attached[d]},
         nbdLock' = nbdLock
  PROVE  NBDInv'
BY DEF NBDInv, ConnectOK, AllocatedDeviceIsOurs, Connecting

LEMMA StepNBD ==
  ASSUME TypeInv, NBDInv, NEW h \in Handlers, Step(h) PROVE NBDInv'
<1> USE DEF TypeInv, ControlInv, ControlTypeOK, NodeDataOK, QemuDataOK
<1>1. CASE NodeStep(h) /\ UNCHANGED <<attached, nbdLock>>
  <2>1. pc[h] \notin Connecting /\ pc'[h] \notin Connecting
    BY <1>1 DEF NodeStep, NewRootFS, ErrorLun, LoadRootFS, WriteConfig, WriteOutput,
                Fail, Return, Goto, Connecting
  <2>2. \A g \in Handlers \ {h} :
          pc'[g] = pc[g] /\ vol'[g] = vol[g] /\ dev'[g] = dev[g]
    BY <1>1 DEF NodeStep, NewRootFS, ErrorLun, LoadRootFS, WriteConfig, WriteOutput,
                Fail, Return, Goto
  <2> QED BY <1>1, <2>1, <2>2, NBDFrame
<1>2. CASE Allocate(h) \/ CreateImageFromBase(h)
  BY <1>2, NBDFrame
     DEF Allocate, CreateImageFromBase, Return, Goto, Connecting, qemuVars
<1>3. CASE LockNBD(h)
  BY <1>3, QemuAssumption
     DEF LockNBD, Goto, FirstFree, FreeDevices,
         NBDInv, ConnectOK, AllocatedDeviceIsOurs, Connecting
<1>4. CASE AttachNBD(h)
  BY <1>4, QemuAssumption
     DEF AttachNBD, Goto, NBDInv, ConnectOK, AllocatedDeviceIsOurs, Connecting
<1>5. CASE SettleNBD(h)
  BY <1>5, QemuAssumption
     DEF SettleNBD, Goto, NBDInv, ConnectOK, AllocatedDeviceIsOurs, Connecting
<1>6. CASE Disconnect(h)
  <2>1. pc[h] \notin Connecting /\ pc'[h] \notin Connecting
    BY <1>6 DEF Disconnect, Return, Goto, Connecting
  <2>2. \A d \in Devices : attached'[d] \in {NoVolume, attached[d]}
    BY <1>6 DEF Disconnect, FreeDevice
  <2>3. \A g \in Handlers \ {h} :
          pc'[g] = pc[g] /\ vol'[g] = vol[g] /\ dev'[g] = dev[g]
    BY <1>6 DEF Disconnect, Return, Goto
  <2> QED BY <1>6, <2>1, <2>2, <2>3, NBDFrame DEF Disconnect
<1> QED BY <1>1, <1>2, <1>3, <1>4, <1>5, <1>6 DEF Step

LEMMA RequestNBD ==
  ASSUME TypeInv, NBDInv, NEW h \in Handlers, Request(h), UNCHANGED qemuVars
  PROVE  NBDInv'
<1>1. pc[h] \notin Connecting /\ pc'[h] \notin Connecting
  BY DEF TypeInv, ControlInv, ControlTypeOK, Request, NodePublishVolume,
         NodeUnpublishVolume, AlreadyExists, Enter, Goto, Idle, Connecting
<1>2. \A g \in Handlers \ {h} :
        pc'[g] = pc[g] /\ vol'[g] = vol[g] /\ dev'[g] = dev[g]
  BY DEF TypeInv, ControlInv, ControlTypeOK, Request, NodePublishVolume,
         NodeUnpublishVolume, AlreadyExists, Enter, Goto
<1> QED BY <1>1, <1>2, NBDFrame DEF qemuVars

LEMMA NBDCorrect == Spec => []NBDInv
<1>1. ASSUME TypeInv, NBDInv, [Next]_vars PROVE NBDInv'
  <2>1. ASSUME Restart PROVE NBDInv'
    BY <2>1, QemuAssumption
       DEF Restart, NodeRestart, NBDInv, ConnectOK, AllocatedDeviceIsOurs,
           Connecting
  <2>2. ASSUME UNCHANGED vars PROVE NBDInv'
    BY <1>1, <2>2
       DEF vars, nodeVars, qemuVars, NBDInv, ConnectOK, AllocatedDeviceIsOurs
  <2> QED BY <1>1, <2>1, <2>2, RequestNBD, StepNBD DEF Next
<1> QED BY <1>1, NBDInit, TypeInvCorrect, PTL DEF Spec

(* The device NBD.allocate found without a pid file stays free until       *)
(* qemu-nbd takes it, and nobody else's image appears on it before Connect *)
(* returns, whatever other handlers connect and disconnect meanwhile.      *)
THEOREM AllocatedDeviceIsOursHolds == Spec => []AllocatedDeviceIsOurs
BY NBDCorrect, PTL DEF NBDInv

=============================================================================
