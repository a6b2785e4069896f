-------------------------- MODULE ISCSINodeProofs --------------------------
(***************************************************************************)
(* Theorems about ISCSINode, for every number of handlers, volumes,        *)
(* devices and targets, every assignment of volumes to targets and every   *)
(* combination of faults.  The control is NodeServer's, as it is for       *)
(* QemuNode: every action is a control step of NodeServerProofs.           *)
(***************************************************************************)
EXTENDS ISCSINode, NodeServerProofs

ISCSIDataOK ==
  /\ sessions \subseteq Targets
  /\ attached \in [Devices -> Volumes \cup {NoVolume}]
  /\ excused \subseteq Targets

TypeInv == ControlInv(Stages) /\ NodeDataOK /\ ISCSIDataOK

-----------------------------------------------------------------------------
(* Control *)

LEMMA StagesOK == "idle" \notin Stages /\ NodeStages \subseteq Stages
BY DEF Stages, NodeStages

LEMMA StepControl ==
  ASSUME NEW h \in Handlers, Step(h)
  PROVE  Advances(h, Stages) \/ Finishes(h)
<1>1. CASE NodeStep(h)
  BY <1>1, NodeStepControl, StagesOK
<1> USE DEF Advances, Finishes, Active, Idle, Stages
<1>2. CASE GetSession(h)
  BY <1>2 DEF GetSession, ParseForeign, Panic
<1>3. CASE CloseSession(h)
  BY <1>3 DEF CloseSession
<1>4. CASE AttachDisk(h)
  BY <1>4 DEF AttachDisk, AfterAttach
<1>5. CASE PreemptLUN(h)
  BY <1>5 DEF PreemptLUN
<1>6. CASE Disconnect(h)
  BY <1>6 DEF Disconnect
<1> QED BY <1>1, <1>2, <1>3, <1>4, <1>5, <1>6 DEF Step

LEMMA NextControl == [Next]_vars => ControlNext(Stages)
<1>1. ASSUME NEW h \in Handlers, Request(h) PROVE ControlNext(Stages)
  BY <1>1, RequestControl, StagesOK
<1>2. ASSUME NEW h \in Handlers, Step(h) PROVE ControlNext(Stages)
  BY <1>2, StepControl DEF ControlNext
<1>3. ASSUME Restart PROVE ControlNext(Stages)
  BY <1>3, NodeRestartControl DEF Restart, ControlNext
<1>4. ASSUME UNCHANGED vars PROVE ControlNext(Stages)
  BY <1>4 DEF vars, nodeVars, ControlNext, Stands
<1> QED BY <1>1, <1>2, <1>3, <1>4 DEF Next

LEMMA ControlCorrect == Spec => []ControlInv(Stages)
<1>1. Init => ControlInv(Stages)
  BY ControlInit DEF Init
<1>2. ControlInv(Stages) /\ [Next]_vars => ControlInv(Stages)'
  BY NextControl, ControlStep, StagesOK
<1> QED BY <1>1, <1>2, PTL DEF Spec

(* Whatever fails in opening, closing or preempting iSCSI disks, handlers  *)
(* never share a volume, and every path out of a handler releases its lock.*)
THEOREM VolumeExclusionHolds == Spec => []VolumeExclusion
BY ControlCorrect, PTL DEF ControlInv

(* The node service refines SerialVolumes with iSCSI root file systems,    *)
(* too, also where volumes are LUNs of one target.                         *)
THEOREM SerialRefinement == Spec => ImplementsSerialVolumes
<1>1. Init => Serial!Init
  BY SerialInit DEF Init
<1>2. ControlInv(Stages) /\ [Next]_vars => [Serial!Next]_vol
  BY NextControl, SerialStep, StagesOK
<1> QED
  BY <1>1, <1>2, ControlCorrect, PTL DEF Spec, ImplementsSerialVolumes, Serial!Spec

-----------------------------------------------------------------------------
(* Types *)

(* However the kernel names devices, each has at most one LUN. *)
LEMMA AttachLunsType ==
  ASSUME ISCSIDataOK, NEW t \in Targets, AttachLuns(t)
  PROVE  attached' \in [Devices -> Volumes \cup {NoVolume}]
<1>1. PICK f \in Namings(t) :
        attached' = [d \in Devices |-> IF Named(f, d)
                                         THEN CHOOSE v \in Luns(t) : f[v] = d
                                         ELSE attached[d]]
  BY DEF AttachLuns
<1>2. ASSUME NEW d \in Devices, Named(f, d)
      PROVE  (CHOOSE v \in Luns(t) : f[v] = d) \in Volumes
  <2>1. \E v \in Luns(t) : f[v] = d
    BY <1>2 DEF Named, Namings
  <2> QED BY <2>1 DEF Luns
<1> QED BY <1>1, <1>2 DEF ISCSIDataOK

LEMMA DetachDiskType ==
  ASSUME ISCSIDataOK, NEW t \in Targets, DetachDisk(t) PROVE ISCSIDataOK'
BY DEF DetachDisk, RemoveLuns, ISCSIDataOK

LEMMA DataInit == Init => NodeDataOK /\ ISCSIDataOK
BY NodeDataInit DEF Init, ISCSIDataOK

LEMMA StepData ==
  ASSUME NEW h \in Handlers, TypeInv, Step(h)
  PROVE  NodeDataOK' /\ ISCSIDataOK'
<1>1. vol[h] \in Volumes /\ TargetOf[vol[h]] \in Targets
  BY StepControl, ISCSIAssumption
     DEF TypeInv, ControlInv, ControlTypeOK, ActiveHasVolume,
         Advances, Finishes, Active
<1>2. CASE NodeStep(h) /\ UNCHANGED iscsiVars
  BY <1>1, <1>2, NodeStepData DEF TypeInv, ISCSIDataOK, iscsiVars
<1>3. CASE GetSession(h)
  BY <1>3 DEF GetSession, ParseForeign, Panic, Return, TypeInv, NodeDataOK, ISCSIDataOK, iscsiVars,
              DeviceOrNone
<1>4. CASE CloseSession(h)
  BY <1>1, <1>4, DetachDiskType DEF CloseSession, TypeInv, NodeDataOK, Views
<1>5. CASE AttachDisk(h)
  <2>1. attached' \in [Devices -> Volumes \cup {NoVolume}]
    BY <1>1, <1>5, AttachLunsType DEF AttachDisk, TypeInv, ISCSIDataOK
  <2>2. dev' \in [Handlers -> DeviceOrNone]
    BY <1>5 DEF AttachDisk, Found, TypeInv, NodeDataOK, DeviceOrNone
  <2>3. sessions' \subseteq Targets /\ excused' \subseteq Targets
    BY <1>1, <1>5 DEF AttachDisk, TypeInv, ISCSIDataOK
  <2> QED BY <1>5, <2>1, <2>2, <2>3 DEF AttachDisk, TypeInv, NodeDataOK, ISCSIDataOK
<1>6. CASE PreemptLUN(h)
  <2>1. dev' \in [Handlers -> DeviceOrNone]
    BY <1>6 DEF PreemptLUN, TypeInv, NodeDataOK, DeviceOrNone
  <2>2. ISCSIDataOK'
    BY <1>1, <1>6, DetachDiskType DEF PreemptLUN, TypeInv, ISCSIDataOK, iscsiVars
  <2> QED BY <1>6, <2>1, <2>2 DEF PreemptLUN, TypeInv, NodeDataOK
<1>7. CASE Disconnect(h)
  <2>1. dev' \in [Handlers -> DeviceOrNone]
    BY <1>7 DEF Disconnect, Return, TypeInv, NodeDataOK, DeviceOrNone
  <2>2. ISCSIDataOK'
    BY <1>1, <1>7, DetachDiskType DEF Disconnect, TypeInv, ISCSIDataOK, iscsiVars
  <2> QED BY <1>7, <2>1, <2>2 DEF Disconnect, TypeInv, NodeDataOK
<1> QED BY <1>2, <1>3, <1>4, <1>5, <1>6, <1>7 DEF Step

LEMMA RestartData ==
  ASSUME TypeInv, Restart PROVE NodeDataOK' /\ ISCSIDataOK'
<1>1. NodeDataOK'
  BY NodeRestartData DEF Restart, TypeInv
<1>2. ISCSIDataOK'
  BY DEF Restart, RemoveLuns, TypeInv, ISCSIDataOK
<1> QED BY <1>1, <1>2

LEMMA TypeInvCorrect == Spec => []TypeInv
<1>1. Init => TypeInv
  BY ControlInit, DataInit DEF Init, TypeInv
<1>2. ASSUME TypeInv, [Next]_vars PROVE TypeInv'
  <2>1. ControlInv(Stages)'
    BY <1>2, NextControl, ControlStep, StagesOK DEF TypeInv
  <2>2. NodeDataOK' /\ ISCSIDataOK'
    <3>1. CASE \E h \in Handlers : Request(h) /\ UNCHANGED iscsiVars
      BY <1>2, <3>1, RequestData DEF TypeInv, ISCSIDataOK, iscsiVars
    <3>2. CASE UNCHANGED vars
      BY <1>2, <3>2 DEF TypeInv, NodeDataOK, ISCSIDataOK, vars, nodeVars, iscsiVars
    <3> QED BY <1>2, <3>1, <3>2, StepData, RestartData DEF Next
  <2> QED BY <2>1, <2>2 DEF TypeInv
<1> QED BY <1>1, <1>2, PTL DEF Spec

(* The variables always have the values the code can give them. *)
THEOREM TypeCorrect == Spec => []TypeOK
<1>1. TypeInv => TypeOK
  BY NodeTypeSplit DEF TypeInv, ControlInv, TypeOK, ISCSIDataOK
<1> QED BY <1>1, TypeInvCorrect, PTL

=============================================================================
