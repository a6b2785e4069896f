-------------------------- MODULE NodeServerProofs --------------------------
(***************************************************************************)
(* What every node service built on NodeServer inherits from it, whatever  *)
(* its root file systems do: as far as locks, handlers and volumes go, a   *)
(* step of it lets one handler start, advance or finish, or resets all of  *)
(* them, and each of these keeps handlers off each other's volumes and is  *)
(* a step of SerialVolumes.                                                *)
(***************************************************************************)
EXTENDS NodeServer, TLAPS

(* The stages NodeServer itself sends a handler to. *)
NodeStages == {"new", "allocate", "config", "output", "cleanup", "load",
               "disconnect"}

Starts(h, stages) ==
  \E v \in Volumes, rpc \in Operations, s \in stages : Enter(h, v, rpc, s)

Advances(h, stages) ==
  /\ Active(h)
  /\ \E s \in stages : Goto(h, s)
  /\ UNCHANGED <<locks, op, vol>>

Finishes(h) ==
  /\ Active(h)
  /\ Return(h)

Resets ==
  /\ locks' = {}
  /\ pc'  = [h \in Handlers |-> "idle"]
  /\ op'  = [h \in Handlers |-> "none"]
  /\ vol' = [h \in Handlers |-> NoVolume]

Stands == UNCHANGED <<locks, pc, op, vol>>

ControlNext(stages) ==
  \/ \E h \in Handlers : \/ Starts(h, stages)
                         \/ Advances(h, stages)
                         \/ Finishes(h)
  \/ Resets
  \/ Stands

ControlTypeOK(stages) ==
  /\ locks \subseteq Volumes
  /\ pc \in [Handlers -> {"idle"} \cup stages]
  /\ op \in [Handlers -> Operations]
  /\ vol \in [Handlers -> Volumes \cup {NoVolume}]

(* A handler has a volume exactly while it serves a request. *)
ActiveHasVolume == \A h \in Handlers : Idle(h) <=> vol[h] = NoVolume

ControlInv(stages) ==
  /\ ControlTypeOK(stages)
  /\ ActiveHasVolume
  /\ VolumeExclusion

-----------------------------------------------------------------------------
(* The locks are the volumes of the active handlers, point by point. *)
LEMMA LockedByHandler ==
  ASSUME VolumeExclusion, NEW v
  PROVE  v \in locks <=> \E h \in Handlers : Active(h) /\ vol[h] = v
BY DEF VolumeExclusion

LEMMA ControlInit == ASSUME NEW stages, NodeInit PROVE ControlInv(stages)
BY DEF NodeInit, ControlInv, ControlTypeOK, ActiveHasVolume, VolumeExclusion,
       NewVolumeLocks, Operations, Idle, Active

LEMMA ControlStep ==
  ASSUME NEW stages, "idle" \notin stages, ControlInv(stages),
         ControlNext(stages)
  PROVE  ControlInv(stages)'
<1> USE NodeAssumption
    DEF ControlInv, ControlTypeOK, ActiveHasVolume, Idle, Active, Goto
<1>1. ASSUME NEW h \in Handlers, Starts(h, stages) PROVE ControlInv(stages)'
  <2>1. PICK v \in Volumes, rpc \in Operations, s \in stages :
             Enter(h, v, rpc, s)
    BY <1>1 DEF Starts
  <2>2. \A g \in Handlers : Active(g) => vol[g] # v
    BY <2>1, LockedByHandler DEF Enter, TryAcquire
  <2>3. (ControlTypeOK(stages) /\ ActiveHasVolume)'
    BY <2>1 DEF Enter, TryAcquire
  <2>4. VolumeExclusion'
    BY <2>1, <2>2 DEF Enter, TryAcquire, VolumeExclusion
  <2> QED BY <2>3, <2>4
<1>2. ASSUME NEW h \in Handlers, Advances(h, stages)
      PROVE  ControlInv(stages)'
  BY <1>2 DEF Advances, VolumeExclusion
<1>3. ASSUME NEW h \in Handlers, Finishes(h) PROVE ControlInv(stages)'
  <2>1. (ControlTypeOK(stages) /\ ActiveHasVolume)'
    BY <1>3 DEF Finishes, Return, Release, Operations
  <2>2. \A g \in Handlers : Active(g) /\ g # h => vol[g] # vol[h]
    BY <1>3 DEF Finishes, VolumeExclusion
  <2>3. VolumeExclusion'
    BY <1>3, <2>2 DEF Finishes, Return, Release, VolumeExclusion
  <2> QED BY <2>1, <2>3
<1>4. ASSUME Resets PROVE ControlInv(stages)'
  BY <1>4 DEF Resets, VolumeExclusion, Operations
<1>5. ASSUME Stands PROVE ControlInv(stages)'
  BY <1>5 DEF Stands, VolumeExclusion
<1> QED BY <1>1, <1>2, <1>3, <1>4, <1>5 DEF ControlNext

-----------------------------------------------------------------------------
(* The actions of NodeServer are control steps of these kinds. *)
LEMMA RequestControl ==
  ASSUME NEW h \in Handlers, NEW stages, NodeStages \subseteq stages, Request(h)
  PROVE  ControlNext(stages)
<1>1. CASE \E v \in Volumes : NodePublishVolume(h, v) \/ NodeUnpublishVolume(h, v)
  <2>1. Starts(h, stages)
    BY <1>1 DEF NodePublishVolume, NodeUnpublishVolume, Starts, NodeStages,
                Operations
  <2> QED BY <2>1 DEF ControlNext
<1>2. CASE \E v \in Volumes : AlreadyExists(h, v)
  <2>1. Stands
    BY <1>2 DEF AlreadyExists, AcquireDenied, Stands
  <2> QED BY <2>1 DEF ControlNext
<1> QED BY <1>1, <1>2 DEF Request

LEMMA NodeStepControl ==
  ASSUME NEW h \in Handlers, NEW stages, NodeStages \subseteq stages, NodeStep(h)
  PROVE  Advances(h, stages) \/ Finishes(h)
<1> USE DEF Advances, Finishes, Active, Idle, NodeStages
<1>1. CASE NewRootFS(h)   BY <1>1 DEF NewRootFS, ErrorLun
<1>2. CASE LoadRootFS(h)  BY <1>2 DEF LoadRootFS
<1>3. CASE WriteConfig(h) BY <1>3 DEF WriteConfig, Fail
<1>4. CASE WriteOutput(h) BY <1>4 DEF WriteOutput, Fail
<1> QED BY <1>1, <1>2, <1>3, <1>4 DEF NodeStep

LEMMA NodeRestartControl ==
  ASSUME NEW lost, NodeRestart(lost) PROVE Resets
BY DEF NodeRestart, Resets, NewVolumeLocks

-----------------------------------------------------------------------------
(* The caller's view of the control. *)
LEMMA SerialInit == NodeInit => Serial!Init
BY DEF NodeInit, Serial!Init

LEMMA SerialStep ==
  ASSUME NEW stages, "idle" \notin stages, ControlInv(stages),
         ControlNext(stages)
  PROVE  Serial!Next \/ UNCHANGED vol
<1> USE NodeAssumption
    DEF ControlInv, ControlTypeOK, ActiveHasVolume, Idle, Active
<1>1. ASSUME NEW h \in Handlers, Starts(h, stages) PROVE Serial!Next
  <2>1. PICK v \in Volumes, rpc \in Operations, s \in stages :
             Enter(h, v, rpc, s)
    BY <1>1 DEF Starts
  <2>2. \A g \in Handlers : vol[g] # v
    BY <2>1, LockedByHandler DEF Enter, TryAcquire
  <2>3. Serial!Begin(h, v)
    BY <2>1, <2>2 DEF Enter, Serial!Begin, Serial!Free
  <2> QED BY <2>3 DEF Serial!Next
<1>2. ASSUME NEW h \in Handlers, Advances(h, stages) PROVE UNCHANGED vol
  BY <1>2 DEF Advances
<1>3. ASSUME NEW h \in Handlers, Finishes(h) PROVE Serial!Next
  <2>1. Serial!End(h)
    BY <1>3 DEF Finishes, Return, Serial!End
  <2> QED BY <2>1 DEF Serial!Next
<1>4. ASSUME Resets PROVE Serial!Next
  BY <1>4 DEF Resets, Serial!Abandon, Serial!Next
<1>5. ASSUME Stands PROVE UNCHANGED vol
  BY <1>5 DEF Stands
<1> QED BY <1>1, <1>2, <1>3, <1>4, <1>5 DEF ControlNext

-----------------------------------------------------------------------------
(* Types of the data NodeServer keeps. *)
NodeDataOK ==
  /\ dev \in [Handlers -> DeviceOrNone]
  /\ typeFile \in [Volumes -> FileStates]
  /\ config \in [Volumes -> File]
  /\ output \in [Claims -> File]
  /\ view \in [Volumes -> Views]

LEMMA NodeTypeSplit ==
  ASSUME NEW stages
  PROVE  /\ NodeTypeOK(stages) <=> ControlTypeOK(stages) /\ NodeDataOK
         /\ NodeTypeOK(stages)' <=> (ControlTypeOK(stages) /\ NodeDataOK)'
BY DEF NodeTypeOK, ControlTypeOK, NodeDataOK, LocksTypeOK

LEMMA FileTypes ==
  /\ Absent \in File
  /\ Torn \in File
  /\ \A d \in DeviceOrNone : Written(d) \in File /\ Written(d).dev = d
  /\ \A f \in File : f = [state |-> f.state, dev |-> f.dev]
BY DEF File, Absent, Torn, Written, FileStates, DeviceOrNone

LEMMA NodeDataInit == NodeInit => NodeDataOK
BY FileTypes DEF NodeInit, NodeDataOK, DeviceOrNone, FileStates, Views

LEMMA RequestData ==
  ASSUME NEW h \in Handlers, NodeDataOK, Request(h) PROVE NodeDataOK'
BY DEF NodeDataOK, Request, NodePublishVolume, NodeUnpublishVolume,
       AlreadyExists, Views

LEMMA NodeStepData ==
  ASSUME NEW h \in Handlers, NodeDataOK, vol[h] \in Volumes, NodeStep(h)
  PROVE  NodeDataOK'
<1> USE NodeAssumption, FileTypes DEF NodeDataOK
<1>1. CASE NewRootFS(h)
  BY <1>1 DEF NewRootFS, ErrorLun, Return, WriteFails, DeviceOrNone, FileStates
<1>2. CASE LoadRootFS(h)
  <2>1. config[vol[h]].dev \in DeviceOrNone
    BY DEF File
  <2> QED BY <1>2, <2>1 DEF LoadRootFS, Return, DeviceOrNone
<1>3. CASE WriteConfig(h)
  <2>1. PICK f \in File : config' = [config EXCEPT ![vol[h]] = f]
    BY <1>3 DEF WriteConfig, WriteFails
  <2>2. dev' \in [Handlers -> DeviceOrNone]
    BY <1>3 DEF WriteConfig, Fail, Return, DeviceOrNone
  <2> QED BY <1>3, <2>1, <2>2 DEF WriteConfig
<1>4. CASE WriteOutput(h)
  <2>1. PICK f \in File : output' = [output EXCEPT ![ClaimOf[vol[h]]] = f]
    BY <1>4 DEF WriteOutput, WriteFails
  <2>2. dev' \in [Handlers -> DeviceOrNone] /\ view' \in [Volumes -> Views]
    BY <1>4 DEF WriteOutput, Fail, Return, DeviceOrNone, Views
  <2> QED BY <1>4, <2>1, <2>2 DEF WriteOutput
<1> QED BY <1>1, <1>2, <1>3, <1>4 DEF NodeStep

LEMMA NodeRestartData ==
  ASSUME NEW lost, NodeDataOK, NodeRestart(lost) PROVE NodeDataOK'
BY FileTypes DEF NodeDataOK, NodeRestart, DeviceOrNone, FileStates, Views

=============================================================================
