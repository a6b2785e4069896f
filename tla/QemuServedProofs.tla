-------------------------- MODULE QemuServedProofs --------------------------
(***************************************************************************)
(* Theorems about what QemuNode promises its caller: a published volume is *)
(* served and can be loaded, an unpublished one is forgotten and released, *)
(* its image is kept and no device is lost; when no device is taken from   *)
(* another volume and none is missing as a publish returns; and that, as   *)
(* long as nothing fails, QemuNode implements VolumeDevices.  They rest on *)
(* the types and on NBDConnectLock (QemuNodeProofs), and on what a handler *)
(* at each stage knows about its volume: HandlerKnows.                     *)
(***************************************************************************)
EXTENDS QemuNodeProofs

PublishStages   == {"new", "allocate", "create", "nbdlock", "attach",
                    "settle", "config", "output", "cleanup"}
UnpublishStages == {"load", "disconnect", "config", "output"}

(* What holds of a handler at each of its stages. *)
HandlerKnows(h) ==
  /\ pc[h] \in {"idle", "new", "allocate", "create", "nbdlock", "load"}
       => dev[h] = NoDevice
  /\ Active(h) => \/ op[h] = "publish"   /\ pc[h] \in PublishStages
                  \/ op[h] = "unpublish" /\ pc[h] \in UnpublishStages
  /\ pc[h] \in {"config", "output"} =>
       IF op[h] = "publish" THEN dev[h] \in Devices ELSE dev[h] = NoDevice
  /\ pc[h] = "output" => config[vol[h]] = Written(dev[h])
  /\ Active(h) /\ op[h] = "publish"   => view[vol[h]] # "unpublished"
  /\ Active(h) /\ op[h] = "unpublish" => view[vol[h]] # "published"

KnowInv == (\A h \in Handlers : HandlerKnows(h)) /\ UnpublishedForgetsDevice

LEMMA ActiveVolume ==
  ASSUME TypeInv, NEW h \in Handlers, Active(h) PROVE vol[h] \in Volumes
BY DEF TypeInv, ControlInv, ControlTypeOK, ActiveHasVolume, Active

LEMMA StepActive ==
  ASSUME NEW h \in Handlers, Step(h) PROVE Active(h)
BY StepControl DEF Advances, Finishes

(* What handler g holds, and what is kept about its volume, is left alone. *)
Untouched(g) ==
  /\ pc'[g] = pc[g] /\ op'[g] = op[g] /\ vol'[g] = vol[g] /\ dev'[g] = dev[g]
  /\ Active(g) => /\ config'[vol[g]] = config[vol[g]]
                  /\ view'[vol[g]] = view[vol[g]]

LEMMA StepUntouched ==
  ASSUME TypeInv, NEW h \in Handlers, Step(h), NEW g \in Handlers, g # h
  PROVE  Untouched(g)
<1>1. Active(g) => vol[g] # vol[h]
  BY StepActive DEF TypeInv, ControlInv, VolumeExclusion
<1>2. Active(g) => vol[g] \in Volumes
  BY ActiveVolume
<1> USE DEF TypeInv, ControlInv, ControlTypeOK, NodeDataOK, Untouched, Goto
<1>3. CASE NodeStep(h)
  BY <1>1, <1>2, <1>3
     DEF NodeStep, NewRootFS, ErrorLun, LoadRootFS, WriteConfig, WriteOutput, Fail, Return
<1>4. CASE Allocate(h) \/ CreateImageFromBase(h)
  BY <1>4 DEF Allocate, CreateImageFromBase, Return
<1>5. CASE LockNBD(h) \/ AttachNBD(h) \/ SettleNBD(h)
  BY <1>5 DEF LockNBD, AttachNBD, SettleNBD
<1>6. CASE Disconnect(h)
  BY <1>6 DEF Disconnect, Return
<1> QED BY <1>3, <1>4, <1>5, <1>6 DEF Step

LEMMA RequestUntouched ==
  ASSUME TypeInv, NEW h \in Handlers, Request(h), NEW g \in Handlers, g # h
  PROVE  Untouched(g)
<1>1. CASE \E v \in Volumes : NodePublishVolume(h, v) \/ NodeUnpublishVolume(h, v)
  <2>1. PICK v \in Volumes : NodePublishVolume(h, v) \/ NodeUnpublishVolume(h, v)
    BY <1>1
  <2>2. Active(g) => vol[g] # v
    BY <2>1, LockedByHandler
       DEF NodePublishVolume, NodeUnpublishVolume, Enter, TryAcquire,
           TypeInv, ControlInv
  <2>3. Active(g) => vol[g] \in Volumes
    BY ActiveVolume
  <2> QED
    BY <2>1, <2>2, <2>3
       DEF NodePublishVolume, NodeUnpublishVolume, Enter, Goto, Untouched,
           TypeInv, ControlInv, ControlTypeOK, NodeDataOK
<1>2. CASE \E v \in Volumes : AlreadyExists(h, v)
  BY <1>2 DEF AlreadyExists, Untouched
<1> QED BY <1>1, <1>2 DEF Request

LEMMA UntouchedKnows ==
  ASSUME NEW g \in Handlers, HandlerKnows(g), Untouched(g)
  PROVE  HandlerKnows(g)'
BY DEF HandlerKnows, Untouched, Active, Idle, Written

LEMMA KnowInit == Init => KnowInv
BY DEF Init, NodeInit, KnowInv, HandlerKnows, UnpublishedForgetsDevice, Absent,
       Active, Idle

LEMMA StepKnows ==
  ASSUME TypeInv, NBDInv, KnowInv, NEW h \in Handlers, Step(h)
  PROVE  HandlerKnows(h)'
<1>1. vol[h] \in Volumes
  BY ActiveVolume, StepActive
<1> USE <1>1 DEF TypeInv, ControlInv, ControlTypeOK, NodeDataOK, KnowInv,
        HandlerKnows, Goto, Active, Idle, PublishStages, UnpublishStages
<1>2. CASE NewRootFS(h)
  BY <1>2 DEF NewRootFS, ErrorLun, Return
<1>3. CASE LoadRootFS(h)
  BY <1>3 DEF LoadRootFS, Return
<1>4. CASE WriteConfig(h)
  BY <1>4 DEF WriteConfig, Fail, Return, Written
<1>5. CASE WriteOutput(h)
  BY <1>5 DEF WriteOutput, Fail, Return
<1>6. CASE Allocate(h) \/ CreateImageFromBase(h)
  BY <1>6 DEF Allocate, CreateImageFromBase, Return
<1>7. CASE LockNBD(h)
  BY <1>7 DEF LockNBD
<1>8. CASE AttachNBD(h)
  BY <1>8 DEF AttachNBD
<1>9. CASE SettleNBD(h)
  BY <1>9 DEF SettleNBD, NBDInv, ConnectOK, Connecting
<1>10. CASE Disconnect(h)
  BY <1>10 DEF Disconnect, Return
<1> QED BY <1>2, <1>3, <1>4, <1>5, <1>6, <1>7, <1>8, <1>9, <1>10 DEF Step, NodeStep

LEMMA RequestKnows ==
  ASSUME TypeInv, KnowInv, NEW h \in Handlers, Request(h)
  PROVE  HandlerKnows(h)'
<1> USE DEF TypeInv, ControlInv, ControlTypeOK, NodeDataOK, KnowInv,
        HandlerKnows, Goto, Active, Idle, PublishStages, UnpublishStages
<1>1. ASSUME NEW v \in Volumes, NodePublishVolume(h, v) PROVE HandlerKnows(h)'
  BY <1>1 DEF NodePublishVolume, Enter
<1>2. ASSUME NEW v \in Volumes, NodeUnpublishVolume(h, v) PROVE HandlerKnows(h)'
  BY <1>2 DEF NodeUnpublishVolume, Enter
<1>3. ASSUME NEW v \in Volumes, AlreadyExists(h, v) PROVE HandlerKnows(h)'
  BY <1>3 DEF AlreadyExists, Written
<1> QED BY <1>1, <1>2, <1>3 DEF Request

LEMMA StepForgets ==
  ASSUME TypeInv, KnowInv, NEW h \in Handlers, Step(h)
  PROVE  UnpublishedForgetsDevice'
<1>1. vol[h] \in Volumes /\ Active(h)
  BY ActiveVolume, StepActive
<1> USE <1>1 DEF TypeInv, NodeDataOK, KnowInv, UnpublishedForgetsDevice
<1>2. CASE WriteConfig(h)
  <2>1. view[vol[h]] = "unpublished" => dev[h] = NoDevice
    BY <1>2 DEF WriteConfig, HandlerKnows, UnpublishStages
  <2>2. PICK f \in {Written(dev[h]), config[vol[h]], Torn} :
             config' = [config EXCEPT ![vol[h]] = f]
    BY <1>2 DEF WriteConfig, WriteFails
  <2>3. view[vol[h]] = "unpublished" => f.dev = NoDevice
    BY <2>1, <2>2 DEF Written, Torn
  <2> QED BY <1>2, <2>2, <2>3 DEF WriteConfig
<1>3. CASE WriteOutput(h)
  <2>1. op[h] # "publish" => config[vol[h]].dev = NoDevice
    BY <1>3 DEF WriteOutput, HandlerKnows, Written
  <2> QED BY <1>3, <2>1 DEF WriteOutput
<1>4. CASE UNCHANGED <<config, view>>
  BY <1>4
<1> QED BY <1>2, <1>3, <1>4
  DEF Step, NodeStep, NewRootFS, ErrorLun, LoadRootFS, Allocate, CreateImageFromBase,
      LockNBD, AttachNBD, SettleNBD, Disconnect

LEMMA RestartKnows ==
  ASSUME TypeInv, KnowInv, Restart PROVE KnowInv'
<1>1. \A h \in Handlers : HandlerKnows(h)'
  BY DEF Restart, NodeRestart, HandlerKnows, Active, Idle
<1>2. UnpublishedForgetsDevice'
  BY DEF Restart, NodeRestart, Torn, KnowInv, UnpublishedForgetsDevice, TypeInv,
         NodeDataOK
<1> QED BY <1>1, <1>2 DEF KnowInv

LEMMA KnowCorrect == Spec => []KnowInv
<1>1. ASSUME TypeInv, NBDInv, KnowInv, [Next]_vars PROVE KnowInv'
  <2>1. ASSUME NEW h \in Handlers, Step(h) PROVE KnowInv'
    BY <1>1, <2>1, StepKnows, StepUntouched, UntouchedKnows, StepForgets
       DEF KnowInv
  <2>2. ASSUME NEW h \in Handlers, Request(h) PROVE KnowInv'
    <3>1. UnpublishedForgetsDevice'
      BY <1>1, <2>2
         DEF Request, NodePublishVolume, NodeUnpublishVolume, AlreadyExists,
             KnowInv, UnpublishedForgetsDevice, TypeInv, NodeDataOK
    <3> QED BY <1>1, <2>2, <3>1, RequestKnows, RequestUntouched, UntouchedKnows
            DEF KnowInv
  <2>3. ASSUME UNCHANGED vars PROVE KnowInv'
    BY <1>1, <2>3 DEF vars, nodeVars, KnowInv, HandlerKnows, Active, Idle,
       Written, UnpublishedForgetsDevice
  <2> QED BY <1>1, <2>1, <2>2, <2>3, RestartKnows DEF Next
<1> QED BY <1>1, KnowInit, TypeInvCorrect, NBDCorrect, PTL DEF Spec

(* Once NodeUnpublishVolume has returned OK, the config on disk names no   *)
(* device until the next publish, so a duplicate of the call cannot        *)
(* disconnect what has since become another volume's device.               *)
THEOREM UnpublishedForgetsDeviceHolds == Spec => []UnpublishedForgetsDevice
BY KnowCorrect, PTL DEF KnowInv

-----------------------------------------------------------------------------
(* Every volume has a claim, and so an output file, of its own. *)
ClaimsDistinct == \A v, w \in Volumes : ClaimOf[v] = ClaimOf[w] => v = w

(* How the device in a handler's hand relates to its volume.  A publish    *)
(* repeated for a volume that is served never gets past qemu-nbd, which    *)
(* refuses the image, and its cleanup is for another device.               *)
DeviceMatches(h) ==
  op[h] = "publish" =>
    /\ pc[h] \in {"config", "output"}
         => attached[dev[h]] = vol[h] \/ vol[h] \in harmed
    /\ pc[h] \in {"settle", "config", "output"} /\ view[vol[h]] = "published"
         => vol[h] \in harmed
    /\ pc[h] = "cleanup" /\ view[vol[h]] = "published" /\ dev[h] # NoDevice
         => attached[dev[h]] # vol[h] \/ vol[h] \in harmed

ServedInv ==
  /\ \A h \in Handlers : Active(h) => DeviceMatches(h)
  /\ PublishedServed

(* What a step may do about a volume its handler has not locked: at most   *)
(* take it off its device, and then it is harmed.                          *)
AtMostHarmed(v) ==
  /\ v \in harmed => v \in harmed'
  /\ \A d \in Devices : attached[d] = v => attached'[d] = v \/ v \in harmed'
  /\ \A d \in Devices : attached'[d] = v => attached[d] = v
  /\ config'[v] = config[v]
  /\ view'[v] = view[v]
  /\ output'[ClaimOf[v]] = output[ClaimOf[v]]

LEMMA StepHarmsAtMost ==
  ASSUME ClaimsDistinct, TypeInv, NEW h \in Handlers, Step(h),
         NEW v \in Volumes, v # vol[h]
  PROVE  AtMostHarmed(v)
<1>1. /\ vol[h] \in Volumes /\ v # NoVolume
      /\ ClaimOf[v] \in Claims /\ ClaimOf[v] # ClaimOf[vol[h]]
  BY ActiveVolume, StepActive, NodeAssumption DEF ClaimsDistinct
<1> USE <1>1 DEF TypeInv, NodeDataOK, QemuDataOK, AtMostHarmed
<1>2. CASE NodeStep(h) /\ harmed' = StillHarmed(h) /\ UNCHANGED attached
  <2>1. v \in harmed => v \in harmed'
    BY <1>2 DEF StillHarmed
  <2>2. config'[v] = config[v] /\ view'[v] = view[v]
    BY <1>2 DEF NodeStep, NewRootFS, ErrorLun, LoadRootFS, WriteConfig, WriteOutput
  <2>3. output'[ClaimOf[v]] = output[ClaimOf[v]]
    BY <1>2 DEF NodeStep, NewRootFS, ErrorLun, LoadRootFS, WriteConfig, WriteOutput
  <2> QED BY <1>2, <2>1, <2>2, <2>3
<1>3. CASE Allocate(h) \/ CreateImageFromBase(h) \/ LockNBD(h) \/ SettleNBD(h)
  BY <1>3 DEF Allocate, CreateImageFromBase, LockNBD, SettleNBD, qemuVars
<1>4. CASE AttachNBD(h)
  BY <1>4 DEF AttachNBD
<1>5. CASE Disconnect(h)
  BY <1>5 DEF Disconnect, FreeDevice
<1> QED BY <1>2, <1>3, <1>4, <1>5 DEF Step

(* So a step leaves every other volume served, and other handlers with     *)
(* the devices they had.                                                   *)
LEMMA OthersServed ==
  ASSUME ClaimsDistinct, TypeInv, KnowInv, NBDInv, ServedInv,
         NEW h \in Handlers, Step(h)
  PROVE  /\ \A g \in Handlers \ {h} : Active(g)' => DeviceMatches(g)'
         /\ \A v \in Volumes \ {vol[h]} :
              v \notin harmed' /\ view'[v] = "published" => Served(v)'
<1>1. ASSUME NEW g \in Handlers, g # h, Active(g)' PROVE DeviceMatches(g)'
  <2>1. Untouched(g)
    BY <1>1, StepUntouched
  <2>2. Active(g) /\ DeviceMatches(g)
    BY <1>1, <2>1 DEF Untouched, Active, Idle, ServedInv
  <2>3. vol[g] \in Volumes /\ vol[g] # vol[h]
    BY <1>1, <2>2, ActiveVolume, StepActive
       DEF TypeInv, ControlInv, VolumeExclusion
  <2>4. AtMostHarmed(vol[g])
    BY <2>3, StepHarmsAtMost
  <2>5. op[g] = "publish" /\ pc[g] \in {"config", "output"} => dev[g] \in Devices
    BY DEF KnowInv, HandlerKnows
  <2>6. dev[g] # NoDevice => dev[g] \in Devices
    BY DEF TypeInv, NodeDataOK, DeviceOrNone
  <2> QED BY <2>1, <2>2, <2>4, <2>5, <2>6
          DEF Untouched, AtMostHarmed, DeviceMatches
<1>2. ASSUME NEW v \in Volumes, v # vol[h], v \notin harmed',
             view'[v] = "published"
      PROVE  Served(v)'
  BY <1>2, StepHarmsAtMost
     DEF AtMostHarmed, ServedInv, PublishedServed, Served, Written
<1> QED BY <1>1, <1>2

(* The handler's own volume. *)
LEMMA StepMatches ==
  ASSUME TypeInv, KnowInv, NBDInv, ServedInv, NEW h \in Handlers, Step(h),
         Active(h)'
  PROVE  DeviceMatches(h)'
<1>1. vol[h] \in Volumes /\ vol[h] # NoVolume /\ Active(h)
  BY ActiveVolume, StepActive, NodeAssumption
<1>2. DeviceMatches(h)
  BY <1>1 DEF ServedInv
<1> USE <1>1, <1>2
    DEF TypeInv, ControlInv, ControlTypeOK, NodeDataOK, QemuDataOK, Goto,
        DeviceMatches, Active, Idle
<1>3. CASE NewRootFS(h) \/ LoadRootFS(h)
  BY <1>3 DEF NewRootFS, ErrorLun, LoadRootFS, Return
<1>4. CASE WriteConfig(h) /\ harmed' = StillHarmed(h) /\ UNCHANGED attached
  BY <1>4 DEF WriteConfig, Fail, Return, StillHarmed
<1>5. CASE WriteOutput(h) /\ harmed' = StillHarmed(h) /\ UNCHANGED attached
  BY <1>5 DEF WriteOutput, Fail, Return, StillHarmed
<1>6. CASE Allocate(h) \/ CreateImageFromBase(h)
  BY <1>6 DEF Allocate, CreateImageFromBase, Return
<1>7. CASE LockNBD(h)
  BY <1>7 DEF LockNBD, KnowInv, HandlerKnows
<1>8. CASE AttachNBD(h)
  <2>1. attached[dev[h]] = NoVolume
    BY <1>8 DEF AttachNBD, NBDInv, AllocatedDeviceIsOurs
  <2>2. ~ ImageBusy(vol[h]) /\ view[vol[h]] = "published" => vol[h] \in harmed
    BY DEF ImageBusy, ServedInv, PublishedServed, Served
  <2> QED BY <1>8, <2>1, <2>2 DEF AttachNBD
<1>9. CASE SettleNBD(h)
  BY <1>9 DEF SettleNBD, NBDInv, AllocatedDeviceIsOurs
<1>10. CASE Disconnect(h)
  BY <1>10 DEF Disconnect, Return, KnowInv, HandlerKnows, UnpublishStages, PublishStages
<1> QED BY <1>3, <1>4, <1>5, <1>6, <1>7, <1>8, <1>9, <1>10 DEF Step, NodeStep

LEMMA StepServes ==
  ASSUME TypeInv, KnowInv, NBDInv, ServedInv, NEW h \in Handlers, Step(h),
         NEW v, v = vol[h], v \notin harmed', view'[v] = "published"
  PROVE  Served(v)'
<1>1. v \in Volumes /\ v # NoVolume /\ Active(h) /\ ClaimOf[v] \in Claims
  BY ActiveVolume, StepActive, NodeAssumption
<1>2. DeviceMatches(h) /\ HandlerKnows(h)
  BY <1>1 DEF ServedInv, KnowInv
<1>3. v \notin harmed /\ view[v] = "published" => Served(v)
  BY <1>1 DEF ServedInv, PublishedServed
<1> USE <1>1 DEF TypeInv, NodeDataOK, QemuDataOK
<1>4. CASE UNCHANGED <<attached, config, output, view, harmed>>
  BY <1>3, <1>4 DEF Served, Written
<1>5. CASE WriteConfig(h) /\ harmed' = StillHarmed(h)
  BY <1>2, <1>5 DEF WriteConfig, StillHarmed, DeviceMatches, HandlerKnows
<1>6. CASE WriteOutput(h) /\ harmed' = StillHarmed(h) /\ UNCHANGED attached
  <2>1. CASE op[h] # "publish"
    BY <1>2, <1>6, <2>1 DEF WriteOutput, HandlerKnows
  <2> USE DEF TypeInv, ControlInv, ControlTypeOK, Goto
  <2>2. CASE op[h] = "publish" /\ pc'[h] # "idle"
    <3>1. view' = view
      BY <1>6, <2>2 DEF WriteOutput, Return
    <3> QED BY <1>2, <1>6, <2>2, <3>1 DEF WriteOutput, StillHarmed, DeviceMatches
  <2>3. CASE op[h] = "publish" /\ pc'[h] = "idle"
    <3>1. /\ output'[ClaimOf[v]] = Written(dev[h])
          /\ attached'[dev[h]] = attached[dev[h]]
      BY <1>6, <2>3 DEF WriteOutput, Fail
    <3>2. config'[v] = Written(dev[h]) /\ dev[h] \in Devices
      BY <1>2, <1>6, <2>3 DEF WriteOutput, HandlerKnows
    <3>3. attached[dev[h]] = v
      BY <1>2, <1>6, <2>3
         DEF WriteOutput, StillHarmed, DeviceMatches, Return, Goto
    <3> QED BY <3>1, <3>2, <3>3 DEF Served, Written
  <2> QED BY <2>1, <2>2, <2>3
<1>7. CASE AttachNBD(h)
  <2>1. view[v] = "published" /\ v \notin harmed
    BY <1>7 DEF AttachNBD
  <2>2. ImageBusy(v)
    BY <1>3, <2>1 DEF Served, ImageBusy
  <2> QED BY <1>3, <1>7, <2>1, <2>2 DEF AttachNBD, Served, Written
<1>8. CASE Disconnect(h)
  <2>1. view[v] = "published" /\ v \notin harmed
    BY <1>8 DEF Disconnect, FreeDevice
  <2>2. dev[h] = NoDevice \/ attached[dev[h]] # v
    BY <1>2, <1>8, <2>1
       DEF Disconnect, DeviceMatches, HandlerKnows, PublishStages
  <2>3. \A d \in Devices : attached[d] = v => attached'[d] = v
    BY <1>8, <2>2 DEF Disconnect, FreeDevice
  <2> QED BY <1>3, <1>8, <2>1, <2>3 DEF Disconnect, Served, Written
<1> QED
  BY <1>4, <1>5, <1>6, <1>7, <1>8
     DEF Step, NodeStep, NewRootFS, ErrorLun, LoadRootFS, Allocate, CreateImageFromBase,
         LockNBD, SettleNBD, StillHarmed, qemuVars

LEMMA RequestServed ==
  ASSUME TypeInv, KnowInv, ServedInv, NEW h \in Handlers, Request(h),
         UNCHANGED qemuVars
  PROVE  ServedInv'
<1>1. ASSUME NEW g \in Handlers, Active(g)' PROVE DeviceMatches(g)'
  <2>1. CASE g = h
    BY <1>1, <2>1
       DEF Request, NodePublishVolume, NodeUnpublishVolume, AlreadyExists, Enter,
           Goto, DeviceMatches, Active, Idle, TypeInv, ControlInv, ControlTypeOK
  <2>2. CASE g # h
    <3>1. Untouched(g)
      BY <2>2, RequestUntouched
    <3> QED BY <1>1, <3>1
            DEF Untouched, ServedInv, DeviceMatches, Active, Idle, qemuVars
  <2> QED BY <2>1, <2>2
<1>2. PublishedServed'
  <2>1. UNCHANGED <<config, output, attached, harmed>>
    BY DEF Request, NodePublishVolume, NodeUnpublishVolume, AlreadyExists, qemuVars
  <2>2. \A v \in Volumes : view'[v] = "published" => view[v] = "published"
    BY DEF Request, NodePublishVolume, NodeUnpublishVolume, AlreadyExists,
           TypeInv, NodeDataOK
  <2> QED BY <2>1, <2>2 DEF ServedInv, PublishedServed, Served, Written
<1> QED BY <1>1, <1>2 DEF ServedInv

(* A restart cuts off writes to the files of unserved volumes only. *)
LEMMA RestartServed ==
  ASSUME ClaimsDistinct, TypeInv, KnowInv, ServedInv, Restart PROVE ServedInv'
<1>1. \A h \in Handlers : ~ Active(h)'
  BY DEF Restart, NodeRestart, Active, Idle
<1>2. ASSUME NEW v \in Volumes, v \notin harmed', view'[v] = "published"
      PROVE  Served(v)'
  <2>1. PICK alive \in SUBSET UsedDevices :
          /\ NodeRestart({attached[d] : d \in Devices \ alive})
          /\ attached' = [d \in Devices |->
                           IF d \in alive THEN attached[d] ELSE NoVolume]
    BY DEF Restart
  <2>2. /\ v \notin harmed
        /\ view[v] = "published"
        /\ \A d \in Devices \ alive : attached[d] # v
    BY <1>2, <2>1 DEF Restart, NodeRestart
  <2>3. PICK d \in Devices : /\ attached[d] = v
                             /\ config[v] = Written(d)
                             /\ output[ClaimOf[v]] = Written(d)
    BY <1>2, <2>2 DEF ServedInv, PublishedServed, Served
  <2>4. ASSUME NEW h \in Handlers, vol[h] = v
        PROVE  pc[h] \notin {"config", "output"}
    BY <2>2, <2>4
       DEF ServedInv, DeviceMatches, KnowInv, HandlerKnows, Active, Idle
  <2>5. config'[v] = config[v]
    BY <2>1, <2>4 DEF NodeRestart, TornBy, Writers
  <2>6. output'[ClaimOf[v]] = output[ClaimOf[v]]
    BY <2>1, <2>4, NodeAssumption DEF NodeRestart, TornBy, Writers, ClaimsDistinct
  <2>7. attached'[d] = v
    BY <2>1, <2>2, <2>3
  <2> QED BY <2>3, <2>5, <2>6, <2>7 DEF Served, Written
<1> QED BY <1>1, <1>2 DEF ServedInv, PublishedServed

LEMMA ServedInit == Init => ServedInv
BY DEF Init, NodeInit, ServedInv, PublishedServed, Active, Idle

LEMMA ServedNext ==
  ASSUME ClaimsDistinct, TypeInv, KnowInv, NBDInv, ServedInv, [Next]_vars
  PROVE  ServedInv'
<1>1. ASSUME NEW h \in Handlers, Step(h) PROVE ServedInv'
  <2>1. \A g \in Handlers : Active(g)' => DeviceMatches(g)'
    BY <1>1, OthersServed, StepMatches
  <2>2. PublishedServed'
    BY <1>1, OthersServed, StepServes DEF PublishedServed
  <2> QED BY <2>1, <2>2 DEF ServedInv
<1>2. ASSUME UNCHANGED vars PROVE ServedInv'
  BY <1>2 DEF vars, nodeVars, qemuVars, ServedInv, DeviceMatches, Active, Idle,
              PublishedServed, Served, Written
<1> QED BY <1>1, <1>2, RequestServed, RestartServed DEF Next

(* A volume whose publish returned OK stays on the device that its config  *)
(* and its output file name, until an unpublish begins, the device is lost *)
(* with the node, or the handler of another volume disconnects it: write   *)
(* errors, failed commands, repeated publishes and restarts in between do  *)
(* not matter.  It needs claims to be distinct: WriteOutput names its file *)
(* after the claim alone.                                                  *)
THEOREM PublishedServedHolds ==
  ASSUME ClaimsDistinct PROVE Spec => []PublishedServed
<1>1. ServedInv => PublishedServed
  BY DEF ServedInv
<1>2. TypeInv /\ KnowInv /\ NBDInv /\ ServedInv /\ [Next]_vars => ServedInv'
  BY ServedNext
<1> QED
  BY <1>1, <1>2, ServedInit, TypeInvCorrect, KnowCorrect, NBDCorrect, PTL
     DEF Spec

-----------------------------------------------------------------------------
(* qemu-img create is only under way for a volume that has no overlay. *)
CreatesAbsent == \A h \in Handlers : pc[h] = "create" => image[vol[h]] = "absent"

LEMMA StepCreates ==
  ASSUME TypeInv, CreatesAbsent, NEW h \in Handlers, Step(h)
  PROVE  /\ CreatesAbsent'
         /\ \A v \in Volumes : image[v] = "used" => image'[v] = "used"
<1>1. vol[h] \in Volumes
  BY ActiveVolume, StepActive
<1>2. /\ pc[h] # "allocate" => pc'[h] # "create"
      /\ pc[h] = "allocate" /\ pc'[h] = "create" => image[vol[h]] = "absent"
  <2> USE DEF Goto, Return, Fail, TypeInv, ControlInv, ControlTypeOK
  <2>1. CASE NodeStep(h)
    BY <2>1 DEF NodeStep, NewRootFS, ErrorLun, LoadRootFS, WriteConfig, WriteOutput
  <2>2. CASE Allocate(h) \/ CreateImageFromBase(h)
    BY <2>2 DEF Allocate, CreateImageFromBase
  <2>3. CASE LockNBD(h) \/ AttachNBD(h) \/ SettleNBD(h) \/ Disconnect(h)
    BY <2>3 DEF LockNBD, AttachNBD, SettleNBD, Disconnect
  <2> QED BY <2>1, <2>2, <2>3 DEF Step
<1>3. \/ UNCHANGED image
      \/ pc[h] = "create" /\ \E i : image' = [image EXCEPT ![vol[h]] = i]
      \/ pc[h] = "attach" /\ image' = [image EXCEPT ![vol[h]] = "used"]
  BY DEF Step, Allocate, CreateImageFromBase, LockNBD, AttachNBD, SettleNBD,
         Disconnect, qemuVars
<1>4. \A v \in Volumes : v # vol[h] => image'[v] = image[v]
  BY <1>1, <1>3 DEF TypeInv, QemuDataOK
<1>5. ASSUME NEW g \in Handlers, pc'[g] = "create" PROVE image'[vol'[g]] = "absent"
  <2>1. CASE g # h
    <3>1. Untouched(g) /\ Active(g)
      BY <1>5, <2>1, StepUntouched DEF Untouched, Active, Idle
    <3>2. vol[g] \in Volumes /\ vol[g] # vol[h]
      BY <2>1, <3>1, ActiveVolume, StepActive
         DEF TypeInv, ControlInv, VolumeExclusion
    <3> QED BY <1>4, <1>5, <3>1, <3>2 DEF Untouched, CreatesAbsent
  <2>2. CASE g = h
    <3>1. pc[h] = "allocate" /\ image[vol[h]] = "absent"
      BY <1>2, <1>5, <2>2
    <3>2. vol'[h] = vol[h]
      BY <1>5, <2>2, StepControl, StagesOK
         DEF Advances, Finishes, Return, Goto, TypeInv, ControlInv, ControlTypeOK
    <3> QED BY <1>3, <2>2, <3>1, <3>2
  <2> QED BY <2>1, <2>2
<1>6. \A v \in Volumes : image[v] = "used" => image'[v] = "used"
  BY <1>1, <1>3, <1>4 DEF CreatesAbsent, TypeInv, QemuDataOK
<1> QED BY <1>5, <1>6 DEF CreatesAbsent

LEMMA NextCreates ==
  ASSUME TypeInv, CreatesAbsent, [Next]_vars
  PROVE  /\ CreatesAbsent'
         /\ \A v \in Volumes : image[v] = "used" => image'[v] = "used"
<1>1. ASSUME NEW h \in Handlers, Request(h), UNCHANGED qemuVars
      PROVE  CreatesAbsent' /\ UNCHANGED image
  BY <1>1 DEF Request, NodePublishVolume, NodeUnpublishVolume, AlreadyExists,
     Enter, Goto, CreatesAbsent, qemuVars, TypeInv, ControlInv, ControlTypeOK
<1>2. ASSUME Restart
      PROVE  /\ CreatesAbsent'
             /\ \A v \in Volumes : image[v] = "used" => image'[v] = "used"
  BY <1>2 DEF Restart, NodeRestart, TornBy, CreatesAbsent
<1>3. ASSUME UNCHANGED vars PROVE CreatesAbsent' /\ UNCHANGED image
  BY <1>3 DEF vars, nodeVars, qemuVars, CreatesAbsent
<1> QED BY <1>1, <1>2, <1>3, StepCreates DEF Next

(* An overlay that a guest may have written to is never created anew, by   *)
(* no retry, no repeated publish and no restart.                           *)
THEOREM ImageKeptHolds == Spec => ImageKept
<1>1. Init => CreatesAbsent
  BY DEF Init, NodeInit, CreatesAbsent
<1>2. TypeInv /\ CreatesAbsent /\ [Next]_vars
        => /\ CreatesAbsent'
           /\ [\A v \in Volumes : image[v] = "used" => image'[v] = "used"]_vars
  BY NextCreates
<1> QED BY <1>1, <1>2, TypeInvCorrect, PTL DEF Spec, ImageKept

-----------------------------------------------------------------------------
(* From NewRootFS on, a publish has the type file of its volume on disk.   *)
TypeWritten ==
  \A h \in Handlers :
    op[h] = "publish" /\ pc[h] \in PublishStages \ {"new"}
      => typeFile[vol[h]] = "written"

LEMMA StepTypeFile ==
  ASSUME TypeInv, NEW h \in Handlers, Step(h)
  PROVE  \/ UNCHANGED typeFile
         \/ pc[h] = "new" /\ NewRootFS(h) /\ UNCHANGED <<config, view>>
BY DEF Step, NodeStep, NewRootFS, ErrorLun, LoadRootFS, WriteConfig, WriteOutput, Allocate,
       CreateImageFromBase, LockNBD, AttachNBD, SettleNBD, Disconnect

LEMMA StepTypeWritten ==
  ASSUME TypeInv, KnowInv, TypeWritten, NEW h \in Handlers, Step(h)
  PROVE  TypeWritten'
<1>1. vol[h] \in Volumes /\ Active(h) /\ HandlerKnows(h)
  BY ActiveVolume, StepActive DEF KnowInv
<1>2. ASSUME NEW g \in Handlers, g # h, op'[g] = "publish",
             pc'[g] \in PublishStages \ {"new"}
      PROVE  typeFile'[vol'[g]] = "written"
  <2>1. Untouched(g) /\ Active(g)
    BY <1>2, StepUntouched DEF Untouched, Active, Idle, PublishStages
  <2>2. vol[g] \in Volumes /\ vol[g] # vol[h]
    BY <1>1, <1>2, <2>1, ActiveVolume DEF TypeInv, ControlInv, VolumeExclusion
  <2>3. typeFile'[vol[g]] = typeFile[vol[g]]
    BY <1>1, <2>2, StepTypeFile DEF NewRootFS, ErrorLun, TypeInv, NodeDataOK
  <2> QED BY <1>2, <2>1, <2>3 DEF Untouched, TypeWritten
<1>3. ASSUME op'[h] = "publish", pc'[h] \in PublishStages \ {"new"}
      PROVE  typeFile'[vol'[h]] = "written"
  <2>1. op[h] = "publish" /\ vol'[h] = vol[h] /\ pc[h] \in PublishStages
    BY <1>1, <1>3, StepControl
       DEF Advances, Finishes, Return, HandlerKnows, TypeInv, ControlInv, ControlTypeOK
  <2>2. CASE pc[h] = "new"
    <3>1. NewRootFS(h)
      BY <2>2 DEF Step, NodeStep, LoadRootFS, WriteConfig, WriteOutput, Allocate,
                  CreateImageFromBase, LockNBD, AttachNBD, SettleNBD, Disconnect
    <3> QED BY <1>1, <1>3, <2>1, <3>1
            DEF NewRootFS, ErrorLun, Return, Goto, TypeInv, ControlInv, ControlTypeOK,
                NodeDataOK, PublishStages
  <2>3. CASE pc[h] # "new"
    BY <2>1, <2>3, StepTypeFile DEF TypeWritten
  <2> QED BY <2>2, <2>3
<1> QED BY <1>2, <1>3 DEF TypeWritten

LEMMA TypeWrittenCorrect == Spec => []TypeWritten
<1>1. Init => TypeWritten
  BY DEF Init, NodeInit, TypeWritten
<1>2. ASSUME TypeInv, KnowInv, TypeWritten, [Next]_vars PROVE TypeWritten'
  <2>1. ASSUME NEW h \in Handlers, Request(h) PROVE TypeWritten'
    BY <1>2, <2>1
       DEF Request, NodePublishVolume, NodeUnpublishVolume, AlreadyExists, Enter,
           Goto, TypeWritten, PublishStages, TypeInv, ControlInv, ControlTypeOK
  <2>2. ASSUME Restart PROVE TypeWritten'
    BY <2>2 DEF Restart, NodeRestart, TypeWritten
  <2>3. ASSUME UNCHANGED vars PROVE TypeWritten'
    BY <1>2, <2>3 DEF vars, nodeVars, TypeWritten
  <2> QED BY <1>2, <2>1, <2>2, <2>3, StepTypeWritten DEF Next
<1> QED BY <1>1, <1>2, TypeInvCorrect, KnowCorrect, PTL DEF Spec

(* No handler writes the config of a published volume that is not harmed.  *)
LEMMA NoWriter ==
  ASSUME KnowInv, ServedInv, NEW v \in Volumes \ harmed, view[v] = "published",
         NEW h \in Handlers, Active(h), vol[h] = v
  PROVE  pc[h] \notin {"config", "output"}
BY DEF KnowInv, HandlerKnows, ServedInv, DeviceMatches

(* What PublishedLoadable says of one volume in one step. *)
StaysLoadable(v) ==
  view'[v] = "published" /\ ~ Loadable(v)'
    => view[v] = "published" /\ (Loadable(v) => RewritingType(v))

LEMMA StepLoadable ==
  ASSUME TypeInv, KnowInv, ServedInv, TypeWritten, NEW h \in Handlers, Step(h),
         NEW v \in Volumes \ harmed
  PROVE  StaysLoadable(v)
<1>1. vol[h] \in Volumes /\ Active(h) /\ HandlerKnows(h)
  BY ActiveVolume, StepActive DEF KnowInv
<1> USE <1>1 DEF TypeInv, NodeDataOK, StaysLoadable, Loadable
<1>2. CASE NewRootFS(h)
  BY <1>2 DEF NewRootFS, ErrorLun, RewritingType
<1>3. CASE WriteConfig(h)
  <2>1. view[v] = "published" => v # vol[h]
    BY <1>3, NoWriter DEF WriteConfig
  <2> QED BY <1>3, <2>1 DEF WriteConfig
<1>4. CASE WriteOutput(h)
  <2>1. op[h] = "publish" => Loadable(vol[h])
    BY <1>4 DEF WriteOutput, HandlerKnows, Written, TypeWritten, PublishStages
  <2> QED BY <1>4, <2>1 DEF WriteOutput
<1>5. CASE UNCHANGED <<typeFile, config, view>>
  BY <1>5
<1> QED
  BY <1>2, <1>3, <1>4, <1>5
     DEF Step, NodeStep, LoadRootFS, Allocate, CreateImageFromBase, LockNBD,
         AttachNBD, SettleNBD, Disconnect

LEMMA NextLoadable ==
  ASSUME TypeInv, KnowInv, ServedInv, TypeWritten, [Next]_vars,
         NEW v \in Volumes \ harmed
  PROVE  StaysLoadable(v)
<1> USE DEF StaysLoadable, Loadable
<1>1. ASSUME NEW h \in Handlers, Request(h) PROVE StaysLoadable(v)
  BY <1>1
     DEF Request, NodePublishVolume, NodeUnpublishVolume, AlreadyExists, TypeInv,
         NodeDataOK
<1>2. ASSUME Restart PROVE StaysLoadable(v)
  <2>1. PICK lost : NodeRestart(lost)
    BY <1>2 DEF Restart
  <2>2. view'[v] = "published" => view[v] = "published"
    BY <2>1 DEF NodeRestart
  <2>3. view[v] = "published" => config'[v] = config[v]
    BY <2>1, NoWriter DEF NodeRestart, TornBy, Writers, Active, Idle
  <2>4. ~ RewritingType(v) => typeFile'[v] = typeFile[v]
    BY <2>1 DEF NodeRestart, TornBy, Writers, RewritingType
  <2> QED BY <2>2, <2>3, <2>4
<1>3. ASSUME UNCHANGED vars PROVE StaysLoadable(v)
  BY <1>3 DEF vars, nodeVars
<1> QED BY <1>1, <1>2, <1>3, StepLoadable DEF Next

(* NodeUnpublishVolume can load a volume from its files when its publish   *)
(* returns OK and ever after, until a repeated publish writes its type     *)
(* file anew; no failed write of anyone else and no restart gets in        *)
(* between.  Like PublishedServedHolds it needs claims to be distinct.     *)
THEOREM PublishedLoadableHolds ==
  ASSUME ClaimsDistinct PROVE Spec => PublishedLoadable
<1>1. ASSUME TypeInv, KnowInv, ServedInv, TypeWritten, [Next]_vars
      PROVE  [\A v \in Volumes \ harmed : StaysLoadable(v)]_vars
  BY <1>1, NextLoadable
<1>2. TypeInv /\ KnowInv /\ NBDInv /\ ServedInv /\ [Next]_vars => ServedInv'
  BY ServedNext
<1>3. Spec => []ServedInv
  BY <1>2, ServedInit, TypeInvCorrect, KnowCorrect, NBDCorrect, PTL DEF Spec
<1> QED
  BY <1>1, <1>3, TypeInvCorrect, KnowCorrect, TypeWrittenCorrect, PTL
     DEF Spec, PublishedLoadable, StaysLoadable

-----------------------------------------------------------------------------
(* An image is on one device at a time, because qemu-nbd locks it.         *)
OneDevice ==
  \A d, e \in Devices :
    attached[d] # NoVolume /\ attached[d] = attached[e] => d = e

(* What a handler knows of the devices its volume is on: a publish that    *)
(* connected one has it in hand; an unpublish has loaded the one the       *)
(* config names, and after Disconnect any that are left are excused.       *)
HasDevices(h) ==
  /\ op[h] = "publish" /\ pc[h] \in {"settle", "config", "output"}
       => \A d \in Devices : attached[d] = vol[h] => d = dev[h]
  /\ op[h] = "unpublish" /\ pc[h] \in {"config", "output"}
       => \A d \in Devices : attached[d] = vol[h] => d \in excused
  /\ pc[h] = "disconnect" => config[vol[h]] = Written(dev[h])

LeakInv ==
  /\ OneDevice
  /\ \A h \in Handlers : HasDevices(h)
  /\ NoSilentLeak

(* Only AttachNBD puts an image on a device; a device that stays in use    *)
(* stays excused.                                                          *)
StaysAttached(d) == attached'[d] = attached[d] /\ (d \in excused => d \in excused')

LEMMA StepAttached ==
  ASSUME TypeInv, NBDInv, NEW h \in Handlers, Step(h), NEW d \in Devices,
         attached'[d] # NoVolume
  PROVE  \/ StaysAttached(d)
         \/ /\ AttachNBD(h)
            /\ d = dev[h] /\ attached'[d] = vol[h]
            /\ \A e \in Devices \ {d} : attached'[e] = attached[e]
            /\ ~ ImageBusy(vol[h])
<1> USE DEF TypeInv, QemuDataOK, StaysAttached
<1>1. CASE NodeStep(h) /\ UNCHANGED <<attached, excused>>
  BY <1>1
<1>2. CASE Allocate(h) \/ CreateImageFromBase(h) \/ LockNBD(h) \/ SettleNBD(h)
  BY <1>2 DEF Allocate, CreateImageFromBase, LockNBD, SettleNBD, qemuVars
<1>3. CASE AttachNBD(h)
  BY <1>3 DEF AttachNBD
<1>4. CASE Disconnect(h)
  BY <1>4 DEF Disconnect, FreeDevice
<1> QED BY <1>1, <1>2, <1>3, <1>4 DEF Step

LEMMA StepOneDevice ==
  ASSUME TypeInv, NBDInv, OneDevice, NEW h \in Handlers, Step(h)
  PROVE  OneDevice'
BY StepAttached DEF OneDevice, StaysAttached, ImageBusy

(* Another handler's volume is where it was, or on no device.              *)
LEMMA OthersHaveDevices ==
  ASSUME TypeInv, NBDInv, LeakInv, NEW h \in Handlers, Step(h),
         NEW g \in Handlers, g # h
  PROVE  HasDevices(g)'
<1>1. Untouched(g)
  BY StepUntouched
<1>2. SUFFICES ASSUME Active(g) PROVE HasDevices(g)'
  BY <1>1 DEF HasDevices, Untouched, Active, Idle
<1>3. vol[g] \in Volumes /\ vol[g] # vol[h] /\ vol[g] # NoVolume
  BY <1>2, ActiveVolume, StepActive, NodeAssumption DEF TypeInv, ControlInv, VolumeExclusion
<1>4. \A d \in Devices : attached'[d] = vol[g] => StaysAttached(d)
  BY <1>3, StepAttached
<1> QED BY <1>1, <1>2, <1>4 DEF LeakInv, HasDevices, Untouched, StaysAttached, Written

LEMMA StepHasDevices ==
  ASSUME TypeInv, NBDInv, KnowInv, LeakInv, NEW h \in Handlers, Step(h)
  PROVE  HasDevices(h)'
<1>1. vol[h] \in Volumes /\ vol[h] # NoVolume /\ Active(h)
  BY ActiveVolume, StepActive, NodeAssumption
<1>2. HasDevices(h) /\ HandlerKnows(h)
  BY DEF LeakInv, KnowInv
<1> USE <1>1, <1>2
    DEF TypeInv, ControlInv, ControlTypeOK, NodeDataOK, QemuDataOK, HasDevices,
        Goto, HandlerKnows, PublishStages, UnpublishStages
<1>3. CASE NewRootFS(h)
  BY <1>3 DEF NewRootFS, ErrorLun, Return
<1>4. CASE LoadRootFS(h)
  <2>1. config[vol[h]] \in File
    OBVIOUS
  <2>2. config[vol[h]].state = "written"
          => config[vol[h]] = Written(config[vol[h]].dev)
    BY <2>1, FileTypes DEF Written
  <2> QED BY <1>4, <2>2 DEF LoadRootFS, Return, Written
<1>5. CASE WriteConfig(h) /\ UNCHANGED <<attached, excused>>
  BY <1>5 DEF WriteConfig, Fail, Return
<1>6. CASE WriteOutput(h) /\ UNCHANGED <<attached, excused>>
  BY <1>6 DEF WriteOutput, Fail, Return
<1>7. CASE Allocate(h) \/ CreateImageFromBase(h) \/ LockNBD(h)
  BY <1>7 DEF Allocate, CreateImageFromBase, LockNBD, Return
<1>8. CASE AttachNBD(h)
  <2>1. ~ ImageBusy(vol[h]) => \A d \in Devices : attached[d] # vol[h]
    BY DEF ImageBusy
  <2> QED BY <1>8, <2>1 DEF AttachNBD
<1>9. CASE SettleNBD(h)
  BY <1>9 DEF SettleNBD
<1>10. CASE Disconnect(h) /\ pc[h] = "cleanup"
  BY <1>10 DEF Disconnect, Return
<1>11. CASE Disconnect(h) /\ pc[h] = "disconnect"
  <2>1. op[h] = "unpublish" /\ pc'[h] = "config" /\ op'[h] = op[h] /\ vol'[h] = vol[h]
    BY <1>11 DEF Disconnect
  <2>2. ASSUME NEW d \in Devices, attached'[d] = vol[h] PROVE d \in excused'
    <3>1. attached[d] = vol[h] /\ (d \in excused => d \in excused')
      BY <1>11, <2>2, StepAttached DEF StaysAttached, AttachNBD
    <3>2. d = dev[h] \/ d \in excused
      <4>1. Tracked(d) \/ d \in excused
        BY <3>1 DEF LeakInv, NoSilentLeak
      <4>2. config[vol[h]] = Written(d) => d = dev[h]
        BY <1>11 DEF Written
      <4>3. \A g \in Handlers : vol[g] = vol[h] => g = h
        BY DEF VolumeExclusion, ActiveHasVolume, Active
      <4> QED BY <3>1, <4>1, <4>2, <4>3 DEF Tracked
    <3>3. d = dev[h] => d \in excused'
      BY <1>11, <2>2, <3>1, NodeAssumption DEF Disconnect, FreeDevice
    <3> QED BY <3>1, <3>2, <3>3
  <2> QED BY <2>1, <2>2
<1> QED
  BY <1>3, <1>4, <1>5, <1>6, <1>7, <1>8, <1>9, <1>10, <1>11
     DEF Step, NodeStep, Disconnect

(* A device keeps its place in the config or the hand it was in.           *)
LEMMA OthersTracked ==
  ASSUME TypeInv, NBDInv, LeakInv, NEW h \in Handlers, Step(h), NEW d \in Devices,
         attached'[d] \notin {NoVolume, vol[h]}
  PROVE  Tracked(d)' \/ d \in excused'
<1>1. StaysAttached(d)
  BY StepAttached
<1>2. attached[d] \in Volumes /\ attached[d] # vol[h] /\ attached[d] # NoVolume
  BY <1>1 DEF TypeInv, QemuDataOK, StaysAttached
<1>3. Tracked(d) \/ d \in excused
  BY <1>2 DEF LeakInv, NoSilentLeak
<1>4. config'[attached[d]] = config[attached[d]]
  BY <1>2
     DEF Step, NodeStep, NewRootFS, ErrorLun, LoadRootFS, WriteConfig, WriteOutput, Allocate,
         CreateImageFromBase, LockNBD, AttachNBD, SettleNBD, Disconnect, TypeInv,
         NodeDataOK
<1>5. ASSUME NEW g \in Handlers, vol[g] = attached[d], dev[g] = d
      PROVE  vol'[g] = attached[d] /\ dev'[g] = d
  BY <1>2, <1>5, StepUntouched DEF Untouched
<1> QED BY <1>1, <1>3, <1>4, <1>5 DEF Tracked, StaysAttached, Written

LEMMA StepTracked ==
  ASSUME TypeInv, NBDInv, KnowInv, LeakInv, NEW h \in Handlers, Step(h),
         NEW d \in Devices, attached'[d] = vol[h]
  PROVE  Tracked(d)' \/ d \in excused'
<1>1. vol[h] \in Volumes /\ vol[h] # NoVolume /\ Active(h) /\ d # NoDevice
  BY ActiveVolume, StepActive, NodeAssumption
<1>2. HasDevices(h) /\ HandlerKnows(h)
  BY DEF LeakInv, KnowInv
<1>3. \A g \in Handlers : vol[g] = vol[h] => g = h
  BY <1>1 DEF TypeInv, ControlInv, ActiveHasVolume, VolumeExclusion, Active
<1>4. attached[d] = vol[h] => Tracked(d) \/ d \in excused
  BY <1>1 DEF LeakInv, NoSilentLeak
<1>5. Tracked(d) /\ attached[d] = vol[h]
        => config[vol[h]] = Written(d) \/ dev[h] = d
  BY <1>3 DEF Tracked
<1>6. StaysAttached(d) \/ AttachNBD(h)
  BY <1>1, StepAttached
<1> USE <1>1 DEF TypeInv, ControlInv, ControlTypeOK, NodeDataOK, Goto
<1>7. CASE /\ UNCHANGED config
           /\ StaysAttached(d)
           /\ dev[h] = NoDevice \/ (dev'[h] = dev[h] /\ vol'[h] = vol[h])
  BY <1>4, <1>5, <1>7 DEF StaysAttached, Tracked, Written
<1>8. CASE AttachNBD(h)
  <2>1. UNCHANGED <<config, vol, dev>>
    BY <1>8 DEF AttachNBD
  <2>2. CASE attached'[d] # attached[d]
    <3>1. d = dev[h]
      BY <2>2, StepAttached DEF StaysAttached
    <3> QED BY <2>1, <3>1 DEF Tracked
  <2>3. CASE attached'[d] = attached[d]
    BY <1>7, <1>8, <2>1, <2>3 DEF AttachNBD, StaysAttached
  <2> QED BY <2>2, <2>3
<1>9. CASE WriteConfig(h)
  <2>1. StaysAttached(d) /\ attached[d] = vol[h]
    BY <1>6, <1>9 DEF StaysAttached, WriteConfig, AttachNBD
  <2>2. CASE op[h] # "publish"
    BY <1>2, <1>9, <2>1, <2>2
       DEF WriteConfig, HasDevices, HandlerKnows, StaysAttached
  <2>3. CASE op[h] = "publish"
    <3>1. d = dev[h]
      BY <1>2, <1>9, <2>1, <2>3 DEF WriteConfig, HasDevices
    <3>2. \/ config'[vol[h]] = Written(d)
          \/ dev'[h] = d /\ vol'[h] = vol[h]
      BY <1>9, <2>3, <3>1 DEF WriteConfig, Fail
    <3> QED BY <3>2 DEF Tracked, Written
  <2> QED BY <2>2, <2>3
<1>10. CASE WriteOutput(h)
  <2>1. StaysAttached(d) /\ attached[d] = vol[h]
    BY <1>6, <1>10 DEF StaysAttached, WriteOutput, AttachNBD
  <2>2. CASE op[h] # "publish"
    BY <1>2, <1>10, <2>1, <2>2
       DEF WriteOutput, HasDevices, HandlerKnows, StaysAttached
  <2>3. CASE op[h] = "publish"
    <3>1. d = dev[h]
      BY <1>2, <1>10, <2>1, <2>3 DEF WriteOutput, HasDevices
    <3>2. config'[vol[h]] = Written(d)
      BY <1>2, <1>10, <3>1 DEF WriteOutput, HandlerKnows
    <3> QED BY <3>2 DEF Tracked, Written
  <2> QED BY <2>2, <2>3
<1>11. CASE Disconnect(h)
  <2>1. StaysAttached(d) /\ attached[d] = vol[h] /\ UNCHANGED config
    BY <1>6, <1>11 DEF StaysAttached, Disconnect, AttachNBD
  <2>2. CASE d = dev[h]
    BY <1>11, <2>1, <2>2 DEF Disconnect, FreeDevice, QemuDataOK
  <2>3. CASE d # dev[h]
    BY <1>4, <1>5, <2>1, <2>3 DEF StaysAttached, Tracked, Written
  <2> QED BY <2>2, <2>3
<1>12. CASE NewRootFS(h) \/ LoadRootFS(h) \/ Allocate(h) \/ CreateImageFromBase(h)
  <2>1. UNCHANGED config /\ dev[h] = NoDevice
    BY <1>2, <1>12
       DEF NewRootFS, ErrorLun, LoadRootFS, Allocate, CreateImageFromBase, HandlerKnows
  <2>2. ~ AttachNBD(h)
    BY <1>12 DEF NewRootFS, ErrorLun, LoadRootFS, Allocate, CreateImageFromBase, AttachNBD
  <2> QED BY <1>6, <1>7, <2>1, <2>2
<1>13. CASE LockNBD(h) \/ SettleNBD(h)
  <2>1. /\ UNCHANGED <<config, vol>>
        /\ dev[h] = NoDevice \/ UNCHANGED dev
    BY <1>2, <1>13 DEF LockNBD, SettleNBD, HandlerKnows
  <2>2. ~ AttachNBD(h)
    BY <1>13 DEF LockNBD, SettleNBD, AttachNBD
  <2> QED BY <1>6, <1>7, <2>1, <2>2
<1> QED BY <1>8, <1>9, <1>10, <1>11, <1>12, <1>13 DEF Step, NodeStep

LEMMA StepLeak ==
  ASSUME TypeInv, NBDInv, KnowInv, LeakInv, NEW h \in Handlers, Step(h)
  PROVE  LeakInv'
<1>1. NoSilentLeak'
  BY OthersTracked, StepTracked DEF NoSilentLeak
<1>2. OneDevice'
  BY StepOneDevice DEF LeakInv
<1> QED BY <1>1, <1>2, StepHasDevices, OthersHaveDevices DEF LeakInv

LEMMA RequestLeak ==
  ASSUME TypeInv, LeakInv, NEW h \in Handlers, Request(h), UNCHANGED qemuVars
  PROVE  LeakInv'
<1>1. UNCHANGED <<config, dev, attached, excused>>
  BY DEF Request, NodePublishVolume, NodeUnpublishVolume, AlreadyExists, Enter,
         qemuVars
<1>2. ASSUME NEW g \in Handlers PROVE HasDevices(g)'
  <2>1. CASE g = h
    BY <2>1
       DEF Request, NodePublishVolume, NodeUnpublishVolume, AlreadyExists, Enter,
           Goto, HasDevices, Idle, TypeInv, ControlInv, ControlTypeOK
  <2>2. CASE g # h
    <3>1. Untouched(g)
      BY <2>2, RequestUntouched
    <3> QED BY <1>1, <3>1 DEF Untouched, LeakInv, HasDevices, Written
  <2> QED BY <2>1, <2>2
<1>3. ASSUME NEW d \in Devices, attached'[d] # NoVolume
      PROVE  Tracked(d)' \/ d \in excused'
  <2>1. Tracked(d) \/ d \in excused
    BY <1>1, <1>3 DEF LeakInv, NoSilentLeak
  <2>2. ASSUME NEW g \in Handlers, vol[g] = attached[d] PROVE vol'[g] = vol[g]
    <3>1. Active(g)
      BY <1>1, <1>3, <2>2 DEF TypeInv, ControlInv, ActiveHasVolume, Active
    <3> QED
      BY <3>1
         DEF Request, NodePublishVolume, NodeUnpublishVolume, AlreadyExists, Enter,
             Active, Idle, TypeInv, ControlInv, ControlTypeOK
  <2> QED BY <1>1, <2>1, <2>2 DEF Tracked, Written
<1>4. OneDevice'
  BY <1>1 DEF LeakInv, OneDevice
<1> QED BY <1>2, <1>3, <1>4 DEF LeakInv, NoSilentLeak

(* A restart excuses what was in a handler's hand, and what it tears of a  *)
(* config is in such a hand, or already excused.                           *)
LEMMA RestartLeak ==
  ASSUME TypeInv, KnowInv, LeakInv, Restart PROVE LeakInv'
<1>1. PICK alive \in SUBSET UsedDevices :
        /\ NodeRestart({attached[d] : d \in Devices \ alive})
        /\ attached' = [d \in Devices |->
                         IF d \in alive THEN attached[d] ELSE NoVolume]
        /\ excused' = alive \cap (excused \cup HeldDevices)
  BY DEF Restart
<1>2. \A h \in Handlers : HasDevices(h)'
  BY <1>1 DEF NodeRestart, HasDevices
<1>3. OneDevice'
  BY <1>1 DEF LeakInv, OneDevice
<1>4. ASSUME NEW d \in Devices, attached'[d] # NoVolume
      PROVE  Tracked(d)' \/ d \in excused'
  <2>1. d \in alive /\ attached'[d] = attached[d] /\ attached[d] # NoVolume
    BY <1>1, <1>4
  <2>2. attached[d] \in Volumes
    BY <2>1 DEF TypeInv, QemuDataOK
  <2>3. d \in excused \cup HeldDevices \/ config[attached[d]] = Written(d)
    BY <2>1 DEF LeakInv, NoSilentLeak, Tracked, HeldDevices, UsedDevices
  <2>4. ASSUME NEW h \in Handlers, pc[h] = "config", vol[h] = attached[d]
        PROVE  d \in excused \cup HeldDevices
    <3>1. op[h] = "publish" => d = dev[h]
      BY <2>4 DEF LeakInv, HasDevices
    <3>2. op[h] # "publish" => d \in excused
      BY <2>4 DEF LeakInv, HasDevices, KnowInv, HandlerKnows, Active, Idle
    <3> QED BY <2>1, <3>1, <3>2 DEF HeldDevices, UsedDevices
  <2>5. d \notin excused \cup HeldDevices => config'[attached[d]] = config[attached[d]]
    BY <1>1, <2>2, <2>4 DEF NodeRestart, TornBy, Writers
  <2> QED BY <1>1, <2>1, <2>3, <2>5 DEF Tracked, Written
<1> QED BY <1>2, <1>3, <1>4 DEF LeakInv, NoSilentLeak

LEMMA LeakNext ==
  ASSUME TypeInv, NBDInv, KnowInv, LeakInv, [Next]_vars PROVE LeakInv'
<1>1. ASSUME UNCHANGED vars PROVE LeakInv'
  BY <1>1
     DEF vars, nodeVars, qemuVars, LeakInv, OneDevice, HasDevices, NoSilentLeak,
         Tracked, Written
<1> QED BY <1>1, StepLeak, RequestLeak, RestartLeak DEF Next

LEMMA LeakCorrect == Spec => []LeakInv
<1>1. Init => LeakInv
  BY DEF Init, NodeInit, LeakInv, OneDevice, HasDevices, NoSilentLeak
<1>2. TypeInv /\ NBDInv /\ KnowInv /\ LeakInv /\ [Next]_vars => LeakInv'
  BY LeakNext
<1> QED BY <1>1, <1>2, TypeInvCorrect, NBDCorrect, KnowCorrect, PTL DEF Spec

(* However requests fail, repeat and are cut off, a device is in use only  *)
(* where an unpublish will find it or a handler has it in hand, unless a   *)
(* disconnect failed or a restart cut its handler off.                     *)
THEOREM NoSilentLeakHolds == Spec => []NoSilentLeak
BY LeakCorrect, PTL DEF LeakInv

(* When NodeUnpublishVolume has returned OK, and until the next publish,   *)
(* the volume is on no device, so that its overlay can be deleted or       *)
(* published anew, unless a disconnect of it failed and was only logged,   *)
(* or a restart cut off the handler that had it in hand.                   *)
THEOREM UnpublishedReleased ==
  Spec => [](\A v \in Volumes, d \in Devices :
               view[v] = "unpublished" /\ attached[d] = v => d \in excused)
<1> DEFINE Released == \A v \in Volumes, d \in Devices :
                         view[v] = "unpublished" /\ attached[d] = v => d \in excused
<1>1. ASSUME TypeInv, KnowInv, LeakInv PROVE Released
  <2> SUFFICES ASSUME NEW v \in Volumes, NEW d \in Devices,
                      view[v] = "unpublished", attached[d] = v, d \notin excused
               PROVE  FALSE
    OBVIOUS
  <2>1. Tracked(d) /\ v # NoVolume /\ d # NoDevice /\ config[v].dev = NoDevice
    BY <1>1, NodeAssumption
       DEF LeakInv, NoSilentLeak, KnowInv, UnpublishedForgetsDevice
  <2>2. config[v] # Written(d)
    BY <2>1 DEF Written
  <2>3. PICK h \in Handlers : vol[h] = v /\ dev[h] = d
    BY <2>1, <2>2 DEF Tracked
  <2>4. Active(h) /\ HandlerKnows(h) /\ HasDevices(h)
    BY <1>1, <2>1, <2>3
       DEF TypeInv, ControlInv, ActiveHasVolume, Active, KnowInv, LeakInv
  <2>5. op[h] = "unpublish" /\ pc[h] = "disconnect"
    BY <2>1, <2>3, <2>4 DEF HandlerKnows, UnpublishStages
  <2> QED BY <2>2, <2>3, <2>4, <2>5 DEF HasDevices
<1>2. Spec => []Released
  <2> HIDE DEF Released
  <2> QED BY <1>1, TypeInvCorrect, KnowCorrect, LeakCorrect, PTL
<1> QED BY <1>2

(* A device leaks only in those two ways. *)
THEOREM NothingLeaks ==
  ASSUME Faults \cap {"detach", "restart"} = {}
  PROVE  Spec => [](\A d \in Devices : attached[d] # NoVolume => Tracked(d))
<1> DEFINE Known == \A d \in Devices : attached[d] # NoVolume => Tracked(d)
           None  == excused = {}
<1>1. Init => None
  BY DEF Init
<1>2. ASSUME None, [Next]_vars PROVE None'
  <2>1. ASSUME NEW h \in Handlers, Step(h) PROVE None'
    <3>1. CASE Disconnect(h)
      BY <1>2, <3>1 DEF Disconnect, FreeDevice
    <3> QED
      BY <1>2, <2>1, <3>1
         DEF Step, Allocate, CreateImageFromBase, LockNBD, AttachNBD, SettleNBD, qemuVars
  <2>2. ASSUME Restart PROVE FALSE
    BY <2>2 DEF Restart, NodeRestart
  <2> QED BY <1>2, <2>1, <2>2 DEF Next, vars, qemuVars
<1>3. NoSilentLeak /\ None => Known
  BY DEF NoSilentLeak
<1> HIDE DEF Known, None
<1>4. Spec => []Known
  BY <1>1, <1>2, <1>3, NoSilentLeakHolds, PTL DEF Spec
<1> QED BY <1>4 DEF Known

-----------------------------------------------------------------------------
(* While nothing fails, the config of a volume that is not being connected *)
(* or disconnected names the device the volume is on, and no other.        *)
ConfigTrue(v) == \A d \in Devices : config[v] = Written(d) <=> attached[d] = v

CalmHandler(h) ==
  /\ op[h] = "publish" /\ pc[h] \in PublishStages \ {"settle", "config", "output"}
       => ConfigTrue(vol[h]) /\ ~ ImageBusy(vol[h])
  /\ op[h] = "publish" /\ pc[h] \in {"settle", "config", "output"}
       => attached[dev[h]] = vol[h]
  /\ op[h] = "unpublish" /\ pc[h] \in {"load", "disconnect"}
       => ConfigTrue(vol[h])
  /\ op[h] = "unpublish" /\ pc[h] \in {"config", "output"}
       => ~ ImageBusy(vol[h])
  /\ pc[h] = "cleanup" => dev[h] = NoDevice

CalmVolume(v) ==
  /\ image[v] # "partial"
  /\ ImageBusy(v) => typeFile[v] = "written"
  /\ (\A h \in Handlers : vol[h] # v)
       => ConfigTrue(v) /\ (ImageBusy(v) => view[v] = "published")

CalmInv ==
  /\ harmed = {}
  /\ \A h \in Handlers : CalmHandler(h)
  /\ \A v \in Volumes : CalmVolume(v)

(* Everything known of a reachable state. *)
KnownInv == TypeInv /\ NBDInv /\ KnowInv /\ LeakInv /\ TypeWritten

LEMMA KnownCorrect == Spec => []KnownInv
BY TypeInvCorrect, NBDCorrect, KnowCorrect, LeakCorrect, TypeWrittenCorrect, PTL
   DEF KnownInv

(* What a step keeps of a volume its handler has not locked: everything.   *)
Keeps(v) ==
  /\ \A d \in Devices : attached'[d] = v <=> attached[d] = v
  /\ config'[v] = config[v]
  /\ typeFile'[v] = typeFile[v]
  /\ image'[v] = image[v]
  /\ view'[v] = view[v]

LEMMA CalmDisconnect ==
  ASSUME KnownInv, CalmInv, Faults = {}, NEW h \in Handlers, Disconnect(h)
  PROVE  /\ harmed' = {}
         /\ dev[h] = NoDevice => UNCHANGED attached
         /\ dev[h] # NoDevice =>
              /\ pc[h] = "disconnect"
              /\ attached[dev[h]] = vol[h]
              /\ attached' = [attached EXCEPT ![dev[h]] = NoVolume]
<1>1. dev[h] # NoDevice => dev[h] \in Devices
  BY DEF KnownInv, TypeInv, NodeDataOK, DeviceOrNone
<1>2. dev[h] # NoDevice => pc[h] = "disconnect" /\ op[h] = "unpublish"
  BY DEF Disconnect, CalmInv, CalmHandler, KnownInv, KnowInv, HandlerKnows,
         PublishStages, Active, Idle
<1>3. dev[h] # NoDevice => attached[dev[h]] = vol[h]
  BY <1>1, <1>2
     DEF CalmInv, CalmHandler, ConfigTrue, KnownInv, LeakInv, HasDevices
<1> QED BY <1>1, <1>2, <1>3 DEF Disconnect, FreeDevice, CalmInv

LEMMA CalmKeeps ==
  ASSUME KnownInv, CalmInv, Faults = {}, NEW h \in Handlers, Step(h),
         NEW v \in Volumes, v # vol[h]
  PROVE  Keeps(v)
<1>1. vol[h] \in Volumes /\ v # NoVolume
  BY ActiveVolume, StepActive, NodeAssumption DEF KnownInv
<1> USE <1>1 DEF KnownInv, TypeInv, NodeDataOK, QemuDataOK, Keeps
<1>2. CASE NodeStep(h) /\ UNCHANGED <<attached, image>>
  BY <1>2 DEF NodeStep, NewRootFS, ErrorLun, LoadRootFS, WriteConfig, WriteOutput
<1>3. CASE Allocate(h) \/ CreateImageFromBase(h) \/ LockNBD(h) \/ SettleNBD(h)
  BY <1>3 DEF Allocate, CreateImageFromBase, LockNBD, SettleNBD, qemuVars
<1>4. CASE AttachNBD(h)
  BY <1>4 DEF AttachNBD
<1>5. CASE Disconnect(h)
  BY <1>5, CalmDisconnect DEF Disconnect
<1> QED BY <1>2, <1>3, <1>4, <1>5 DEF Step

LEMMA KeepsCalm ==
  ASSUME KnownInv, CalmInv, NEW v \in Volumes, Keeps(v)
  PROVE  /\ ConfigTrue(v) => ConfigTrue(v)'
         /\ ImageBusy(v)' <=> ImageBusy(v)
BY DEF Keeps, ConfigTrue, ImageBusy, Written

(* The handler's own volume.  Without faults the only commands that fail   *)
(* are LoadRootFS, for a volume that is on no device, and LockNBD, for     *)
(* want of a device: neither has anything to clean up.                     *)
LEMMA StepCalm ==
  ASSUME KnownInv, CalmInv, Faults = {}, NEW h \in Handlers, Step(h),
         NEW v, v = vol[h]
  PROVE  CalmHandler(h)' /\ CalmVolume(v)' /\ harmed' = {}
<1>1. v \in Volumes /\ v # NoVolume /\ Active(h) /\ NoDevice \notin Devices
  BY ActiveVolume, StepActive, NodeAssumption DEF KnownInv
<1>2. HandlerKnows(h) /\ HasDevices(h) /\ CalmHandler(h) /\ CalmVolume(v)
  BY <1>1 DEF KnownInv, KnowInv, LeakInv, CalmInv
<1>3. harmed = {} /\ \A old, torn : WriteFails(old, torn) = {}
  BY DEF CalmInv, WriteFails
<1> USE <1>1, <1>3
    DEF KnownInv, TypeInv, ControlInv, ControlTypeOK, NodeDataOK, QemuDataOK,
        Goto, Active, Idle
<1>4. CASE NewRootFS(h) /\ UNCHANGED <<attached, image, harmed>>
  BY <1>2, <1>4
     DEF NewRootFS, ErrorLun, CalmHandler, CalmVolume, ConfigTrue, ImageBusy, Written,
         HandlerKnows, PublishStages, UnpublishStages
<1>5. CASE LoadRootFS(h) /\ UNCHANGED <<attached, image, harmed>>
  <2>1. op[h] = "unpublish" /\ ConfigTrue(v)
    BY <1>2, <1>5 DEF LoadRootFS, HandlerKnows, PublishStages, CalmHandler
  <2>2. \/ /\ pc'[h] = "disconnect" /\ op'[h] = op[h] /\ vol'[h] = v
        \/ /\ pc'[h] = "idle" /\ op'[h] = "none"
           /\ typeFile[v] # "written" \/ config[v].state # "written"
    BY <1>5 DEF LoadRootFS, Return
  <2>3. typeFile[v] # "written" \/ config[v].state # "written" => ~ ImageBusy(v)
    BY <1>2, <2>1 DEF CalmVolume, ConfigTrue, ImageBusy, Written
  <2>4. UNCHANGED <<attached, image, harmed, typeFile, config, view>>
    BY <1>5 DEF LoadRootFS
  <2>5. CalmHandler(h)'
    BY <2>1, <2>2, <2>4 DEF CalmHandler, ConfigTrue, Written, PublishStages
  <2> QED
    BY <1>2, <2>1, <2>2, <2>3, <2>4, <2>5
       DEF CalmVolume, ConfigTrue, ImageBusy, Written
<1>6. CASE WriteConfig(h) /\ harmed' = StillHarmed(h) /\ UNCHANGED <<attached, image>>
  BY <1>2, <1>6
     DEF WriteConfig, StillHarmed, CalmHandler, CalmVolume, ImageBusy, HandlerKnows,
         PublishStages, UnpublishStages
<1>7. CASE WriteOutput(h) /\ harmed' = StillHarmed(h) /\ UNCHANGED <<attached, image>>
  <2>1. /\ pc'[h] = "idle" /\ op'[h] = "none" /\ harmed' = {}
        /\ UNCHANGED <<typeFile, config>>
        /\ view'[v] = IF op[h] = "publish" THEN "published" ELSE "unpublished"
    BY <1>7 DEF WriteOutput, Return, StillHarmed
  <2>2. ConfigTrue(v) /\ (ImageBusy(v) => op[h] = "publish")
    BY <1>2, <1>7
       DEF WriteOutput, HandlerKnows, HasDevices, CalmHandler, ConfigTrue, ImageBusy,
           Written, PublishStages, UnpublishStages
  <2>3. CalmHandler(h)'
    BY <2>1 DEF CalmHandler
  <2> QED
    BY <1>2, <1>7, <2>1, <2>2, <2>3 DEF CalmVolume, ConfigTrue, ImageBusy, Written
<1>8. CASE Allocate(h) \/ CreateImageFromBase(h)
  BY <1>2, <1>8
     DEF Allocate, CreateImageFromBase, CalmHandler, CalmVolume, ConfigTrue, ImageBusy,
         Written, HandlerKnows, PublishStages, UnpublishStages, qemuVars
<1>9. CASE LockNBD(h)
  BY <1>2, <1>9
     DEF LockNBD, CalmHandler, CalmVolume, ConfigTrue, ImageBusy, Written,
         HandlerKnows, PublishStages, UnpublishStages
<1>10. CASE AttachNBD(h)
  <2>1. op[h] = "publish" /\ ~ ImageBusy(v) /\ typeFile[v] = "written"
    BY <1>2, <1>10
       DEF AttachNBD, HandlerKnows, UnpublishStages, CalmHandler, PublishStages,
           TypeWritten
  <2>2. attached[dev[h]] = NoVolume /\ dev[h] \in Devices
    BY <1>10
       DEF AttachNBD, NBDInv, AllocatedDeviceIsOurs, ConnectOK, Connecting
  <2>3. /\ attached' = [attached EXCEPT ![dev[h]] = v]
        /\ image' = [image EXCEPT ![v] = "used"]
        /\ pc'[h] = "settle" /\ harmed' = {}
        /\ UNCHANGED <<op, vol, dev, typeFile, config, view>>
    BY <1>2, <1>10, <2>1, <2>2 DEF AttachNBD, CalmVolume
  <2>4. CalmHandler(h)'
    BY <2>1, <2>2, <2>3 DEF CalmHandler
  <2> QED BY <2>1, <2>3, <2>4 DEF CalmVolume
<1>11. CASE SettleNBD(h)
  <2>1. op[h] = "publish" /\ attached[dev[h]] = v
    BY <1>2, <1>11
       DEF SettleNBD, HandlerKnows, UnpublishStages, CalmHandler
  <2>2. pc'[h] = "config" /\ UNCHANGED <<op, vol, dev, attached, image, typeFile, config,
                                        view, harmed>>
    BY <1>11, <2>1 DEF SettleNBD
  <2> QED
    BY <1>2, <2>1, <2>2 DEF CalmHandler, CalmVolume, ImageBusy, PublishStages
<1>12. CASE Disconnect(h) /\ pc[h] = "cleanup"
  <2>1. /\ op[h] = "publish" /\ dev[h] = NoDevice
        /\ ConfigTrue(v) /\ ~ ImageBusy(v)
    BY <1>2, <1>12 DEF HandlerKnows, UnpublishStages, CalmHandler, PublishStages
  <2>2. /\ pc'[h] = "idle" /\ op'[h] = "none" /\ harmed' = {}
        /\ UNCHANGED <<attached, image, typeFile, config, view>>
    BY <1>12, <2>1, CalmDisconnect DEF Disconnect, Return
  <2> QED
    BY <1>2, <2>1, <2>2 DEF CalmHandler, CalmVolume, ConfigTrue, ImageBusy, Written
<1>13. CASE Disconnect(h) /\ pc[h] = "disconnect"
  <2>1. /\ op[h] = "unpublish" /\ ConfigTrue(v)
        /\ config[v] = Written(dev[h])
    BY <1>2, <1>13 DEF HandlerKnows, PublishStages, CalmHandler, HasDevices
  <2>2. /\ pc'[h] = "config" /\ op'[h] = op[h] /\ vol'[h] = v /\ dev'[h] = NoDevice
        /\ UNCHANGED <<image, typeFile, config, view, vol>>
    BY <1>13 DEF Disconnect
  <2>3. \A d \in Devices : attached[d] = v => d = dev[h]
    <3>1. \A d \in Devices : attached[d] = v => Written(d).dev = Written(dev[h]).dev
      BY <2>1 DEF ConfigTrue
    <3> QED BY <3>1 DEF Written
  <2>4. \A d \in Devices : attached'[d] # v
    BY <1>13, <2>3, CalmDisconnect
  <2>5. CalmHandler(h)'
    BY <2>1, <2>2, <2>4 DEF CalmHandler, ImageBusy
  <2>6. harmed' = {}
    BY <1>13, CalmDisconnect
  <2> QED BY <1>2, <2>2, <2>4, <2>5, <2>6 DEF CalmVolume, ImageBusy
<1> QED
  BY <1>4, <1>5, <1>6, <1>7, <1>8, <1>9, <1>10, <1>11, <1>12, <1>13
     DEF Step, NodeStep, Disconnect, StillHarmed, NewRootFS, ErrorLun, LoadRootFS

(* Everybody else's. *)
LEMMA StepCalmOthers ==
  ASSUME KnownInv, CalmInv, Faults = {}, NEW h \in Handlers, Step(h)
  PROVE  /\ \A g \in Handlers \ {h} : CalmHandler(g)'
         /\ \A v \in Volumes \ {vol[h]} : CalmVolume(v)'
<1>1. ASSUME NEW g \in Handlers, g # h PROVE CalmHandler(g)'
  <2>1. Untouched(g) /\ CalmHandler(g)
    BY <1>1, StepUntouched DEF KnownInv, CalmInv
  <2>2. CASE Idle(g)
    BY <2>1, <2>2
       DEF Untouched, CalmHandler, Idle, PublishStages
  <2>3. CASE Active(g)
    <3>1. vol[g] \in Volumes /\ vol[g] # vol[h] /\ HandlerKnows(g)
      BY <1>1, <2>3, ActiveVolume, StepActive
         DEF KnownInv, TypeInv, ControlInv, VolumeExclusion, KnowInv
    <3>2. Keeps(vol[g])
      BY <3>1, CalmKeeps
    <3>3. vol'[g] = vol[g] /\ pc'[g] = pc[g] /\ op'[g] = op[g] /\ dev'[g] = dev[g]
      BY <2>1 DEF Untouched
    <3>4. /\ ConfigTrue(vol[g]) => ConfigTrue(vol[g])'
          /\ ImageBusy(vol[g])' <=> ImageBusy(vol[g])
      BY <3>2, <3>3 DEF Keeps, ConfigTrue, ImageBusy, Written
    <3>5. op[g] = "publish" /\ pc[g] \in {"settle", "config", "output"}
            => attached'[dev[g]] = vol[g]
      <4>1. op[g] = "publish" /\ pc[g] \in {"config", "output"} => dev[g] \in Devices
        BY <3>1 DEF HandlerKnows
      <4>2. pc[g] = "settle" => dev[g] \in Devices
        BY DEF KnownInv, NBDInv, ConnectOK, Connecting
      <4> QED BY <2>1, <3>2, <4>1, <4>2 DEF CalmHandler, Keeps
    <3> QED BY <2>1, <3>3, <3>4, <3>5 DEF CalmHandler
  <2> QED BY <2>2, <2>3 DEF Active
<1>2. ASSUME NEW v \in Volumes, v # vol[h] PROVE CalmVolume(v)'
  <2>1. Keeps(v) /\ CalmVolume(v)
    BY <1>2, CalmKeeps DEF CalmInv
  <2>2. /\ ConfigTrue(v) => ConfigTrue(v)'
        /\ ImageBusy(v)' <=> ImageBusy(v)
    BY <2>1, KeepsCalm
  <2>3. (\A g \in Handlers : vol'[g] # v) => \A g \in Handlers : vol[g] # v
    BY <1>2, StepUntouched DEF Untouched, KnownInv
  <2> QED BY <2>1, <2>2, <2>3 DEF CalmVolume, Keeps
<1> QED BY <1>1, <1>2

LEMMA RequestCalm ==
  ASSUME KnownInv, CalmInv, Faults = {}, NEW h \in Handlers, Request(h),
         UNCHANGED qemuVars
  PROVE  CalmInv'
<1>1. UNCHANGED <<dev, typeFile, config, attached, image, harmed>>
  BY DEF Request, NodePublishVolume, NodeUnpublishVolume, AlreadyExists, Enter,
         qemuVars
<1>2. \A v \in Volumes : /\ ConfigTrue(v) => ConfigTrue(v)'
                         /\ ImageBusy(v)' <=> ImageBusy(v)
  BY <1>1 DEF ConfigTrue, ImageBusy, Written
<1>3. CASE \E v \in Volumes : AlreadyExists(h, v)
  BY <1>1, <1>3
     DEF AlreadyExists, CalmInv, CalmHandler, CalmVolume, ConfigTrue, ImageBusy,
         Written
<1>4. ASSUME NEW v \in Volumes,
             NodePublishVolume(h, v) \/ NodeUnpublishVolume(h, v)
      PROVE  CalmInv'
  <2>1. /\ \A g \in Handlers : vol[g] # v
        /\ Idle(h) /\ dev[h] = NoDevice
    BY <1>4, LockedByHandler, NodeAssumption
       DEF NodePublishVolume, NodeUnpublishVolume, Enter, TryAcquire, KnownInv,
           TypeInv, ControlInv, ActiveHasVolume, KnowInv, HandlerKnows, Active, Idle
  <2>2. ConfigTrue(v) /\ (ImageBusy(v) => view[v] = "published")
    BY <2>1 DEF CalmInv, CalmVolume
  <2>3. /\ vol' = [vol EXCEPT ![h] = v]
        /\ \A w \in Volumes : w # v => view'[w] = view[w]
    BY <1>4
       DEF NodePublishVolume, NodeUnpublishVolume, Enter, KnownInv, TypeInv, NodeDataOK
  <2>4. vol \in [Handlers -> Volumes \cup {NoVolume}] /\ vol[h] = NoVolume
    BY <2>1 DEF KnownInv, TypeInv, ControlInv, ControlTypeOK, ActiveHasVolume, Idle
  <2>5. ASSUME NEW w \in Volumes PROVE CalmVolume(w)'
    BY <1>1, <1>2, <2>3, <2>4, NodeAssumption DEF CalmInv, CalmVolume
  <2>6. ASSUME NEW g \in Handlers, g # h PROVE CalmHandler(g)'
    BY <1>1, <1>4, <2>6
       DEF NodePublishVolume, NodeUnpublishVolume, Enter, Goto, CalmInv, CalmHandler,
           ConfigTrue, ImageBusy, Written, KnownInv, TypeInv, ControlInv,
           ControlTypeOK
  <2>7. CalmHandler(h)'
    <3>1. CASE NodePublishVolume(h, v)
      <4>1. /\ pc'[h] = "new" /\ op'[h] = "publish" /\ vol'[h] = v
            /\ ~ ImageBusy(v)
        BY <2>2, <3>1
           DEF NodePublishVolume, Enter, Goto, KnownInv, TypeInv, ControlInv,
               ControlTypeOK
      <4> QED
        BY <1>1, <2>2, <4>1
           DEF CalmHandler, ConfigTrue, ImageBusy, Written
    <3>2. CASE NodeUnpublishVolume(h, v)
      <4>1. pc'[h] = "load" /\ op'[h] = "unpublish" /\ vol'[h] = v
        BY <3>2
           DEF NodeUnpublishVolume, Enter, Goto, KnownInv, TypeInv, ControlInv,
               ControlTypeOK
      <4> QED BY <1>1, <2>2, <4>1 DEF CalmHandler, ConfigTrue, Written
    <3> QED BY <1>4, <3>1, <3>2
  <2> QED BY <1>1, <2>5, <2>6, <2>7 DEF CalmInv
<1> QED BY <1>3, <1>4 DEF Request

LEMMA CalmNext ==
  ASSUME KnownInv, CalmInv, Faults = {}, [Next]_vars PROVE CalmInv'
<1>1. ASSUME NEW h \in Handlers, Step(h) PROVE CalmInv'
  <2>1. ASSUME NEW v \in Volumes PROVE CalmVolume(v)'
    BY <1>1, StepCalm, StepCalmOthers
  <2> QED BY <1>1, <2>1, StepCalm, StepCalmOthers DEF CalmInv
<1>2. ASSUME Restart PROVE FALSE
  BY <1>2 DEF Restart, NodeRestart
<1>3. ASSUME UNCHANGED vars PROVE CalmInv'
  BY <1>3
     DEF vars, nodeVars, qemuVars, CalmInv, CalmHandler, CalmVolume, ConfigTrue,
         ImageBusy, Written
<1> QED BY <1>1, <1>2, <1>3, RequestCalm DEF Next

LEMMA CalmCorrect == ASSUME Faults = {} PROVE Spec => []CalmInv
<1>1. Init => CalmInv
  BY NodeAssumption
     DEF Init, NodeInit, CalmInv, CalmHandler, CalmVolume, ConfigTrue, ImageBusy,
         Absent, Written
<1>2. KnownInv /\ CalmInv /\ [Next]_vars => CalmInv'
  BY CalmNext
<1> QED BY <1>1, <1>2, KnownCorrect, PTL DEF Spec

(* One request at a time: then no handler comes between a failed Connect   *)
(* and its cleanup, and what is read of devices stays true.                *)
OneAtATime == \A g, h \in Handlers : g = h

(* A config that names a device names the one its volume is on, except     *)
(* when the device was just disconnected and the config not rewritten yet. *)
NamesOwn(v) ==
  \A d \in Devices :
    config[v] = Written(d) =>
      \/ attached[d] = v
      \/ /\ attached[d] = NoVolume
         /\ \E h \in Handlers :
              vol[h] = v /\ op[h] = "unpublish" /\ pc[h] = "config"

(* What a publish has in hand to clean up is its own, and no config's.     *)
CleansOwn(h) ==
  pc[h] \in {"settle", "cleanup"} /\ dev[h] # NoDevice =>
    /\ attached[dev[h]] \in {NoVolume, vol[h]}
    /\ attached[dev[h]] = vol[h] => config[vol[h]] # Written(dev[h])

KeepsDevice(h) ==
  op[h] = "publish" /\ pc[h] \in {"config", "output"} => attached[dev[h]] = vol[h]

SoloInv ==
  /\ harmed = {}
  /\ \A h \in Handlers : CleansOwn(h)
  /\ \A v \in Volumes : NamesOwn(v)

LEMMA StepKeepsDevice ==
  ASSUME OneAtATime, KnownInv, NEW h \in Handlers, Step(h), KeepsDevice(h)
  PROVE  KeepsDevice(h)'
<1>1. HandlerKnows(h) /\ Active(h) /\ NBDInv
  BY StepActive DEF KnownInv, KnowInv
<1> USE <1>1
    DEF KnownInv, TypeInv, ControlInv, ControlTypeOK, NodeDataOK, QemuDataOK, Goto,
        KeepsDevice
<1>2. CASE NodeStep(h) /\ UNCHANGED attached
  BY <1>2
     DEF NodeStep, NewRootFS, ErrorLun, LoadRootFS, WriteConfig, WriteOutput, Fail, Return
<1>3. CASE Allocate(h) \/ CreateImageFromBase(h) \/ LockNBD(h) \/ AttachNBD(h)
  BY <1>3 DEF Allocate, CreateImageFromBase, LockNBD, AttachNBD, Return
<1>4. CASE SettleNBD(h)
  BY <1>4 DEF SettleNBD, NBDInv, AllocatedDeviceIsOurs
<1>5. CASE Disconnect(h)
  BY <1>5 DEF Disconnect, Return, HandlerKnows, PublishStages
<1> QED BY <1>2, <1>3, <1>4, <1>5 DEF Step

LEMMA SoloConnected ==
  ASSUME OneAtATime PROVE Spec => [](\A h \in Handlers : KeepsDevice(h))
<1> DEFINE Inv == \A h \in Handlers : KeepsDevice(h)
<1>1. Init => Inv
  BY DEF Init, NodeInit, KeepsDevice
<1>2. ASSUME KnownInv, Inv, [Next]_vars PROVE Inv'
  <2>1. ASSUME NEW h \in Handlers, Step(h) PROVE Inv'
    BY <1>2, <2>1, StepKeepsDevice DEF OneAtATime
  <2>2. ASSUME NEW h \in Handlers, Request(h), UNCHANGED qemuVars PROVE Inv'
    BY <1>2, <2>2
       DEF Request, NodePublishVolume, NodeUnpublishVolume, AlreadyExists, Enter,
           qemuVars, Goto, KeepsDevice, OneAtATime, KnownInv, TypeInv, ControlInv,
           ControlTypeOK
  <2>3. ASSUME Restart PROVE Inv'
    BY <2>3 DEF Restart, NodeRestart, KeepsDevice
  <2>4. ASSUME UNCHANGED vars PROVE Inv'
    BY <1>2, <2>4 DEF vars, nodeVars, qemuVars, KeepsDevice
  <2> QED BY <1>2, <2>1, <2>2, <2>3, <2>4 DEF Next
<1> HIDE DEF Inv
<1>3. Spec => []Inv
  BY <1>1, <1>2, KnownCorrect, PTL DEF Spec
<1> QED BY <1>3 DEF Inv

(* A step that changes no config and no device, and begins neither an      *)
(* unpublish's WriteConfig nor a cleanup.                                  *)
LEMMA SoloFrame ==
  ASSUME OneAtATime, KnownInv, SoloInv, NEW h \in Handlers,
         pc[h] # "config", UNCHANGED <<attached, config>>, harmed' \subseteq harmed,
         pc'[h] \notin {"settle", "cleanup"} \/ dev'[h] = NoDevice
  PROVE  SoloInv'
<1>1. \A g \in Handlers : CleansOwn(g)'
  BY DEF OneAtATime, CleansOwn
<1>2. \A v \in Volumes : NamesOwn(v)'
  BY DEF OneAtATime, SoloInv, NamesOwn, Written
<1> QED BY <1>1, <1>2 DEF SoloInv

LEMMA StepSolo ==
  ASSUME OneAtATime, Faults \cap {"io", "restart"} = {}, KnownInv, SoloInv,
         NEW h \in Handlers, Step(h), \A g \in Handlers : KeepsDevice(g)
  PROVE  SoloInv'
<1>1. /\ vol[h] \in Volumes /\ vol[h] # NoVolume /\ Active(h)
      /\ HandlerKnows(h) /\ HasDevices(h) /\ CleansOwn(h) /\ KeepsDevice(h)
      /\ harmed = {} /\ NoDevice \notin Devices
  BY ActiveVolume, StepActive, NodeAssumption DEF KnownInv, KnowInv, LeakInv, SoloInv
<1>2. \A old, torn : WriteFails(old, torn) = {}
  BY DEF WriteFails
<1>3. dev[h] # NoDevice => dev[h] \in Devices
  BY DEF KnownInv, TypeInv, NodeDataOK, DeviceOrNone
<1>4. \A d, e : Written(d) = Written(e) => d = e
  <2>1. ASSUME NEW d, NEW e, Written(d) = Written(e) PROVE d = e
    <3>1. Written(d).dev = Written(e).dev
      BY <2>1
    <3> QED BY <3>1 DEF Written
  <2> QED BY <2>1
<1> USE <1>1
    DEF KnownInv, TypeInv, ControlInv, ControlTypeOK, NodeDataOK, QemuDataOK, Goto
<1>5. CASE NewRootFS(h) /\ UNCHANGED <<attached, harmed>>
  BY <1>2, <1>5, SoloFrame DEF NewRootFS, ErrorLun, Return
<1>6. CASE LoadRootFS(h) /\ UNCHANGED <<attached, harmed>>
  BY <1>6, SoloFrame DEF LoadRootFS, Return
<1>7. CASE Allocate(h) \/ CreateImageFromBase(h)
  BY <1>7, SoloFrame DEF Allocate, CreateImageFromBase, Return, qemuVars
<1>8. CASE LockNBD(h)
  BY <1>8, SoloFrame DEF LockNBD, HandlerKnows
<1>9. CASE WriteOutput(h) /\ harmed' = StillHarmed(h) /\ UNCHANGED attached
  BY <1>2, <1>9, SoloFrame DEF WriteOutput, Return, StillHarmed
<1>10. CASE WriteConfig(h) /\ harmed' = StillHarmed(h) /\ UNCHANGED attached
  <2> PICK v \in Volumes : v = vol[h]
    OBVIOUS
  <2>1. /\ config' = [config EXCEPT ![v] = Written(dev[h])]
        /\ pc'[h] = "output" /\ harmed' = {}
    BY <1>2, <1>10 DEF WriteConfig, StillHarmed
  <2>2. dev[h] \in Devices => attached[dev[h]] = v
    BY <1>10 DEF HandlerKnows, KeepsDevice, WriteConfig, PublishStages, UnpublishStages
  <2>3. NamesOwn(v)'
    <3>1. config'[v] = Written(dev[h])
      BY <2>1
    <3>2. \A d \in Devices : config'[v] = Written(d)' => d = dev[h]
      BY <1>4, <3>1 DEF Written
    <3> QED BY <1>10, <2>2, <3>2 DEF NamesOwn
  <2>4. ASSUME NEW w \in Volumes, w # v PROVE NamesOwn(w)'
    BY <1>10, <2>1, <2>4 DEF NamesOwn, SoloInv, OneAtATime, Written, WriteConfig
  <2>5. \A g \in Handlers : CleansOwn(g)'
    BY <2>1 DEF CleansOwn, OneAtATime
  <2> QED BY <2>1, <2>3, <2>4, <2>5 DEF SoloInv
<1>11. CASE AttachNBD(h)
  <2>1. attached[dev[h]] = NoVolume /\ dev[h] \in Devices /\ op[h] = "publish"
    BY <1>11
       DEF AttachNBD, NBDInv, AllocatedDeviceIsOurs, ConnectOK, Connecting,
           HandlerKnows, UnpublishStages
  <2>2. UNCHANGED <<config, vol, dev, op>> /\ pc'[h] \in {"settle", "cleanup"}
        /\ pc[h] = "attach"
    BY <1>11 DEF AttachNBD
  <2>3. CASE UNCHANGED <<attached, harmed>>
    <3>1. \A g \in Handlers : CleansOwn(g)'
      BY <2>1, <2>2, <2>3 DEF CleansOwn, OneAtATime
    <3>2. \A w \in Volumes : NamesOwn(w)'
      BY <2>2, <2>3 DEF NamesOwn, SoloInv, OneAtATime, Written
    <3> QED BY <2>3, <3>1, <3>2 DEF SoloInv
  <2>4. CASE /\ ~ ImageBusy(vol[h])
             /\ attached' = [attached EXCEPT ![dev[h]] = vol[h]]
             /\ harmed' \subseteq harmed
    <3>1. \A d \in Devices : config[vol[h]] # Written(d)
      BY <2>1, <2>2, <2>4 DEF SoloInv, NamesOwn, ImageBusy, OneAtATime
    <3>2. \A w \in Volumes : config[w] # Written(dev[h])
      BY <2>1, <2>2, NodeAssumption DEF SoloInv, NamesOwn, OneAtATime
    <3>3. \A g \in Handlers : CleansOwn(g)'
      BY <2>1, <2>2, <2>4, <3>1 DEF CleansOwn, OneAtATime, Written
    <3>4. \A w \in Volumes : NamesOwn(w)'
      BY <2>2, <2>4, <3>2 DEF NamesOwn, SoloInv, OneAtATime, Written
    <3> QED BY <2>4, <3>3, <3>4 DEF SoloInv
  <2> QED BY <1>11, <2>3, <2>4 DEF AttachNBD
<1>12. CASE SettleNBD(h)
  <2>1. /\ UNCHANGED <<attached, config, vol, dev, op, harmed>>
        /\ pc[h] = "settle" /\ pc'[h] \in {"config", "cleanup"}
    BY <1>12 DEF SettleNBD
  <2>2. \A g \in Handlers : CleansOwn(g)'
    BY <2>1 DEF CleansOwn, OneAtATime, Written
  <2>3. \A w \in Volumes : NamesOwn(w)'
    BY <2>1 DEF NamesOwn, SoloInv, OneAtATime, Written
  <2> QED BY <2>1, <2>2, <2>3 DEF SoloInv
<1>13. CASE Disconnect(h)
  <2>1. dev[h] # NoDevice => attached[dev[h]] \in {NoVolume, vol[h]}
    BY <1>3, <1>13
       DEF Disconnect, CleansOwn, HasDevices, SoloInv, NamesOwn, OneAtATime
  <2>2. harmed' = {}
    BY <1>13, <2>1 DEF Disconnect, FreeDevice
  <2>3. /\ UNCHANGED config /\ pc'[h] \in {"config", "idle"}
        /\ pc[h] \in {"disconnect", "cleanup"}
        /\ pc[h] = "disconnect" => op'[h] = op[h] /\ vol'[h] = vol[h] /\ pc'[h] = "config"
        /\ \A d \in Devices :
             attached'[d] = attached[d] \/ (attached'[d] = NoVolume /\ d = dev[h])
    <3>1. \/ attached' = attached
          \/ attached' = [attached EXCEPT ![dev[h]] = NoVolume]
      BY <1>13 DEF Disconnect, FreeDevice
    <3>2. \A d \in Devices :
            attached'[d] = attached[d] \/ (attached'[d] = NoVolume /\ d = dev[h])
      BY <3>1
    <3> QED BY <1>13, <3>2 DEF Disconnect, Return
  <2>4. \A g \in Handlers : CleansOwn(g)'
    BY <2>3 DEF CleansOwn, OneAtATime
  <2>5. ASSUME NEW w \in Volumes PROVE NamesOwn(w)'
    <3>1. SUFFICES ASSUME NEW d \in Devices, config[w] = Written(d)
                   PROVE  \/ attached'[d] = w
                          \/ /\ attached'[d] = NoVolume
                             /\ vol'[h] = w /\ op'[h] = "unpublish" /\ pc'[h] = "config"
      BY <2>3 DEF NamesOwn, Written
    <3>2. attached[d] = w
      BY <2>3, <3>1 DEF SoloInv, NamesOwn, OneAtATime
    <3>3. CASE attached'[d] # attached[d]
      <4>1. d = dev[h] /\ w = vol[h] /\ attached'[d] = NoVolume
        BY <1>3, <2>1, <2>3, <3>2, <3>3, NodeAssumption
      <4>2. pc[h] = "disconnect"
        BY <2>3, <3>1, <3>2, <4>1 DEF CleansOwn
      <4> QED BY <2>3, <4>1, <4>2 DEF HandlerKnows, PublishStages
    <3> QED BY <3>2, <3>3
  <2> QED BY <2>2, <2>4, <2>5 DEF SoloInv
<1> QED
  BY <1>5, <1>6, <1>7, <1>8, <1>9, <1>10, <1>11, <1>12, <1>13
     DEF Step, NodeStep, StillHarmed, NewRootFS, ErrorLun, LoadRootFS

LEMMA SoloCorrect ==
  ASSUME OneAtATime, Faults \cap {"io", "restart"} = {} PROVE Spec => []SoloInv
<1> DEFINE Connected == \A h \in Handlers : KeepsDevice(h)
<1>1. Init => SoloInv
  BY NodeAssumption
     DEF Init, NodeInit, SoloInv, CleansOwn, NamesOwn, Absent, Written
<1>2. ASSUME KnownInv, SoloInv, Connected, [Next]_vars PROVE SoloInv'
  <2>1. ASSUME NEW h \in Handlers, Step(h) PROVE SoloInv'
    BY <1>2, <2>1, StepSolo
  <2>2. ASSUME NEW h \in Handlers, Request(h), UNCHANGED qemuVars PROVE SoloInv'
    <3>1. pc[h] = "idle" /\ UNCHANGED <<attached, config, harmed>>
      BY <2>2
         DEF Request, NodePublishVolume, NodeUnpublishVolume, AlreadyExists, Enter,
             qemuVars, Idle
    <3>2. pc'[h] \in {"idle", "new", "load"}
      BY <1>2, <2>2, <3>1
         DEF Request, NodePublishVolume, NodeUnpublishVolume, AlreadyExists, Enter,
             Goto, KnownInv, TypeInv, ControlInv, ControlTypeOK
    <3> QED BY <1>2, <3>1, <3>2, SoloFrame
  <2>3. ASSUME Restart PROVE FALSE
    BY <2>3 DEF Restart, NodeRestart
  <2>4. ASSUME UNCHANGED vars PROVE SoloInv'
    BY <1>2, <2>4
       DEF vars, nodeVars, qemuVars, SoloInv, CleansOwn, NamesOwn, Written
  <2> QED BY <1>2, <2>1, <2>2, <2>3, <2>4 DEF Next
<1>3. Spec => []Connected
  BY SoloConnected
<1> HIDE DEF Connected
<1> QED BY <1>1, <1>2, <1>3, KnownCorrect, PTL DEF Spec

(* When a handler can trust what it knows of other volumes' devices: if    *)
(* nothing fails, however requests interleave; or if requests come one at  *)
(* a time and no file operation fails and no restart comes between a       *)
(* device and the config that names it, whatever else fails.               *)
Trustworthy == \/ Faults = {}
               \/ OneAtATime /\ Faults \cap {"io", "restart"} = {}

(* Then NodeUnpublishVolume never takes the device of a volume other than  *)
(* its own, nor does the cleanup of a failed publish.  All of this is      *)
(* needed: with two handlers any fault, and with one a failed write or a   *)
(* restart, is enough to break it.                                         *)
THEOREM NoHarmHolds == ASSUME Trustworthy PROVE Spec => []NoHarm
<1>1. (CalmInv => NoHarm) /\ (SoloInv => NoHarm)
  BY DEF CalmInv, SoloInv, NoHarm
<1>2. CASE Faults = {}
  BY <1>1, <1>2, CalmCorrect, PTL
<1>3. CASE OneAtATime /\ Faults \cap {"io", "restart"} = {}
  BY <1>1, <1>3, SoloCorrect, PTL
<1> QED BY <1>2, <1>3 DEF Trustworthy

(* And the config that NodeUnpublishVolume loads is not older than the     *)
(* device table: the device in it serves the volume, or nobody.            *)
THEOREM UnpublishFindsOwnDeviceHolds ==
  ASSUME Trustworthy PROVE Spec => []UnpublishFindsOwnDevice
<1>1. KnownInv /\ CalmInv => UnpublishFindsOwnDevice
  <2> SUFFICES ASSUME KnownInv, CalmInv, NEW h \in Handlers,
                      pc[h] = "disconnect", dev[h] # NoDevice
               PROVE  attached[dev[h]] \in {NoVolume, vol[h]}
    BY DEF UnpublishFindsOwnDevice
  <2>1. dev[h] \in Devices /\ op[h] = "unpublish"
    BY DEF KnownInv, TypeInv, NodeDataOK, DeviceOrNone, KnowInv, HandlerKnows,
           PublishStages, Active, Idle
  <2> QED BY <2>1 DEF CalmInv, CalmHandler, ConfigTrue, KnownInv, LeakInv, HasDevices
<1>2. ASSUME OneAtATime, KnownInv, SoloInv PROVE UnpublishFindsOwnDevice
  <2> SUFFICES ASSUME NEW h \in Handlers, pc[h] = "disconnect", dev[h] # NoDevice
               PROVE  attached[dev[h]] \in {NoVolume, vol[h]}
    BY DEF UnpublishFindsOwnDevice
  <2>1. dev[h] \in Devices /\ vol[h] \in Volumes /\ config[vol[h]] = Written(dev[h])
    BY <1>2, ActiveVolume
       DEF KnownInv, TypeInv, NodeDataOK, DeviceOrNone, Active, Idle, LeakInv, HasDevices
  <2> QED BY <1>2, <2>1 DEF SoloInv, NamesOwn
<1>3. CASE Faults = {}
  BY <1>1, <1>3, KnownCorrect, CalmCorrect, PTL
<1>4. CASE OneAtATime /\ Faults \cap {"io", "restart"} = {}
  BY <1>2, <1>4, KnownCorrect, SoloCorrect, PTL
<1> QED BY <1>3, <1>4 DEF Trustworthy

(* A publish that returns OK leaves its volume on the device that its      *)
(* files name, if nothing fails or if requests come one at a time: the     *)
(* cleanup of a failed Connect can only meet another handler's device.     *)
THEOREM PublishOkMeansAttachedHolds ==
  ASSUME Faults = {} \/ OneAtATime PROVE Spec => PublishOkMeansAttached
<1> DEFINE Connected == \A h \in Handlers : KeepsDevice(h)
           OkAttached == \A h \in Handlers :
                           pc[h] = "output" /\ op[h] = "publish" /\ pc'[h] = "idle"
                             => attached[dev[h]] = vol[h]
<1>1. Connected => [OkAttached]_vars
  BY DEF KeepsDevice
<1>2. CalmInv => Connected
  BY DEF CalmInv, CalmHandler, KeepsDevice
<1>3. Spec => []Connected
  <2> HIDE DEF Connected
  <2>1. CASE Faults = {}
    BY <1>2, <2>1, CalmCorrect, PTL
  <2>2. CASE OneAtATime
    BY <2>2, SoloConnected DEF Connected
  <2> QED BY <2>1, <2>2
<1>4. Spec => [][OkAttached]_vars
  <2> HIDE DEF Connected, OkAttached
  <2> QED BY <1>1, <1>3, PTL DEF Spec
<1> QED BY <1>4 DEF PublishOkMeansAttached

-----------------------------------------------------------------------------
(* Without faults no handler works on a volume that the caller takes for   *)
(* published, and no disconnect fails.                                     *)
QuietInv ==
  /\ excused = {}
  /\ \A h \in Handlers : Active(h) => view[vol[h]] # "published"

LEMMA StepQuiet ==
  ASSUME KnownInv, QuietInv, Faults = {}, NEW h \in Handlers, Step(h)
  PROVE  QuietInv'
<1>1. excused' = {}
  BY DEF Step, Allocate, CreateImageFromBase, LockNBD, AttachNBD, SettleNBD,
         Disconnect, FreeDevice, QuietInv, qemuVars
<1>2. ASSUME NEW g \in Handlers, g # h, Active(g)' PROVE view'[vol'[g]] # "published"
  BY <1>2, StepUntouched DEF Untouched, QuietInv, Active, Idle, KnownInv
<1>3. ASSUME Active(h)' PROVE view'[vol'[h]] # "published"
  <2>1. Active(h) /\ vol'[h] = vol[h]
    BY <1>3, StepControl DEF Advances, Finishes, Active, Idle, KnownInv, TypeInv,
                             ControlInv, ControlTypeOK, Return, Goto
  <2>2. view' = view
    BY <1>3
       DEF Step, NodeStep, NewRootFS, ErrorLun, LoadRootFS, WriteConfig, WriteOutput, Return,
           Allocate, CreateImageFromBase, LockNBD, AttachNBD, SettleNBD, Disconnect,
           Goto, Active, Idle, KnownInv, TypeInv, ControlInv, ControlTypeOK
  <2> QED BY <2>1, <2>2 DEF QuietInv
<1> QED BY <1>1, <1>2, <1>3 DEF QuietInv

LEMMA RequestQuiet ==
  ASSUME KnownInv, QuietInv, Faults = {}, NEW h \in Handlers, Request(h),
         UNCHANGED qemuVars
  PROVE  QuietInv'
<1>1. ASSUME NEW g \in Handlers, g # h, Active(g)' PROVE view'[vol'[g]] # "published"
  BY <1>1, RequestUntouched DEF Untouched, QuietInv, Active, Idle, KnownInv
<1>2. ASSUME Active(h)' PROVE view'[vol'[h]] # "published"
  BY <1>2
     DEF Request, NodePublishVolume, NodeUnpublishVolume, AlreadyExists, Enter, Goto,
         Active, Idle, KnownInv, TypeInv, ControlInv, ControlTypeOK, NodeDataOK
<1> QED BY <1>1, <1>2 DEF QuietInv, qemuVars

LEMMA QuietCorrect == ASSUME Faults = {} PROVE Spec => []QuietInv
<1>1. Init => QuietInv
  BY DEF Init, NodeInit, QuietInv, Active, Idle
<1>2. ASSUME KnownInv, QuietInv, [Next]_vars PROVE QuietInv'
  <2>1. ASSUME Restart PROVE FALSE
    BY <2>1 DEF Restart, NodeRestart
  <2>2. ASSUME UNCHANGED vars PROVE QuietInv'
    BY <1>2, <2>2 DEF vars, nodeVars, qemuVars, QuietInv, Active, Idle
  <2> QED BY <1>2, <2>1, <2>2, StepQuiet, RequestQuiet DEF Next
<1> QED BY <1>1, <1>2, KnownCorrect, PTL DEF Spec

LEMMA WorkOfStore ==
  ASSUME NEW h \in Handlers, NEW v \in Volumes, Store!Work(h, v)
  PROVE  [Store!Next]_(Store!state)
BY DEF Store!Next

(* What the caller sees of a step: an answer, its handler's device, or     *)
(* nothing.                                                                *)
LEMMA StepStore ==
  ASSUME KnownInv, CalmInv, QuietInv, QuietInv', Faults = {}, NEW h \in Handlers,
         Step(h), NEW v, v = vol[h]
  PROVE  [Store!Next]_(Store!state)
<1>1. v \in Volumes /\ v # NoVolume /\ Active(h) /\ HandlerKnows(h) /\ CalmHandler(h)
  BY ActiveVolume, StepActive, NodeAssumption DEF KnownInv, KnowInv, CalmInv
<1>2. /\ {attached[d] : d \in excused} = {}
      /\ {attached'[d] : d \in excused'} = {}
  BY DEF QuietInv
<1>3. view[v] # "published"
  BY <1>1 DEF QuietInv
<1> USE DEF Store!state
<1>4. CASE UNCHANGED <<vol, attached, view>>
  BY <1>2, <1>4
<1>5. CASE Return(h) /\ UNCHANGED <<attached, view>>
  <2>1. Store!Fail(h, v)
    BY <1>1, <1>2, <1>5 DEF Return, Store!Fail, Store!Works, Store!Answer
  <2> QED BY <1>1, <2>1, WorkOfStore DEF Store!Work
<1>6. CASE WriteOutput(h) /\ UNCHANGED attached
  <2>1. CASE UNCHANGED <<vol, view>>
    BY <1>4, <1>6, <2>1
  <2>2. CASE /\ op[h] = "publish" /\ Return(h)
             /\ view' = [view EXCEPT ![v] = "published"]
    <3>1. attached[dev[h]] = v /\ dev[h] \in Devices
      BY <1>1, <1>6, <2>2 DEF WriteOutput, CalmHandler, HandlerKnows
    <3>2. Store!PublishOK(h, v)
      BY <1>1, <1>2, <1>6, <2>2, <3>1
         DEF Return, Store!PublishOK, Store!Works, Store!On, Store!Answer, Store!Told
    <3> QED BY <1>1, <3>2, WorkOfStore DEF Store!Work
  <2>3. CASE /\ op[h] # "publish" /\ Return(h)
             /\ view' = [view EXCEPT ![v] = "unpublished"]
    <3>1. \A d \in Devices : attached[d] # v
      BY <1>1, <1>6, <2>3 DEF WriteOutput, CalmHandler, HandlerKnows, ImageBusy
    <3>2. Store!UnpublishOK(h, v)
      BY <1>1, <1>2, <1>6, <2>3, <3>1
         DEF Return, Store!UnpublishOK, Store!Works, Store!On, Store!Answer, Store!Told
    <3> QED BY <1>1, <3>2, WorkOfStore DEF Store!Work
  <2> QED BY <1>6, <2>1, <2>2, <2>3 DEF WriteOutput, WriteFails
<1>7. CASE AttachNBD(h) /\ attached' # attached
  <2>1. /\ ~ ImageBusy(v)
        /\ attached[dev[h]] = NoVolume
        /\ attached' = [attached EXCEPT ![dev[h]] = v]
        /\ UNCHANGED <<vol, view>>
    BY <1>7 DEF AttachNBD
  <2>2. dev[h] \in Devices
    BY <1>7 DEF AttachNBD, KnownInv, NBDInv, ConnectOK, Connecting
  <2>3. view[v] = "unknown"
    BY <1>1, <1>3, <1>7
       DEF AttachNBD, HandlerKnows, UnpublishStages, KnownInv, TypeInv, NodeDataOK,
           Views
  <2>4. Store!Connect(h, v)
    BY <1>1, <1>2, <2>1, <2>2, <2>3 DEF ImageBusy, Store!Connect, Store!Works, Store!On
  <2> QED BY <1>1, <2>4, WorkOfStore DEF Store!Work
<1>8. CASE Disconnect(h) /\ dev[h] = NoDevice
  BY <1>4, <1>5, <1>8, CalmDisconnect DEF Disconnect
<1>9. CASE Disconnect(h) /\ dev[h] # NoDevice
  <2>1. /\ pc[h] = "disconnect"
        /\ attached[dev[h]] = v
        /\ attached' = [attached EXCEPT ![dev[h]] = NoVolume]
        /\ UNCHANGED <<vol, view>>
    BY <1>1, <1>9, CalmDisconnect DEF Disconnect
  <2>2. dev[h] \in Devices
    BY <1>9 DEF KnownInv, TypeInv, NodeDataOK, DeviceOrNone
  <2>3. attached' = Store!Without(v)
    BY <1>1, <2>1, <2>2
       DEF KnownInv, LeakInv, OneDevice, TypeInv, QemuDataOK, Store!Without
  <2>4. view[v] = "unknown"
    <3>1. config[v] = Written(dev[h])
      BY <2>1 DEF KnownInv, LeakInv, HasDevices
    <3>2. config[v].dev # NoDevice
      BY <1>9, <3>1 DEF Written
    <3> QED
      BY <1>1, <1>3, <3>2
         DEF KnownInv, KnowInv, UnpublishedForgetsDevice, TypeInv, NodeDataOK, Views
  <2>5. view' = [view EXCEPT ![v] = "unknown"]
    BY <2>1, <2>4 DEF KnownInv, TypeInv, NodeDataOK
  <2>6. Store!Disconnect(h, v)
    BY <1>1, <1>2, <2>1, <2>3, <2>5 DEF Store!Disconnect, Store!Works, Store!Told
  <2> QED BY <1>1, <2>6, WorkOfStore DEF Store!Work
<1> QED
  BY <1>4, <1>5, <1>6, <1>7, <1>8, <1>9
     DEF Step, NodeStep, NewRootFS, ErrorLun, LoadRootFS, WriteConfig, WriteFails, Allocate,
         CreateImageFromBase, LockNBD, AttachNBD, SettleNBD, qemuVars

LEMMA RequestStore ==
  ASSUME KnownInv, NEW h \in Handlers, Request(h), UNCHANGED qemuVars
  PROVE  [Store!Next]_(Store!state)
<1> USE DEF Store!state, qemuVars
<1>1. CASE \E v \in Volumes : AlreadyExists(h, v)
  BY <1>1 DEF AlreadyExists
<1>2. ASSUME NEW v \in Volumes, NodePublishVolume(h, v) \/ NodeUnpublishVolume(h, v)
      PROVE  [Store!Next]_(Store!state)
  <2>1. vol[h] = NoVolume /\ \A g \in Handlers : vol[g] # v
    BY <1>2, LockedByHandler, NodeAssumption
       DEF NodePublishVolume, NodeUnpublishVolume, Enter, TryAcquire, KnownInv,
           TypeInv, ControlInv, ActiveHasVolume, Active, Idle
  <2>2. Store!Begin(h, v)
    BY <1>2, <2>1
       DEF NodePublishVolume, NodeUnpublishVolume, Enter, Store!Begin, Store!Unsure,
           Store!Told
  <2> QED BY <2>2, WorkOfStore DEF Store!Work
<1> QED BY <1>1, <1>2 DEF Request

(* While nothing fails, QemuNode implements VolumeDevices: handlers that   *)
(* search, connect and disconnect devices in several steps each, next to   *)
(* each other, look as if each did so in one step of its own volume alone. *)
THEOREM VolumeDevicesRefinement ==
  ASSUME Faults = {} PROVE Spec => ImplementsVolumeDevices
<1>1. Init => Store!Init
  BY DEF Init, NodeInit, Store!Init
<1>2. KnownInv /\ CalmInv /\ QuietInv /\ QuietInv' /\ [Next]_vars
        => [Store!Next]_(Store!state)
  <2> SUFFICES ASSUME KnownInv, CalmInv, QuietInv, QuietInv', [Next]_vars
               PROVE  [Store!Next]_(Store!state)
    OBVIOUS
  <2>1. ASSUME Restart PROVE FALSE
    BY <2>1 DEF Restart, NodeRestart
  <2>2. CASE UNCHANGED vars
    BY <2>2 DEF vars, nodeVars, qemuVars, Store!state
  <2> QED BY <2>1, <2>2, StepStore, RequestStore DEF Next
<1> QED
  BY <1>1, <1>2, KnownCorrect, CalmCorrect, QuietCorrect, PTL
     DEF Spec, ImplementsVolumeDevices, Store!Spec

=============================================================================
