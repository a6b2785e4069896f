------------------------- MODULE ISCSIServedProofs -------------------------
(***************************************************************************)
(* Theorems about what ISCSINode does to sessions: none is leaked          *)
(* silently or outlives its volume, a published volume stays served, and   *)
(* ISCSINode implements VolumeDevices.  They rest on what a handler at     *)
(* each stage knows about its volume: HandlerKnows.                        *)
(***************************************************************************)
EXTENDS ISCSINodeProofs

PublishStages   == {"new", "allocate", "close", "login", "preempt",
                    "config", "output", "cleanup"}
UnpublishStages == {"load", "disconnect", "config", "output"}

(* What holds of a handler at each of its stages. *)
HandlerKnows(h) ==
  /\ pc[h] \in {"idle", "new", "allocate", "close", "login", "load"}
       => dev[h] = NoDevice
  /\ Active(h) => \/ op[h] = "publish"   /\ pc[h] \in PublishStages
                  \/ op[h] = "unpublish" /\ pc[h] \in UnpublishStages
  /\ pc[h] = "preempt" => dev[h] \in Devices
  /\ pc[h] \in {"config", "output"} =>
       IF op[h] = "publish" THEN dev[h] \in Devices ELSE dev[h] = NoDevice
  /\ pc[h] = "output" => config[vol[h]] = Written(dev[h])
  /\ pc[h] = "disconnect" => config[vol[h]].dev = dev[h]

KnowInv == \A h \in Handlers : HandlerKnows(h)

LEMMA StepActive ==
  ASSUME TypeInv, NEW h \in Handlers, Step(h)
  PROVE  Active(h) /\ vol[h] \in Volumes /\ TargetOf[vol[h]] \in Targets
BY StepControl, ISCSIAssumption
   DEF Advances, Finishes, TypeInv, ControlInv, ControlTypeOK, ActiveHasVolume,
       Active

(* What handler g holds, and the config of its volume, is left alone. *)
Untouched(g) ==
  /\ pc'[g] = pc[g] /\ op'[g] = op[g] /\ vol'[g] = vol[g] /\ dev'[g] = dev[g]
  /\ Active(g) => config'[vol[g]] = config[vol[g]]

LEMMA StepUntouched ==
  ASSUME TypeInv, NEW h \in Handlers, Step(h), NEW g \in Handlers, g # h
  PROVE  Untouched(g)
<1>1. Active(g) => vol[g] # vol[h]
  BY StepActive DEF TypeInv, ControlInv, VolumeExclusion
<1>2. Active(g) => vol[g] \in Volumes
  BY DEF TypeInv, ControlInv, ControlTypeOK, ActiveHasVolume, Active
<1> USE DEF TypeInv, ControlInv, ControlTypeOK, NodeDataOK, Untouched, Goto
<1>3. CASE NodeStep(h)
  BY <1>1, <1>2, <1>3
     DEF NodeStep, NewRootFS, ErrorLun, LoadRootFS, WriteConfig, WriteOutput, Fail, Return
<1>4. CASE GetSession(h) \/ CloseSession(h)
  BY <1>4 DEF GetSession, CloseSession, ParseForeign, Panic, Return
<1>5. CASE AttachDisk(h)
  BY <1>5 DEF AttachDisk, Found
<1>6. CASE PreemptLUN(h) \/ Disconnect(h)
  BY <1>6 DEF PreemptLUN, Disconnect, Return
<1> QED BY <1>3, <1>4, <1>5, <1>6 DEF Step

LEMMA RequestUntouched ==
  ASSUME TypeInv, NEW h \in Handlers, Request(h), NEW g \in Handlers, g # h
  PROVE  Untouched(g)
BY DEF Request, NodePublishVolume, NodeUnpublishVolume, AlreadyExists, Enter,
       Goto, Untouched, TypeInv, ControlInv, ControlTypeOK

LEMMA UntouchedKnows ==
  ASSUME NEW g \in Handlers, HandlerKnows(g), Untouched(g)
  PROVE  HandlerKnows(g)'
BY DEF HandlerKnows, Untouched, Active, Idle, Written

LEMMA StepKnows ==
  ASSUME TypeInv, KnowInv, NEW h \in Handlers, Step(h)
  PROVE  HandlerKnows(h)'
<1>1. vol[h] \in Volumes
  BY StepActive
<1> USE <1>1 DEF TypeInv, ControlInv, ControlTypeOK, NodeDataOK, KnowInv,
        HandlerKnows, Goto, Active, Idle, PublishStages, UnpublishStages
<1>2. CASE NewRootFS(h) \/ LoadRootFS(h)
  BY <1>2 DEF NewRootFS, ErrorLun, LoadRootFS, Return
<1>3. CASE WriteConfig(h)
  BY <1>3 DEF WriteConfig, Fail, Return, Written
<1>4. CASE WriteOutput(h)
  BY <1>4 DEF WriteOutput, Fail, Return
<1>5. CASE GetSession(h) \/ CloseSession(h)
  BY <1>5 DEF GetSession, CloseSession, ParseForeign, Panic, Return
<1>6. CASE AttachDisk(h)
  BY <1>6 DEF AttachDisk, Found, AfterAttach
<1>7. CASE PreemptLUN(h)
  BY <1>7 DEF PreemptLUN
<1>8. CASE Disconnect(h)
  BY <1>8 DEF Disconnect, Return
<1> QED BY <1>2, <1>3, <1>4, <1>5, <1>6, <1>7, <1>8 DEF Step, NodeStep

LEMMA RequestKnows ==
  ASSUME TypeInv, KnowInv, NEW h \in Handlers, Request(h)
  PROVE  HandlerKnows(h)'
<1> USE DEF TypeInv, ControlInv, ControlTypeOK, NodeDataOK, KnowInv,
        HandlerKnows, Goto, Active, Idle, PublishStages, UnpublishStages
<1>1. ASSUME NEW v \in Volumes, NodePublishVolume(h, v) PROVE HandlerKnows(h)'
  BY <1>1 DEF NodePublishVolume, Enter
<1>2. ASSUME NEW v \in Volumes, NodeUnpublishVolume(h, v) PROVE HandlerKnows(h)'
  BY <1>2 DEF NodeUnpublishVolume, Enter
<1>3. ASSUME NEW v \in Volumes, AlreadyExists(h, v) PROVE HandlerKnows(h)'
  BY <1>3 DEF AlreadyExists, Written
<1> QED BY <1>1, <1>2, <1>3 DEF Request

LEMMA KnowCorrect == Spec => []KnowInv
<1>1. Init => KnowInv
  BY DEF Init, NodeInit, KnowInv, HandlerKnows, Active, Idle
<1>2. ASSUME TypeInv, KnowInv, [Next]_vars PROVE KnowInv'
  <2>1. ASSUME NEW h \in Handlers, Step(h) PROVE KnowInv'
    BY <1>2, <2>1, StepKnows, StepUntouched, UntouchedKnows DEF KnowInv
  <2>2. ASSUME NEW h \in Handlers, Request(h) PROVE KnowInv'
    BY <1>2, <2>2, RequestKnows, RequestUntouched, UntouchedKnows DEF KnowInv
  <2>3. ASSUME Restart PROVE KnowInv'
    BY <2>3 DEF Restart, NodeRestart, KnowInv, HandlerKnows, Active, Idle
  <2>4. ASSUME UNCHANGED vars PROVE KnowInv'
    BY <1>2, <2>4 DEF vars, nodeVars, KnowInv, HandlerKnows, Active, Idle, Written
  <2> QED BY <1>2, <2>1, <2>2, <2>3, <2>4 DEF Next
<1> QED BY <1>1, <1>2, TypeInvCorrect, PTL DEF Spec

-----------------------------------------------------------------------------
(* Leaks *)

(* The config of a volume does not count while its unpublish is past       *)
(* Disconnect: it is about to be overwritten.                              *)
Forgetting(v) ==
  \E h \in Handlers : vol[h] = v /\ op[h] = "unpublish" /\ pc[h] = "config"

ByConfig(t)  == \E v \in Luns(t) : config[v].dev # NoDevice /\ ~ Forgetting(v)
ByHandler(t) == \E h \in Handlers : vol[h] \in Luns(t) /\ dev[h] # NoDevice

Accounted(t) == ByConfig(t) \/ ByHandler(t) \/ t \in excused

LeakInv == \A t \in sessions : Accounted(t)

(* What a step does to the volumes its handler has not locked. *)
LEMMA StepOthers ==
  ASSUME TypeInv, NEW h \in Handlers, Step(h), NEW v \in Volumes, v # vol[h]
  PROVE  config'[v] = config[v] /\ (Forgetting(v)' <=> Forgetting(v))
<1>1. config'[v] = config[v]
  BY StepActive
     DEF Step, NodeStep, NewRootFS, ErrorLun, LoadRootFS, WriteConfig, WriteOutput,
         GetSession, CloseSession, AttachDisk, PreemptLUN, Disconnect,
         TypeInv, NodeDataOK
<1>2. vol'[h] \in {vol[h], NoVolume} /\ v # NoVolume
  BY StepControl, NodeAssumption
     DEF Advances, Finishes, Return, TypeInv, ControlInv, ControlTypeOK
<1>3. \A g \in Handlers \ {h} : vol'[g] = vol[g] /\ op'[g] = op[g] /\ pc'[g] = pc[g]
  BY StepUntouched DEF Untouched
<1> QED BY <1>1, <1>2, <1>3 DEF Forgetting

(* Only the handler that has locked a volume can be about to forget it. *)
LEMMA ForgettingOwn ==
  ASSUME TypeInv, NEW h \in Handlers, Step(h), NEW v, v = vol[h]
  PROVE  /\ Forgetting(v) <=> op[h] = "unpublish" /\ pc[h] = "config"
         /\ Forgetting(v)' =>
              vol'[h] = v /\ op'[h] = "unpublish" /\ pc'[h] = "config"
<1>1. v \in Volumes /\ v # NoVolume /\ Active(h)
  BY StepActive, NodeAssumption
<1>2. \A g \in Handlers \ {h} : vol[g] # v
  BY <1>1 DEF TypeInv, ControlInv, ActiveHasVolume, VolumeExclusion, Active
<1>3. \A g \in Handlers \ {h} : vol'[g] # v
  BY <1>2, StepUntouched DEF Untouched
<1> QED BY <1>1, <1>2, <1>3 DEF Forgetting

(* Sessions with other targets are left as they are, and accounted for. *)
LEMMA StepSessions ==
  ASSUME TypeInv, NEW h \in Handlers, Step(h),
         NEW t \in Targets, t # TargetOf[vol[h]]
  PROVE  (t \in sessions' <=> t \in sessions) /\ (t \in excused' <=> t \in excused)
BY DEF Step, GetSession, CloseSession, AttachDisk, PreemptLUN, Disconnect,
       DetachDisk, iscsiVars

(* The handler's share in accounting for the target of its volume v. *)
Own(h, v) == dev[h] # NoDevice \/ (config[v].dev # NoDevice /\ ~ Forgetting(v))

LEMMA OthersAccounted ==
  ASSUME TypeInv, NEW h \in Handlers, Step(h), NEW t \in Targets, Accounted(t),
         t \notin excused, TargetOf[vol[h]] = t => ~ Own(h, vol[h])
  PROVE  ByConfig(t)' \/ ByHandler(t)'
<1>1. CASE ByConfig(t)
  <2>1. PICK v \in Luns(t) : config[v].dev # NoDevice /\ ~ Forgetting(v)
    BY <1>1 DEF ByConfig
  <2>2. v \in Volumes /\ v # vol[h]
    BY <2>1 DEF Luns, Own
  <2> QED BY <2>1, <2>2, StepOthers DEF ByConfig, Luns
<1>2. CASE ByHandler(t)
  <2>1. PICK g \in Handlers : vol[g] \in Luns(t) /\ dev[g] # NoDevice
    BY <1>2 DEF ByHandler
  <2>2. g # h
    BY <2>1 DEF Luns, Own
  <2> QED BY <2>1, <2>2, StepUntouched DEF ByHandler, Untouched, Luns
<1> QED BY <1>1, <1>2 DEF Accounted

(* A step that takes away its handler's share logs out, or is excused. *)
LEMMA OwnKept ==
  ASSUME TypeInv, KnowInv, NEW h \in Handlers, Step(h),
         NEW v, v = vol[h], NEW t, t = TargetOf[v],
         t \in sessions', t \notin excused'
  PROVE  \/ vol'[h] = v /\ dev'[h] # NoDevice
         \/ config'[v].dev # NoDevice /\ ~ Forgetting(v)'
         \/ t \in sessions /\ t \notin excused /\ ~ Own(h, v)
<1>1. /\ v \in Volumes /\ t \in Targets /\ Active(h)
      /\ HandlerKnows(h)
      /\ Forgetting(v) <=> op[h] = "unpublish" /\ pc[h] = "config"
      /\ Forgetting(v)' => /\ vol'[h] = v
                           /\ op'[h] = "unpublish" /\ pc'[h] = "config"
  BY StepActive, ForgettingOwn DEF KnowInv
<1> USE <1>1
    DEF TypeInv, ControlInv, ControlTypeOK, NodeDataOK, HandlerKnows, Goto, Own,
        Active, Idle, PublishStages, UnpublishStages
<1>2. CASE (NewRootFS(h) \/ LoadRootFS(h)) /\ UNCHANGED iscsiVars
  BY <1>2 DEF NewRootFS, ErrorLun, LoadRootFS, Return, iscsiVars
<1>3. CASE WriteConfig(h) /\ UNCHANGED iscsiVars
  <2>1. CASE op[h] = "publish"
    <3>1. dev[h] # NoDevice
      BY <1>3, <2>1, NodeAssumption DEF WriteConfig
    <3> QED BY <1>3, <2>1, <3>1 DEF WriteConfig, Fail
  <2>2. CASE op[h] # "publish"
    BY <1>3, <2>2 DEF WriteConfig, iscsiVars
  <2> QED BY <2>1, <2>2
<1>4. CASE WriteOutput(h) /\ UNCHANGED iscsiVars
  BY <1>4 DEF WriteOutput, Fail, Return, Written, iscsiVars
<1>5. CASE GetSession(h)
  BY <1>5 DEF GetSession, ParseForeign, Panic, Return, iscsiVars
<1>6. CASE CloseSession(h)
  BY <1>6 DEF CloseSession, DetachDisk
<1>7. CASE AttachDisk(h)
  BY <1>7, NodeAssumption DEF AttachDisk, Found
<1>8. CASE PreemptLUN(h)
  BY <1>8, NodeAssumption DEF PreemptLUN, DetachDisk, iscsiVars
<1>9. CASE Disconnect(h)
  BY <1>9 DEF Disconnect, DetachDisk, Return, iscsiVars
<1> QED BY <1>2, <1>3, <1>4, <1>5, <1>6, <1>7, <1>8, <1>9 DEF Step, NodeStep

LEMMA StepLeak ==
  ASSUME TypeInv, KnowInv, LeakInv, NEW h \in Handlers, Step(h) PROVE LeakInv'
<1> SUFFICES ASSUME NEW t \in sessions', t \notin excused'
             PROVE  ByConfig(t)' \/ ByHandler(t)'
  BY DEF LeakInv, Accounted
<1>1. t \in Targets
  BY StepData DEF ISCSIDataOK
<1>2. CASE t # TargetOf[vol[h]]
  BY <1>1, <1>2, StepSessions, OthersAccounted DEF LeakInv
<1>3. CASE t = TargetOf[vol[h]]
  <2> DEFINE v == vol[h]
  <2>1. v \in Luns(t)
    BY <1>3, StepActive DEF Luns
  <2>2. CASE vol'[h] = v /\ dev'[h] # NoDevice
    BY <2>1, <2>2 DEF ByHandler, Luns
  <2>3. CASE \E w \in Luns(t) : config'[w].dev # NoDevice /\ ~ Forgetting(w)'
    BY <2>3 DEF ByConfig, Luns
  <2>4. CASE t \in sessions /\ t \notin excused /\ ~ Own(h, v)
    BY <1>1, <2>4, OthersAccounted DEF LeakInv
  <2> QED BY <1>3, <2>1, <2>2, <2>3, <2>4, OwnKept
<1> QED BY <1>2, <1>3

LEMMA RequestLeak ==
  ASSUME TypeInv, KnowInv, LeakInv, NEW h \in Handlers, Request(h),
         UNCHANGED iscsiVars
  PROVE  LeakInv'
<1>1. dev[h] # NoDevice => vol'[h] = vol[h]
  BY DEF KnowInv, HandlerKnows, Request, NodePublishVolume, NodeUnpublishVolume,
         AlreadyExists, Enter, Idle
<1>2. UNCHANGED <<config, dev>>
  BY DEF Request, NodePublishVolume, NodeUnpublishVolume, AlreadyExists
<1>3. ASSUME NEW v, Forgetting(v)' PROVE Forgetting(v)
  BY <1>3
     DEF Forgetting, Request, NodePublishVolume, NodeUnpublishVolume,
         AlreadyExists, Enter, Goto, TypeInv, ControlInv, ControlTypeOK
<1>4. \A g \in Handlers : dev[g] # NoDevice => vol'[g] = vol[g]
  BY <1>1, RequestUntouched DEF Untouched
<1>5. ASSUME NEW t \in sessions PROVE Accounted(t)'
  <2>1. ByConfig(t) => ByConfig(t)'
    BY <1>2, <1>3 DEF ByConfig, Luns
  <2>2. ByHandler(t) => ByHandler(t)'
    BY <1>2, <1>4 DEF ByHandler, Luns
  <2> QED BY <2>1, <2>2 DEF LeakInv, Accounted, iscsiVars
<1> QED BY <1>5 DEF LeakInv, iscsiVars

(* A write that a restart cuts off belongs to a handler with the device in *)
(* hand, or to an unpublish that was forgetting it.                        *)
LEMMA RestartLeak ==
  ASSUME TypeInv, KnowInv, LeakInv, Restart PROVE LeakInv'
<1>1. PICK alive \in SUBSET sessions :
        /\ NodeRestart(UNION {Luns(t) : t \in Targets \ alive})
        /\ sessions' = alive
        /\ excused' = alive \cap (excused \cup HeldTargets)
  BY DEF Restart
<1>2. \A v : ~ Forgetting(v)'
  BY <1>1 DEF NodeRestart, Forgetting
<1>3. ASSUME NEW t \in alive, t \notin excused' PROVE ByConfig(t)'
  <2>1. t \in sessions /\ t \notin excused /\ t \notin HeldTargets
    BY <1>1, <1>3
  <2>2. ~ ByHandler(t)
    BY <2>1 DEF ByHandler, HeldTargets, Luns
  <2>3. PICK v \in Luns(t) : config[v].dev # NoDevice /\ ~ Forgetting(v)
    BY <2>1, <2>2 DEF LeakInv, Accounted, ByConfig
  <2>4. ASSUME NEW h \in Handlers, vol[h] = v PROVE pc[h] # "config"
    <3>1. dev[h] = NoDevice
      BY <2>2, <2>3, <2>4 DEF ByHandler
    <3>2. op[h] # "unpublish" \/ pc[h] # "config"
      BY <2>3, <2>4 DEF Forgetting
    <3> QED BY <3>1, <3>2, NodeAssumption
            DEF KnowInv, HandlerKnows, Active, Idle
  <2>5. config'[v] = config[v]
    BY <1>1, <2>3, <2>4 DEF NodeRestart, TornBy, Writers, Luns
  <2> QED BY <1>2, <2>3, <2>5 DEF ByConfig, Luns
<1> QED BY <1>1, <1>3 DEF LeakInv, Accounted

LEMMA LeakCorrect == Spec => []LeakInv
<1>1. Init => LeakInv
  BY DEF Init, LeakInv
<1>2. ASSUME TypeInv, KnowInv, LeakInv, [Next]_vars PROVE LeakInv'
  <2>1. CASE UNCHANGED vars
    BY <1>2, <2>1 DEF vars, nodeVars, iscsiVars, LeakInv, Accounted, ByConfig,
       ByHandler, Forgetting, Luns
  <2> QED BY <1>2, <2>1, StepLeak, RequestLeak, RestartLeak DEF Next
<1> QED BY <1>1, <1>2, TypeInvCorrect, KnowCorrect, PTL DEF Spec

(* No session outlives all knowledge of it unless a logout or an attach    *)
(* failed, or a restart cut its handler off.  It holds also where volumes  *)
(* are LUNs of one target and log each other out.                          *)
THEOREM NoSilentLeakHolds == Spec => []NoSilentLeak
<1>1. LeakInv => NoSilentLeak
  BY DEF LeakInv, NoSilentLeak, Accounted, ByConfig, ByHandler, Tracked
<1> QED BY <1>1, LeakCorrect, PTL

-----------------------------------------------------------------------------
(* Devices *)

(* The volumes that are alone on their target.  Others may share targets:  *)
(* nothing they do is about these.                                         *)
OwnTarget ==
  {v \in Volumes : \A w \in Volumes : TargetOf[w] = TargetOf[v] => w = v}

(* The only handler of a volume that the caller takes for published is a   *)
(* repeated publish that has not come to close the session, or will not,   *)
(* and what AttachDisk found stays the volume's LUN.                       *)
DeviceMatches(h) ==
  /\ Active(h) /\ view[vol[h]] = "published" =>
       /\ op[h] = "publish"
       /\ \/ pc[h] \in {"new", "allocate", "close"}
          \/ pc[h] = "cleanup" /\ dev[h] = NoDevice
  /\ op[h] = "publish" /\ pc[h] \in {"preempt", "config", "output"}
       => attached[dev[h]] = vol[h]

(* Devices of a target are there only during its session. *)
SessionHasDevices ==
  \A d \in Devices : attached[d] # NoVolume => TargetOf[attached[d]] \in sessions

OnDevice(v) == \E d \in Devices : attached[d] = v /\ config[v] = Written(d)

DeviceInv ==
  /\ \A h \in Handlers : vol[h] \in OwnTarget => DeviceMatches(h)
  /\ SessionHasDevices
  /\ \A v \in OwnTarget : view[v] = "published" => OnDevice(v)

(* A step leaves volumes its handler has not locked on their devices. *)
LeftAlone(v) ==
  /\ \A d \in Devices : attached[d] = v => attached'[d] = v
  /\ config'[v] = config[v]
  /\ view'[v] = view[v]

LEMMA DetachLeavesAlone ==
  ASSUME ISCSIDataOK, NEW t \in Targets, DetachDisk(t),
         NEW v \in Volumes, TargetOf[v] # t
  PROVE  \A d \in Devices : attached[d] = v => attached'[d] = v
BY DEF DetachDisk, RemoveLuns, Luns, ISCSIDataOK

LEMMA AttachLeavesAlone ==
  ASSUME ISCSIDataOK, NEW t \in Targets, AttachLuns(t), NEW v \in Volumes
  PROVE  \A d \in Devices : attached[d] = v => attached'[d] = v
<1>1. PICK f \in Namings(t) :
        attached' = [d \in Devices |-> IF Named(f, d)
                                         THEN CHOOSE w \in Luns(t) : f[w] = d
                                         ELSE attached[d]]
  BY DEF AttachLuns
<1>2. ASSUME NEW d \in Devices, Named(f, d) PROVE attached[d] = NoVolume
  BY <1>2 DEF Named, Namings, FreeDevices
<1> QED BY <1>1, <1>2, NodeAssumption

LEMMA StepLeavesAlone ==
  ASSUME TypeInv, NEW h \in Handlers, Step(h), NEW v \in OwnTarget, v # vol[h]
  PROVE  LeftAlone(v)
<1>1. /\ v \in Volumes /\ vol[h] \in Volumes
      /\ TargetOf[vol[h]] \in Targets /\ TargetOf[v] # TargetOf[vol[h]]
  BY StepActive DEF OwnTarget
<1>2. config'[v] = config[v] /\ view'[v] = view[v]
  BY <1>1
     DEF Step, NodeStep, NewRootFS, ErrorLun, LoadRootFS, WriteConfig, WriteOutput,
         GetSession, CloseSession, AttachDisk, PreemptLUN, Disconnect,
         TypeInv, NodeDataOK
<1>3. \/ UNCHANGED attached
      \/ DetachDisk(TargetOf[vol[h]])
      \/ AttachLuns(TargetOf[vol[h]])
  BY DEF Step, GetSession, CloseSession, AttachDisk, PreemptLUN, Disconnect,
         iscsiVars
<1>4. \A d \in Devices : attached[d] = v => attached'[d] = v
  BY <1>1, <1>3, DetachLeavesAlone, AttachLeavesAlone DEF TypeInv
<1> QED BY <1>2, <1>4 DEF LeftAlone

LEMMA OthersMatch ==
  ASSUME TypeInv, KnowInv, DeviceInv, NEW h \in Handlers, Step(h),
         NEW g \in Handlers, g # h, vol'[g] \in OwnTarget
  PROVE  DeviceMatches(g)'
<1>1. Untouched(g) /\ HandlerKnows(g)
  BY StepUntouched DEF KnowInv
<1>2. vol[g] \in OwnTarget /\ DeviceMatches(g)
  BY <1>1 DEF Untouched, DeviceInv
<1>3. CASE ~ Active(g)
  BY <1>1, <1>2, <1>3 DEF Untouched, DeviceMatches, Active, Idle
<1>4. CASE Active(g)
  <2>1. vol[g] # vol[h]
    BY <1>4, StepActive DEF TypeInv, ControlInv, VolumeExclusion
  <2>2. LeftAlone(vol[g])
    BY <1>2, <2>1, StepLeavesAlone
  <2>3. pc[g] = "preempt" => op[g] = "publish" /\ dev[g] \in Devices
    BY <1>1, <1>4 DEF HandlerKnows, UnpublishStages
  <2>4. op[g] = "publish" /\ pc[g] \in {"preempt", "config", "output"}
          => dev[g] \in Devices
    BY <1>1, <2>3 DEF HandlerKnows
  <2> QED BY <1>1, <1>2, <1>4, <2>2, <2>4
          DEF Untouched, DeviceMatches, LeftAlone, Active, Idle
<1> QED BY <1>3, <1>4

(* The handler's own volume. *)
LEMMA StepMatches ==
  ASSUME TypeInv, KnowInv, DeviceInv, NEW h \in Handlers, Step(h),
         vol'[h] \in OwnTarget
  PROVE  DeviceMatches(h)'
<1>1. vol[h] \in Volumes /\ Active(h) /\ HandlerKnows(h)
  BY StepActive DEF KnowInv
<1>2. vol[h] \in OwnTarget /\ DeviceMatches(h)
  <2>1. vol'[h] = vol[h]
    BY StepControl, NodeAssumption
       DEF Advances, Finishes, Return, OwnTarget, TypeInv, ControlInv, ControlTypeOK
  <2> QED BY <2>1 DEF DeviceInv
<1>3. view[vol[h]] = "published" => TargetOf[vol[h]] \in sessions
  BY <1>1, <1>2, NodeAssumption DEF DeviceInv, OnDevice, SessionHasDevices
<1> USE <1>1, <1>2
    DEF TypeInv, ControlInv, ControlTypeOK, NodeDataOK, ISCSIDataOK, Goto,
        DeviceMatches, Active, Idle
<1>4. CASE (NewRootFS(h) \/ LoadRootFS(h)) /\ UNCHANGED iscsiVars
  BY <1>4 DEF NewRootFS, ErrorLun, LoadRootFS, Return, iscsiVars, HandlerKnows,
              UnpublishStages
<1>5. CASE (WriteConfig(h) \/ WriteOutput(h)) /\ UNCHANGED iscsiVars
  BY <1>5 DEF WriteConfig, WriteOutput, Fail, Return, iscsiVars
<1>6. CASE GetSession(h)
  BY <1>3, <1>6 DEF GetSession, ParseForeign, Panic, Return, HandlerKnows, iscsiVars
<1>7. CASE CloseSession(h)
  BY <1>7 DEF CloseSession
<1>8. CASE AttachDisk(h)
  BY <1>8 DEF AttachDisk, Found
<1>9. CASE PreemptLUN(h)
  BY <1>9 DEF PreemptLUN, iscsiVars, HandlerKnows, UnpublishStages
<1>10. CASE Disconnect(h)
  BY <1>10 DEF Disconnect, Return, HandlerKnows, PublishStages
<1> QED BY <1>4, <1>5, <1>6, <1>7, <1>8, <1>9, <1>10 DEF Step, NodeStep

LEMMA AttachHasDevices ==
  ASSUME ISCSIDataOK, NEW t \in Targets, AttachLuns(t), NEW d \in Devices
  PROVE  attached'[d] # attached[d] => TargetOf[attached'[d]] = t
<1>1. PICK f \in Namings(t) :
        attached' = [e \in Devices |-> IF Named(f, e)
                                         THEN CHOOSE v \in Luns(t) : f[v] = e
                                         ELSE attached[e]]
  BY DEF AttachLuns
<1>2. ASSUME Named(f, d) PROVE attached'[d] \in Luns(t)
  <2>1. \E v \in Luns(t) : f[v] = d
    BY <1>2 DEF Named, Namings
  <2> QED BY <1>1, <1>2, <2>1
<1> QED BY <1>1, <1>2 DEF Luns, ISCSIDataOK

LEMMA DetachHasDevices ==
  ASSUME ISCSIDataOK, SessionHasDevices, NEW t \in Targets, DetachDisk(t)
  PROVE  SessionHasDevices'
BY DEF DetachDisk, RemoveLuns, Luns, SessionHasDevices, ISCSIDataOK

LEMMA StepHasDevices ==
  ASSUME TypeInv, SessionHasDevices, NEW h \in Handlers, Step(h)
  PROVE  SessionHasDevices'
<1>1. TargetOf[vol[h]] \in Targets
  BY StepActive
<1>2. CASE UNCHANGED <<sessions, attached>>
  BY <1>2 DEF SessionHasDevices
<1>3. CASE DetachDisk(TargetOf[vol[h]])
  BY <1>1, <1>3, DetachHasDevices DEF TypeInv
<1>4. CASE AttachDisk(h)
  <2>1. sessions \subseteq sessions'
    BY <1>4 DEF AttachDisk
  <2>2. \/ UNCHANGED attached
        \/ AttachLuns(TargetOf[vol[h]]) /\ TargetOf[vol[h]] \in sessions'
    BY <1>4 DEF AttachDisk
  <2> QED BY <1>1, <2>1, <2>2, AttachHasDevices DEF SessionHasDevices, TypeInv
<1>5. CASE NodeStep(h) /\ UNCHANGED iscsiVars
  BY <1>2, <1>5 DEF iscsiVars
<1>6. CASE GetSession(h) \/ CloseSession(h) \/ PreemptLUN(h) \/ Disconnect(h)
  BY <1>2, <1>3, <1>6 DEF GetSession, CloseSession, PreemptLUN, Disconnect, iscsiVars
<1> QED BY <1>4, <1>5, <1>6 DEF Step

(* A step that leaves the caller taking the handler's volume for published *)
(* either leaves its device and files alone, or is the publish's answer.   *)
LEMMA StepPublished ==
  ASSUME TypeInv, KnowInv, DeviceInv, NEW h \in Handlers, Step(h),
         NEW v \in OwnTarget, v = vol[h], view'[v] = "published"
  PROVE  \/ view[v] = "published" /\ UNCHANGED <<config, output, attached>>
         \/ /\ op[h] = "publish" /\ dev[h] \in Devices
            /\ attached'[dev[h]] = v
            /\ config'[v] = Written(dev[h])
            /\ output'[ClaimOf[v]] = Written(dev[h])
<1>1. /\ v \in Volumes /\ ClaimOf[v] \in Claims /\ Active(h) /\ HandlerKnows(h)
      /\ DeviceMatches(h)
  BY StepActive, NodeAssumption DEF KnowInv, DeviceInv
<1>2. CASE view[v] = "published"
  <2>1. \/ pc[h] \in {"new", "allocate", "close"}
        \/ pc[h] = "cleanup" /\ dev[h] = NoDevice
    BY <1>1, <1>2 DEF DeviceMatches
  <2>2. ~ CloseSession(h)
    BY <1>1 DEF CloseSession, TypeInv, NodeDataOK
  <2>3. UNCHANGED <<config, output, attached>>
    BY <2>1, <2>2
       DEF Step, NodeStep, NewRootFS, ErrorLun, LoadRootFS, WriteConfig, WriteOutput,
           GetSession, AttachDisk, PreemptLUN, Disconnect, iscsiVars
  <2> QED BY <1>2, <2>3
<1>3. CASE view[v] # "published"
  <2>1. WriteOutput(h) /\ UNCHANGED iscsiVars
    BY <1>1, <1>3
       DEF Step, NodeStep, NewRootFS, ErrorLun, LoadRootFS, WriteConfig, GetSession,
           CloseSession, AttachDisk, PreemptLUN, Disconnect, TypeInv, NodeDataOK
  <2>2. op[h] = "publish" /\ output'[ClaimOf[v]] = Written(dev[h])
    BY <1>1, <1>3, <2>1 DEF WriteOutput, TypeInv, NodeDataOK
  <2>3. config'[v] = Written(dev[h]) /\ dev[h] \in Devices
    BY <1>1, <2>1, <2>2 DEF WriteOutput, HandlerKnows
  <2>4. attached'[dev[h]] = v
    BY <1>1, <2>1, <2>2 DEF WriteOutput, DeviceMatches, iscsiVars
  <2> QED BY <2>2, <2>3, <2>4
<1> QED BY <1>2, <1>3

LEMMA StepDevices ==
  ASSUME TypeInv, KnowInv, DeviceInv, NEW h \in Handlers, Step(h)
  PROVE  DeviceInv'
<1>1. \A g \in Handlers : vol'[g] \in OwnTarget => DeviceMatches(g)'
  BY OthersMatch, StepMatches
<1>2. SessionHasDevices'
  BY StepHasDevices DEF DeviceInv
<1>3. ASSUME NEW v \in OwnTarget, view'[v] = "published" PROVE OnDevice(v)'
  <2>0. view[v] = "published" => OnDevice(v)
    BY DEF DeviceInv
  <2>1. CASE v = vol[h]
    <3>1. \/ view[v] = "published" /\ UNCHANGED <<config, attached>>
          \/ /\ dev[h] \in Devices
             /\ attached'[dev[h]] = v
             /\ config'[v] = Written(dev[h])
      BY <1>3, <2>1, StepPublished
    <3> QED BY <2>0, <3>1 DEF OnDevice, Written
  <2>2. CASE v # vol[h]
    <3>1. LeftAlone(v)
      BY <2>2, StepLeavesAlone
    <3> QED BY <1>3, <2>0, <3>1 DEF OnDevice, LeftAlone, Written
  <2> QED BY <2>1, <2>2
<1> QED BY <1>1, <1>2, <1>3 DEF DeviceInv

LEMMA RequestDevices ==
  ASSUME TypeInv, DeviceInv, NEW h \in Handlers, Request(h), UNCHANGED iscsiVars
  PROVE  DeviceInv'
<1>1. \A v \in Volumes : view'[v] = "published" => view[v] = "published"
  BY DEF Request, NodePublishVolume, NodeUnpublishVolume, AlreadyExists,
         TypeInv, NodeDataOK
<1>2. ASSUME NEW g \in Handlers, vol'[g] \in OwnTarget PROVE DeviceMatches(g)'
  <2> USE <1>2 DEF TypeInv, ControlInv, ControlTypeOK, NodeDataOK, Goto, DeviceInv,
              DeviceMatches, Active, Idle, iscsiVars
  <2>1. CASE \E v \in Volumes : AlreadyExists(h, v)
    BY <2>1 DEF AlreadyExists
  <2>2. ASSUME NEW v \in Volumes, NodePublishVolume(h, v), g = h
        PROVE  DeviceMatches(g)'
    BY <2>2 DEF NodePublishVolume, Enter
  <2>3. ASSUME NEW v \in Volumes, NodeUnpublishVolume(h, v), g = h
        PROVE  DeviceMatches(g)'
    BY <2>3 DEF NodeUnpublishVolume, Enter
  <2>4. CASE g # h
    <3>1. Untouched(g)
      BY <2>4, RequestUntouched
    <3>2. vol[g] \in Volumes
      BY <3>1 DEF Untouched, OwnTarget
    <3>3. UNCHANGED attached
      OBVIOUS
    <3> QED BY <1>1, <3>1, <3>2, <3>3 DEF Untouched
  <2> QED BY <2>1, <2>2, <2>3, <2>4 DEF Request
<1>3. UNCHANGED <<config, attached, sessions>>
  BY DEF Request, NodePublishVolume, NodeUnpublishVolume, AlreadyExists, iscsiVars
<1>4. ASSUME NEW v \in OwnTarget, view'[v] = "published" PROVE OnDevice(v)'
  BY <1>1, <1>3, <1>4 DEF DeviceInv, OnDevice, OwnTarget, Written
<1> QED BY <1>2, <1>3, <1>4 DEF DeviceInv, SessionHasDevices

(* No write to the files of a published volume is there to be cut off. *)
LEMMA RestartPublished ==
  ASSUME TypeInv, DeviceInv, Restart, NEW v \in OwnTarget, view'[v] = "published"
  PROVE  /\ view[v] = "published"
         /\ config'[v] = config[v]
         /\ \A d \in Devices : attached[d] = v => attached'[d] = v
         /\ \A h \in Handlers : vol[h] = v => pc[h] \notin {"config", "output"}
<1> USE DEF OwnTarget
<1>1. PICK alive \in SUBSET sessions :
        /\ NodeRestart(UNION {Luns(t) : t \in Targets \ alive})
        /\ RemoveLuns(Targets \ alive)
  BY DEF Restart
<1>2. view[v] = "published" /\ v \notin UNION {Luns(t) : t \in Targets \ alive}
  BY <1>1 DEF NodeRestart
<1>3. ASSUME NEW h \in Handlers, vol[h] = v PROVE pc[h] \notin {"config", "output"}
  BY <1>2, <1>3 DEF DeviceInv, DeviceMatches, Active, Idle
<1>4. config'[v] = config[v]
  BY <1>1, <1>3 DEF NodeRestart, TornBy, Writers
<1>5. \A d \in Devices : attached[d] = v => attached'[d] = v
  BY <1>1, <1>2 DEF RemoveLuns
<1> QED BY <1>2, <1>3, <1>4, <1>5

LEMMA RestartDevices ==
  ASSUME TypeInv, DeviceInv, Restart PROVE DeviceInv'
<1>1. \A h \in Handlers : DeviceMatches(h)'
  BY DEF Restart, NodeRestart, DeviceMatches, Active, Idle
<1>2. ASSUME NEW v \in OwnTarget, view'[v] = "published" PROVE OnDevice(v)'
  BY <1>2, RestartPublished DEF DeviceInv, OnDevice, Written
<1>3. SessionHasDevices'
  BY DEF Restart, RemoveLuns, Luns, DeviceInv, SessionHasDevices, TypeInv, ISCSIDataOK
<1> QED BY <1>1, <1>2, <1>3 DEF DeviceInv

LEMMA DeviceCorrect == Spec => []DeviceInv
<1>1. Init => DeviceInv
  BY DEF Init, NodeInit, DeviceInv, DeviceMatches, SessionHasDevices, OwnTarget,
         Active, Idle
<1>2. ASSUME TypeInv, KnowInv, DeviceInv, [Next]_vars PROVE DeviceInv'
  <2>1. CASE UNCHANGED vars
    BY <1>2, <2>1 DEF vars, nodeVars, iscsiVars, DeviceInv, DeviceMatches,
       SessionHasDevices, Active, Idle, OnDevice, Written
  <2> QED BY <1>2, <2>1, StepDevices, RequestDevices, RestartDevices DEF Next
<1> QED BY <1>1, <1>2, TypeInvCorrect, KnowCorrect, PTL DEF Spec

-----------------------------------------------------------------------------
(* Serving *)

(* The volumes that are alone in using their claim, and its output file. *)
OwnClaim ==
  {v \in Volumes : \A w \in Volumes : ClaimOf[w] = ClaimOf[v] => w = v}

(* Both copies of the device's name are one. *)
OutputInv ==
  \A v \in OwnTarget \cap OwnClaim :
    view[v] = "published" => output[ClaimOf[v]] = config[v]

LEMMA StepOutput ==
  ASSUME TypeInv, KnowInv, DeviceInv, OutputInv, NEW h \in Handlers, Step(h)
  PROVE  OutputInv'
<1>1. SUFFICES ASSUME NEW v \in OwnTarget \cap OwnClaim, view'[v] = "published"
               PROVE  output'[ClaimOf[v]] = config'[v]
  BY DEF OutputInv
<1>2. CASE v = vol[h]
  BY <1>1, <1>2, StepPublished DEF OutputInv
<1>3. CASE v # vol[h]
  <2>1. /\ vol[h] \in Volumes /\ v \in Volumes
        /\ ClaimOf[v] \in Claims /\ ClaimOf[v] # ClaimOf[vol[h]]
    BY <1>3, StepActive, NodeAssumption DEF OwnClaim
  <2>2. output'[ClaimOf[v]] = output[ClaimOf[v]]
    BY <2>1
       DEF Step, NodeStep, NewRootFS, ErrorLun, LoadRootFS, WriteConfig, WriteOutput,
           GetSession, CloseSession, AttachDisk, PreemptLUN, Disconnect,
           TypeInv, NodeDataOK
  <2>3. LeftAlone(v)
    BY <1>3, StepLeavesAlone
  <2> QED BY <1>1, <2>2, <2>3 DEF OutputInv, LeftAlone
<1> QED BY <1>2, <1>3

LEMMA RestartOutput ==
  ASSUME TypeInv, DeviceInv, OutputInv, Restart PROVE OutputInv'
<1>1. SUFFICES ASSUME NEW v \in OwnTarget \cap OwnClaim, view'[v] = "published"
               PROVE  output'[ClaimOf[v]] = config'[v]
  BY DEF OutputInv
<1>2. output'[ClaimOf[v]] = output[ClaimOf[v]]
  <2>1. PICK lost : NodeRestart(lost)
    BY DEF Restart
  <2>2. \A h \in Handlers : vol[h] = v => pc[h] # "output"
    BY <1>1, RestartPublished
  <2>3. v \in Volumes /\ \A w \in Volumes : ClaimOf[w] = ClaimOf[v] => w = v
    BY DEF OwnClaim
  <2>4. ClaimOf[v] \in Claims
    BY <2>3, NodeAssumption
  <2> QED BY <2>1, <2>2, <2>3, <2>4 DEF NodeRestart, TornBy, Writers
<1> QED BY <1>1, <1>2, RestartPublished DEF OutputInv

(* A volume with a claim and a target of its own, once its publish         *)
(* returned OK, stays on the device that its config and output file name,  *)
(* until an unpublish begins, a repeated publish closes the session or the *)
(* node goes down: failing reads, writes, logins, preempts and logouts,    *)
(* restarts of the driver and other volumes, among them volumes that share *)
(* targets or claims, do not matter.                                       *)
THEOREM OwnTargetServed ==
  Spec => [](\A v \in OwnTarget \cap OwnClaim : view[v] = "published" => Served(v))
<1>1. Init => OutputInv
  BY DEF Init, NodeInit, OutputInv, OwnTarget
<1>2. ASSUME TypeInv, KnowInv, DeviceInv, OutputInv, [Next]_vars PROVE OutputInv'
  <2>1. ASSUME NEW h \in Handlers, Request(h) PROVE OutputInv'
    <3>1. \A v \in Volumes : view'[v] = "published" => view[v] = "published"
      BY <1>2, <2>1
         DEF Request, NodePublishVolume, NodeUnpublishVolume, AlreadyExists,
             TypeInv, NodeDataOK
    <3>2. UNCHANGED <<config, output>>
      BY <2>1 DEF Request, NodePublishVolume, NodeUnpublishVolume, AlreadyExists
    <3> QED BY <1>2, <3>1, <3>2 DEF OutputInv, OwnTarget
  <2>2. CASE UNCHANGED vars
    BY <1>2, <2>2 DEF vars, nodeVars, OutputInv
  <2> QED BY <1>2, <2>1, <2>2, StepOutput, RestartOutput DEF Next
<1>3. DeviceInv /\ OutputInv =>
        \A v \in OwnTarget \cap OwnClaim : view[v] = "published" => Served(v)
  BY DEF DeviceInv, OutputInv, OnDevice, Served, Written
<1> QED
  BY <1>1, <1>2, <1>3, TypeInvCorrect, KnowCorrect, DeviceCorrect, PTL DEF Spec

ClaimsDistinct  == \A v, w \in Volumes : ClaimOf[v] = ClaimOf[w] => v = w
TargetsDistinct == \A v, w \in Volumes : TargetOf[v] = TargetOf[w] => v = w

(* Where every volume has a claim and a target of its own, that is all of  *)
(* them: every published volume is served.                                 *)
THEOREM PublishedServedHolds ==
  ASSUME ClaimsDistinct, TargetsDistinct
  PROVE  Spec => []PublishedServed
<1>1. OwnTarget \cap OwnClaim = Volumes
  BY DEF ClaimsDistinct, TargetsDistinct, OwnTarget, OwnClaim
<1>2. (\A v \in OwnTarget \cap OwnClaim : view[v] = "published" => Served(v))
        => PublishedServed
  BY <1>1 DEF PublishedServed
<1> QED BY <1>2, OwnTargetServed, PTL

-----------------------------------------------------------------------------
(* What the caller was told: a volume whose publish is under way is not    *)
(* unpublished, an unpublished one has no device in its config, and a disk *)
(* in a publish's hand is not one that a logout failed to remove.          *)
PublishIsTold ==
  \A h \in Handlers :
    Active(h) /\ op[h] = "publish" => view[vol[h]] # "unpublished"

UnpublishedForgotten ==
  \A v \in Volumes : view[v] = "unpublished" => config[v].dev = NoDevice

HeldNotExcused ==
  \A h \in Handlers :
    vol[h] \in OwnTarget =>
      (op[h] = "publish" /\ pc[h] \in {"preempt", "config", "output"}
         => TargetOf[vol[h]] \notin excused)

ToldInv == PublishIsTold /\ UnpublishedForgotten /\ HeldNotExcused

LEMMA StepView ==
  ASSUME TypeInv, NEW h \in Handlers, Step(h), NEW v \in Volumes, v # vol[h]
  PROVE  view'[v] = view[v] /\ config'[v] = config[v]
BY StepActive
   DEF Step, NodeStep, NewRootFS, ErrorLun, LoadRootFS, WriteConfig, WriteOutput, GetSession,
       CloseSession, AttachDisk, PreemptLUN, Disconnect, TypeInv, NodeDataOK

(* The handler's own volume: its view changes when a session is closed and *)
(* with the answer.                                                        *)
LEMMA StepTold ==
  ASSUME TypeInv, KnowInv, ToldInv, NEW h \in Handlers, Step(h), NEW v, v = vol[h]
  PROVE  /\ Active(h)' /\ op'[h] = "publish" => view'[vol'[h]] # "unpublished"
         /\ view'[v] = "unpublished" => config'[v].dev = NoDevice
<1>1. v \in Volumes /\ Active(h) /\ HandlerKnows(h)
  BY StepActive DEF KnowInv
<1>2. /\ op[h] = "publish" => view[v] # "unpublished"
      /\ view[v] = "unpublished" => config[v].dev = NoDevice
  BY <1>1 DEF ToldInv, PublishIsTold, UnpublishedForgotten, HeldNotExcused
<1>3. Active(h)' => vol'[h] = v /\ op'[h] = op[h]
  BY StepControl DEF Advances, Finishes, Return, Goto, Active, Idle, TypeInv,
                     ControlInv, ControlTypeOK
<1> USE DEF TypeInv, ControlInv, ControlTypeOK, NodeDataOK
<1>4. CASE UNCHANGED <<config, view>>
  BY <1>1, <1>2, <1>3, <1>4
<1>5. CASE CloseSession(h)
  BY <1>1, <1>3, <1>5 DEF CloseSession
<1>6. CASE WriteConfig(h)
  <2>1. op[h] # "publish" => config'[v].dev = NoDevice \/ config'[v] = config[v]
    BY <1>1, <1>6 DEF WriteConfig, WriteFails, HandlerKnows, Written, Torn
  <2> QED BY <1>1, <1>2, <1>3, <1>6, <2>1 DEF WriteConfig
<1>7. CASE WriteOutput(h)
  <2>1. op[h] # "publish" => config[v].dev = NoDevice
    BY <1>1, <1>7 DEF WriteOutput, HandlerKnows, Written
  <2>2. \/ view' = view
        \/ op[h] = "publish" /\ view'[v] # "unpublished" /\ ~ Active(h)'
        \/ op[h] # "publish" /\ ~ Active(h)'
    BY <1>1, <1>7 DEF WriteOutput, Return, Goto, Active, Idle
  <2> QED BY <1>1, <1>2, <1>3, <1>7, <2>1, <2>2 DEF WriteOutput
<1> QED
  BY <1>4, <1>5, <1>6, <1>7
     DEF Step, NodeStep, NewRootFS, ErrorLun, LoadRootFS, GetSession, AttachDisk, PreemptLUN,
         Disconnect

(* AttachDisk clears the target of what an earlier logout left behind.     *)
LEMMA StepOwnTarget ==
  ASSUME TypeInv, KnowInv, ToldInv, NEW h \in Handlers, Step(h),
         vol[h] \in OwnTarget, op'[h] = "publish",
         pc'[h] \in {"preempt", "config", "output"}
  PROVE  TargetOf[vol[h]] \notin excused'
<1>1. HandlerKnows(h)
  BY DEF KnowInv
<1> USE DEF TypeInv, ControlInv, ControlTypeOK, Goto
<1>2. CASE NodeStep(h) /\ UNCHANGED iscsiVars
  BY <1>1, <1>2
     DEF NodeStep, NewRootFS, ErrorLun, LoadRootFS, WriteConfig, WriteOutput, Fail, Return,
         iscsiVars, ToldInv, HeldNotExcused
<1>3. CASE AttachDisk(h)
  BY <1>3 DEF AttachDisk
<1>4. CASE PreemptLUN(h)
  BY <1>1, <1>4 DEF PreemptLUN, ToldInv, HeldNotExcused, iscsiVars
<1>5. CASE Disconnect(h)
  BY <1>1, <1>5 DEF Disconnect, Return, HandlerKnows, PublishStages, Active, Idle
<1> QED BY <1>2, <1>3, <1>4, <1>5 DEF Step, GetSession, CloseSession, ParseForeign,
                                      Panic, Return

LEMMA ToldNextStep ==
  ASSUME TypeInv, KnowInv, ToldInv, NEW h \in Handlers, Step(h) PROVE ToldInv'
<1> USE DEF ToldInv
<1>1. PublishIsTold'
  <2> SUFFICES ASSUME NEW g \in Handlers, Active(g)', op'[g] = "publish"
               PROVE  view'[vol'[g]] # "unpublished"
    BY DEF PublishIsTold
  <2>1. CASE g = h
    BY <2>1, StepTold
  <2>2. CASE g # h
    <3>1. Untouched(g) /\ Active(g)
      BY <2>2, StepUntouched DEF Untouched, Active, Idle
    <3>2. vol[g] \in Volumes /\ vol[g] # vol[h]
      BY <2>2, <3>1, StepActive
         DEF TypeInv, ControlInv, ControlTypeOK, ActiveHasVolume, Active,
             VolumeExclusion
    <3> QED BY <3>1, <3>2, StepView DEF PublishIsTold, Untouched
  <2> QED BY <2>1, <2>2
<1>2. UnpublishedForgotten'
  <2> SUFFICES ASSUME NEW v \in Volumes, view'[v] = "unpublished"
               PROVE  config'[v].dev = NoDevice
    BY DEF UnpublishedForgotten
  <2> QED BY StepTold, StepView DEF UnpublishedForgotten
<1>3. HeldNotExcused'
  <2> SUFFICES ASSUME NEW g \in Handlers, vol'[g] \in OwnTarget, op'[g] = "publish",
                      pc'[g] \in {"preempt", "config", "output"}
               PROVE  TargetOf[vol'[g]] \notin excused'
    BY DEF HeldNotExcused
  <2>1. CASE g = h
    <3>1. vol'[h] = vol[h]
      BY <2>1, StepControl, NodeAssumption
         DEF Advances, Finishes, Return, OwnTarget, TypeInv, ControlInv,
             ControlTypeOK
    <3> QED BY <2>1, <3>1, StepOwnTarget
  <2>2. CASE g # h
    <3>1. Untouched(g) /\ Active(g) /\ vol[g] \in OwnTarget
      BY <2>2, StepUntouched DEF Untouched, Active, Idle
    <3>2. vol[g] # vol[h] /\ vol[h] \in Volumes
      BY <2>2, <3>1, StepActive DEF TypeInv, ControlInv, VolumeExclusion
    <3>3. TargetOf[vol[g]] \in Targets /\ TargetOf[vol[g]] # TargetOf[vol[h]]
      BY <3>1, <3>2, ISCSIAssumption DEF OwnTarget
    <3>4. TargetOf[vol[g]] \notin excused
      BY <3>1 DEF HeldNotExcused, Untouched
    <3> QED BY <3>1, <3>3, <3>4, StepSessions DEF Untouched
  <2> QED BY <2>1, <2>2
<1> QED BY <1>1, <1>2, <1>3

LEMMA RequestTold ==
  ASSUME TypeInv, ToldInv, NEW h \in Handlers, Request(h), UNCHANGED iscsiVars
  PROVE  ToldInv'
<1> USE DEF TypeInv, ControlInv, ControlTypeOK, NodeDataOK, Goto, iscsiVars, ToldInv
<1>1. CASE \E v \in Volumes : AlreadyExists(h, v)
  BY <1>1
     DEF AlreadyExists, PublishIsTold, UnpublishedForgotten, HeldNotExcused, Active,
         Idle
<1>2. ASSUME NEW v \in Volumes, NodePublishVolume(h, v) \/ NodeUnpublishVolume(h, v)
      PROVE  ToldInv'
  <2>1. /\ vol' = [vol EXCEPT ![h] = v]
        /\ \A w \in Volumes : view'[w] = "unpublished" => view[w] = "unpublished"
        /\ UNCHANGED config
    BY <1>2 DEF NodePublishVolume, NodeUnpublishVolume, Enter
  <2>2. \A g \in Handlers \ {h} : Untouched(g)
    BY RequestUntouched
  <2>3. PublishIsTold'
    <3> SUFFICES ASSUME NEW g \in Handlers, Active(g)', op'[g] = "publish"
                 PROVE  view'[vol'[g]] # "unpublished"
      BY DEF PublishIsTold
    <3>1. CASE g = h
      BY <1>2, <2>1, <3>1 DEF NodePublishVolume, NodeUnpublishVolume, Enter
    <3>2. CASE g # h
      <4>1. Untouched(g) /\ Active(g) /\ vol[g] \in Volumes
        BY <2>2, <3>2 DEF Untouched, Active, Idle, ActiveHasVolume
      <4> QED BY <2>1, <4>1 DEF Untouched, PublishIsTold
    <3> QED BY <3>1, <3>2
  <2>4. UnpublishedForgotten'
    BY <2>1 DEF UnpublishedForgotten
  <2>5. HeldNotExcused'
    <3> SUFFICES ASSUME NEW g \in Handlers, vol'[g] \in OwnTarget, op'[g] = "publish",
                        pc'[g] \in {"preempt", "config", "output"}
                 PROVE  TargetOf[vol'[g]] \notin excused'
      BY DEF HeldNotExcused
    <3>1. g # h
      BY <1>2 DEF NodePublishVolume, NodeUnpublishVolume, Enter
    <3> QED BY <2>2, <3>1 DEF Untouched, HeldNotExcused
  <2> QED BY <2>3, <2>4, <2>5
<1> QED BY <1>1, <1>2 DEF Request

LEMMA ToldCorrect == Spec => []ToldInv
<1> USE DEF ToldInv
<1>1. Init => ToldInv
  BY DEF Init, NodeInit, PublishIsTold, UnpublishedForgotten, HeldNotExcused, Active,
         Idle, Absent
<1>2. ASSUME TypeInv, KnowInv, ToldInv, [Next]_vars PROVE ToldInv'
  <2>1. ASSUME Restart PROVE ToldInv'
    <3>1. \A h \in Handlers : pc'[h] = "idle" /\ op'[h] = "none"
      BY <2>1 DEF Restart, NodeRestart
    <3>2. ASSUME NEW v \in Volumes, view'[v] = "unpublished"
          PROVE  config'[v].dev = NoDevice
      <4>1. view[v] = "unpublished" /\ config'[v] \in {config[v], Torn}
        BY <2>1, <3>2 DEF Restart, NodeRestart
      <4> QED BY <1>2, <4>1 DEF UnpublishedForgotten, Torn
    <3> QED BY <3>1, <3>2 DEF PublishIsTold, UnpublishedForgotten, HeldNotExcused
  <2>2. CASE UNCHANGED vars
    BY <1>2, <2>2
       DEF vars, nodeVars, iscsiVars, PublishIsTold, UnpublishedForgotten,
           HeldNotExcused, Active, Idle
  <2> QED BY <1>2, <2>1, <2>2, ToldNextStep, RequestTold DEF Next
<1> QED BY <1>1, <1>2, TypeInvCorrect, KnowCorrect, PTL DEF Spec

-----------------------------------------------------------------------------
(* When NodeUnpublishVolume has returned OK, and until the next publish,   *)
(* the node has no session with the volume's target, so that another node  *)
(* can have the disk, unless a logout, an attach or a restart cost it the  *)
(* track of one.  Volumes that share a target share its sessions, too, and *)
(* are left out.                                                           *)
THEOREM UnpublishedReleased ==
  Spec => [](\A v \in OwnTarget :
               view[v] = "unpublished" /\ TargetOf[v] \in sessions
                 => TargetOf[v] \in excused)
<1> DEFINE Released == \A v \in OwnTarget :
                         view[v] = "unpublished" /\ TargetOf[v] \in sessions
                           => TargetOf[v] \in excused
<1>1. ASSUME TypeInv, KnowInv, NoSilentLeak, ToldInv PROVE Released
  <2> SUFFICES ASSUME NEW v \in OwnTarget, view[v] = "unpublished",
                      TargetOf[v] \in sessions, TargetOf[v] \notin excused
               PROVE  FALSE
    OBVIOUS
  <2>1. Luns(TargetOf[v]) = {v} /\ config[v].dev = NoDevice
    BY <1>1 DEF Luns, OwnTarget, ToldInv, UnpublishedForgotten
  <2>2. PICK h \in Handlers : vol[h] = v /\ dev[h] # NoDevice
    BY <1>1, <2>1 DEF NoSilentLeak, Tracked
  <2>3. Active(h) /\ HandlerKnows(h)
    BY <1>1, <2>2, NodeAssumption
       DEF TypeInv, ControlInv, ActiveHasVolume, Active, KnowInv, OwnTarget
  <2>4. op[h] = "unpublish"
    BY <1>1, <2>2, <2>3 DEF ToldInv, PublishIsTold, HandlerKnows
  <2>5. pc[h] = "disconnect"
    BY <2>2, <2>3, <2>4 DEF HandlerKnows, UnpublishStages
  <2> QED BY <2>1, <2>2, <2>3, <2>5 DEF HandlerKnows
<1>2. Spec => []Released
  <2> HIDE DEF Released
  <2> QED BY <1>1, TypeInvCorrect, KnowCorrect, NoSilentLeakHolds, ToldCorrect, PTL
<1>3. QED BY <1>2

(* With commands that succeed every disk of a target the node is logged in *)
(* to has its device, so AttachDisk finds the one it looks for.            *)
Complete ==
  /\ excused = {}
  /\ \A v \in Volumes : TargetOf[v] \in sessions => \E d \in Devices : attached[d] = v

LEMMA AttachCompletes ==
  ASSUME ISCSIDataOK, NEW t \in Targets, AttachLuns(t), NEW v \in Luns(t)
  PROVE  \E d \in Devices : attached'[d] = v
<1>1. PICK f \in Namings(t) :
        attached' = [d \in Devices |-> IF Named(f, d)
                                         THEN CHOOSE w \in Luns(t) : f[w] = d
                                         ELSE attached[d]]
  BY DEF AttachLuns
<1>2. f[v] \in Devices /\ Named(f, f[v])
  BY DEF Namings, FreeDevices, Named
<1>3. (CHOOSE w \in Luns(t) : f[w] = f[v]) = v
  <2>1. \A w \in Luns(t) : f[w] = f[v] => w = v
    BY DEF Namings
  <2> QED BY <2>1
<1>4. attached'[f[v]] = v
  BY <1>1, <1>2, <1>3
<1> QED BY <1>2, <1>4

LEMMA DetachCompletes ==
  ASSUME ISCSIDataOK, Complete, "detach" \notin Faults, NEW t \in Targets, DetachDisk(t)
  PROVE  Complete'
BY DEF Complete, DetachDisk, RemoveLuns, Luns, ISCSIDataOK

LEMMA StepCompletes ==
  ASSUME TypeInv, Complete, {"exec", "detach"} \cap Faults = {},
         NEW h \in Handlers, Step(h)
  PROVE  Complete'
<1>1. vol[h] \in Volumes /\ TargetOf[vol[h]] \in Targets /\ ISCSIDataOK
  BY StepActive DEF TypeInv
<1>2. CASE UNCHANGED iscsiVars
  BY <1>2 DEF Complete, iscsiVars
<1>3. CASE DetachDisk(TargetOf[vol[h]])
  BY <1>1, <1>3, DetachCompletes
<1>4. CASE AttachDisk(h)
  <2> DEFINE t == TargetOf[vol[h]]
  <2>1. /\ sessions' = sessions \cup {t}
        /\ IF t \in sessions THEN UNCHANGED attached ELSE AttachLuns(t)
        /\ excused' = excused \ {t}
    BY <1>1, <1>4 DEF AttachDisk, Complete
  <2>2. CASE t \in sessions
    BY <2>1, <2>2 DEF Complete
  <2>3. CASE t \notin sessions
    <3>1. ASSUME NEW v \in Volumes, TargetOf[v] \in sessions'
          PROVE  \E d \in Devices : attached'[d] = v
      <4>1. CASE TargetOf[v] = t
        BY <1>1, <2>1, <2>3, <4>1, AttachCompletes DEF Luns
      <4>2. CASE TargetOf[v] # t
        BY <1>1, <2>1, <2>3, <3>1, <4>2, AttachLeavesAlone DEF Complete
      <4> QED BY <4>1, <4>2
    <3> QED BY <2>1, <3>1 DEF Complete
  <2> QED BY <2>2, <2>3
<1> QED BY <1>2, <1>3, <1>4
        DEF Step, GetSession, CloseSession, PreemptLUN, Disconnect

(* A session leaks only in those three ways: with a config or a handler    *)
(* for each the node can always be cleared of them.                        *)
THEOREM NothingLeaks ==
  ASSUME Faults \cap {"exec", "detach", "restart"} = {}
  PROVE  Spec => [](\A t \in sessions : Tracked(t))
<1> DEFINE Known == \A t \in sessions : Tracked(t)
<1>1. Init => Complete
  BY DEF Init, Complete
<1>2. ASSUME TypeInv, Complete, [Next]_vars PROVE Complete'
  <2>1. CASE UNCHANGED iscsiVars
    BY <1>2, <2>1 DEF Complete, iscsiVars
  <2>2. ~ Restart
    BY DEF Restart, NodeRestart
  <2> QED BY <1>2, <2>1, <2>2, StepCompletes DEF Next, vars
<1>3. Complete /\ NoSilentLeak => Known
  BY DEF Complete, NoSilentLeak
<1>4. Spec => []Known
  <2> HIDE DEF Known
  <2> QED BY <1>1, <1>2, <1>3, TypeInvCorrect, NoSilentLeakHolds, PTL DEF Spec
<1>5. QED BY <1>4

-----------------------------------------------------------------------------
(* VolumeDevices *)

KnownInv == TypeInv /\ KnowInv /\ LeakInv /\ DeviceInv /\ ToldInv

LEMMA KnownCorrect == Spec => []KnownInv
BY TypeInvCorrect, KnowCorrect, LeakCorrect, DeviceCorrect, ToldCorrect, PTL
   DEF KnownInv

(* "lost", as VolumeDevices sees it. *)
Lost == {v \in Volumes : TargetOf[v] \in excused}

LEMMA WorkOfStore ==
  ASSUME NEW h \in Handlers, NEW v \in Volumes, Store!Work(h, v)
  PROVE  [Store!Next]_(Store!state)
BY DEF Store!Next

(* The devices of a target of one volume. *)
LEMMA DetachStore ==
  ASSUME TypeInv, NEW v \in OwnTarget, DetachDisk(TargetOf[v])
  PROVE  \/ attached' = Store!Without(v) /\ Lost' = Lost \ {v}
         \/ UNCHANGED attached /\ Lost' \in {Lost, Lost \cup {v}}
<1>1. Luns(TargetOf[v]) = {v}
  BY DEF Luns, OwnTarget
<1>2. CASE RemoveLuns({TargetOf[v]}) /\ excused' = excused \ {TargetOf[v]}
  <2>1. attached' = Store!Without(v)
    BY <1>1, <1>2 DEF RemoveLuns, Store!Without
  <2>2. Lost' = Lost \ {v}
    BY <1>2 DEF Lost, OwnTarget
  <2> QED BY <2>1, <2>2
<1>3. CASE /\ UNCHANGED attached
           /\ excused' = excused \cup ({TargetOf[v]} \cap sessions)
  <2>1. Lost' \in {Lost, Lost \cup {v}}
    BY <1>3 DEF Lost, OwnTarget
  <2> QED BY <1>3, <2>1
<1> QED BY <1>2, <1>3 DEF DetachDisk

LEMMA AttachStore ==
  ASSUME TypeInv, NEW v \in OwnTarget, AttachLuns(TargetOf[v])
  PROVE  \E d \in Devices : /\ attached[d] = NoVolume
                            /\ attached' = [attached EXCEPT ![d] = v]
<1>1. Luns(TargetOf[v]) = {v}
  BY DEF Luns, OwnTarget
<1>2. PICK f \in Namings(TargetOf[v]) :
        attached' = [d \in Devices |-> IF Named(f, d)
                                         THEN CHOOSE w \in Luns(TargetOf[v]) : f[w] = d
                                         ELSE attached[d]]
  BY DEF AttachLuns
<1>3. f[v] \in Devices /\ attached[f[v]] = NoVolume
  BY <1>1 DEF Namings, FreeDevices
<1>4. \A d \in Devices : Named(f, d) <=> d = f[v]
  BY <1>1 DEF Named, Namings
<1>5. \A d \in Devices : d = f[v] => (CHOOSE w \in Luns(TargetOf[v]) : f[w] = d) = v
  BY <1>1
<1>6. ASSUME NEW d \in Devices
      PROVE  attached'[d] = IF d = f[v] THEN v ELSE attached[d]
  <2>1. attached'[d] = IF Named(f, d) THEN CHOOSE w \in Luns(TargetOf[v]) : f[w] = d
                                      ELSE attached[d]
    BY <1>2
  <2> QED BY <1>4, <1>5, <2>1
<1>7. attached' \in [Devices -> Volumes \cup {NoVolume}]
  BY AttachLunsType, ISCSIAssumption DEF OwnTarget, TypeInv
<1>8. attached' = [attached EXCEPT ![f[v]] = v]
  BY <1>3, <1>6, <1>7 DEF TypeInv, ISCSIDataOK
<1> QED BY <1>3, <1>8

(* What a handler that has, or may open, a session of its own knows of     *)
(* what the caller was told.                                               *)
LEMMA SessionUnknown ==
  ASSUME KnownInv, NEW h \in Handlers, Active(h), vol[h] \in OwnTarget,
         \/ pc[h] \in {"login", "preempt"}
         \/ pc[h] \in {"cleanup", "disconnect"} /\ dev[h] # NoDevice
  PROVE  view[vol[h]] = "unknown"
<1>1. HandlerKnows(h) /\ DeviceMatches(h) /\ vol[h] \in Volumes
  BY DEF KnownInv, KnowInv, DeviceInv, OwnTarget
<1>2. view[vol[h]] # "published"
  BY <1>1 DEF DeviceMatches
<1>3. view[vol[h]] # "unpublished"
  BY <1>1
     DEF HandlerKnows, UnpublishStages, KnownInv, ToldInv, PublishIsTold,
         UnpublishedForgotten
<1> QED BY <1>1, <1>2, <1>3 DEF KnownInv, TypeInv, NodeDataOK, Views

(* What the caller sees of an answer. *)
LEMMA AnswerStore ==
  ASSUME KnownInv, NEW h \in Handlers, WriteOutput(h), UNCHANGED iscsiVars,
         NEW v \in OwnTarget, v = vol[h]
  PROVE  [Store!Next]_(Store!state)
<1>1. v \in Volumes /\ Active(h) /\ HandlerKnows(h) /\ DeviceMatches(h)
  BY DEF KnownInv, KnowInv, DeviceInv, OwnTarget, WriteOutput, Active, Idle
<1>2. Lost' = Lost
  BY DEF Lost, iscsiVars
<1>3. CASE UNCHANGED <<vol, view>>
  BY <1>3 DEF Store!state, iscsiVars
<1>4. CASE Return(h) /\ UNCHANGED view
  <2>1. Store!Fail(h, v)
    BY <1>1, <1>2, <1>4 DEF Return, Lost, iscsiVars, Store!Fail, Store!Works, Store!Answer
  <2> QED BY <1>1, <2>1, WorkOfStore DEF Store!Work
<1>5. CASE /\ op[h] = "publish" /\ Return(h)
           /\ view' = [view EXCEPT ![v] = "published"]
  <2>1. attached[dev[h]] = v /\ dev[h] \in Devices
    BY <1>1, <1>5 DEF WriteOutput, DeviceMatches, HandlerKnows
  <2>2. v \notin Lost
    BY <1>5 DEF WriteOutput, KnownInv, ToldInv, HeldNotExcused, Lost
  <2>3. Store!PublishOK(h, v)
    BY <1>1, <1>2, <1>5, <2>1, <2>2
       DEF Return, Lost, iscsiVars, Store!PublishOK, Store!Works, Store!On,
           Store!Answer, Store!Told
  <2> QED BY <1>1, <2>3, WorkOfStore DEF Store!Work
<1>6. CASE /\ op[h] # "publish" /\ Return(h)
           /\ view' = [view EXCEPT ![v] = "unpublished"]
  <2>1. ASSUME NEW d \in Devices, attached[d] = v PROVE v \in Lost
    <3>1. TargetOf[v] \in sessions /\ Accounted(TargetOf[v])
      BY <1>1, <2>1, NodeAssumption DEF KnownInv, DeviceInv, SessionHasDevices, LeakInv
    <3>2. dev[h] = NoDevice /\ config[v].dev = NoDevice
      BY <1>1, <1>6 DEF WriteOutput, HandlerKnows, Written
    <3>3. \A w \in Luns(TargetOf[v]) : w = v
      BY DEF Luns, OwnTarget
    <3>4. \A g \in Handlers : vol[g] = v => g = h
      BY <1>1, NodeAssumption
         DEF KnownInv, TypeInv, ControlInv, ActiveHasVolume, VolumeExclusion, Active
    <3>5. ~ ByConfig(TargetOf[v]) /\ ~ ByHandler(TargetOf[v])
      BY <3>2, <3>3, <3>4 DEF ByConfig, ByHandler
    <3> QED BY <1>1, <3>1, <3>5 DEF Accounted, Lost
  <2>2. Store!UnpublishOK(h, v)
    BY <1>1, <1>2, <1>6, <2>1
       DEF Return, Lost, iscsiVars, Store!UnpublishOK, Store!Works, Store!On,
           Store!Answer, Store!Told
  <2> QED BY <1>1, <2>2, WorkOfStore DEF Store!Work
<1> QED BY <1>3, <1>4, <1>5, <1>6 DEF WriteOutput, Fail

LEMMA StepStore ==
  ASSUME KnownInv, NEW h \in Handlers, Step(h), NEW v \in OwnTarget, v = vol[h]
  PROVE  [Store!Next]_(Store!state)
<1>1. v \in Volumes /\ v # NoVolume /\ Active(h) /\ HandlerKnows(h) /\ DeviceMatches(h)
  BY StepActive, NodeAssumption DEF KnownInv, KnowInv, DeviceInv
<1> USE DEF Lost
<1>2. CASE UNCHANGED <<vol, attached, view, excused>>
  BY <1>2 DEF Store!state
<1>3. CASE Return(h) /\ UNCHANGED <<attached, view, excused>>
  <2>1. Store!Fail(h, v)
    BY <1>1, <1>3 DEF Return, Store!Fail, Store!Works, Store!Answer
  <2> QED BY <1>1, <2>1, WorkOfStore DEF Store!Work
<1>4. CASE CloseSession(h)
  <2>1. DetachDisk(TargetOf[v]) /\ vol' = vol /\ view' = [view EXCEPT ![v] = "unknown"]
    BY <1>1, <1>4 DEF CloseSession
  <2>2. Store!Disconnect(h, v) \/ Store!Lose(h, v)
    BY <1>1, <2>1, DetachStore
       DEF KnownInv, Store!Disconnect, Store!Lose, Store!Works, Store!Told, Store!Unsure
  <2> QED BY <1>1, <2>2, WorkOfStore DEF Store!Work
<1>5. CASE AttachDisk(h)
  <2>1. view[v] = "unknown" /\ UNCHANGED <<vol, view>>
    BY <1>1, <1>5, SessionUnknown DEF AttachDisk
  <2>2. \/ excused' = excused \ {TargetOf[v]}
        \/ excused' = excused
        \/ excused' = excused \cup {TargetOf[v]}
    BY <1>1, <1>5 DEF AttachDisk
  <2>3. Lost' \in {Lost, Lost \ {v}, Lost \cup {v}}
    BY <1>1, <2>2 DEF OwnTarget
  <2>4. CASE AttachLuns(TargetOf[v]) /\ TargetOf[v] \notin sessions
    <3>1. Lost' \in {Lost \ {v}, Lost \cup {v}}
      BY <1>1, <1>5, <2>4 DEF AttachDisk, OwnTarget
    <3>2. \A d \in Devices : attached[d] # v
      BY <1>1, <2>4 DEF KnownInv, DeviceInv, SessionHasDevices
    <3>3. \E d \in Devices : /\ attached[d] = NoVolume
                             /\ attached' = [attached EXCEPT ![d] = v]
      BY <2>4, AttachStore DEF KnownInv
    <3>4. Store!Connect(h, v)
      BY <1>1, <2>1, <3>1, <3>2, <3>3 DEF Store!Connect, Store!Works, Store!On
    <3> QED BY <1>1, <3>4, WorkOfStore DEF Store!Work
  <2>5. CASE UNCHANGED attached /\ \E d \in Devices : attached[d] = v
    <3>1. Store!Recover(h, v) \/ Store!Lose(h, v)
      BY <1>1, <2>1, <2>3, <2>5
         DEF Store!Recover, Store!Lose, Store!Works, Store!On, Store!Unsure
    <3> QED BY <1>1, <3>1, WorkOfStore DEF Store!Work
  <2>6. CASE UNCHANGED attached /\ Lost' \in {Lost, Lost \cup {v}}
    <3>1. Store!Lose(h, v)
      BY <1>1, <2>1, <2>6 DEF Store!Lose, Store!Works, Store!Unsure
    <3> QED BY <1>1, <3>1, WorkOfStore DEF Store!Work
  <2>7. Lost' \in {Lost, Lost \cup {v}} \/ \E d \in Devices : attached'[d] = v
    BY <1>1, <1>5 DEF AttachDisk, Found, OwnTarget
  <2> QED BY <1>1, <1>5, <2>4, <2>5, <2>6, <2>7 DEF AttachDisk
<1>6. CASE PreemptLUN(h) /\ DetachDisk(TargetOf[v])
  <2>1. view[v] = "unknown" /\ UNCHANGED <<vol, view>>
    BY <1>1, <1>6, SessionUnknown DEF PreemptLUN
  <2>2. Store!Disconnect(h, v) \/ Store!Lose(h, v)
    BY <1>1, <1>6, <2>1, DetachStore
       DEF KnownInv, TypeInv, NodeDataOK, Store!Disconnect, Store!Lose, Store!Works,
           Store!Told, Store!Unsure
  <2> QED BY <1>1, <2>2, WorkOfStore DEF Store!Work
<1>7. CASE Disconnect(h) /\ dev[h] = NoDevice
  BY <1>2, <1>3, <1>7 DEF Disconnect, iscsiVars
<1>8. CASE Disconnect(h) /\ dev[h] # NoDevice
  <2>1. view[v] = "unknown" /\ UNCHANGED view /\ DetachDisk(TargetOf[v])
    BY <1>1, <1>8, SessionUnknown DEF Disconnect
  <2>2. CASE pc[h] = "disconnect" /\ UNCHANGED vol
    <3>1. Store!Disconnect(h, v) \/ Store!Lose(h, v)
      BY <1>1, <2>1, <2>2, DetachStore
         DEF KnownInv, TypeInv, NodeDataOK, Store!Disconnect, Store!Lose, Store!Works,
             Store!Told, Store!Unsure
    <3> QED BY <1>1, <3>1, WorkOfStore DEF Store!Work
  <2>3. CASE pc[h] = "cleanup" /\ Return(h)
    <3>1. Store!Fail(h, v)
      BY <1>1, <2>1, <2>3, DetachStore
         DEF KnownInv, Return, Store!Fail, Store!Works, Store!Answer
    <3> QED BY <1>1, <3>1, WorkOfStore DEF Store!Work
  <2> QED BY <1>8, <2>2, <2>3 DEF Disconnect
<1>9. CASE WriteOutput(h) /\ UNCHANGED iscsiVars
  BY <1>9, AnswerStore
<1>10. CASE (NewRootFS(h) \/ LoadRootFS(h) \/ WriteConfig(h)) /\ UNCHANGED iscsiVars
  BY <1>2, <1>3, <1>10 DEF NewRootFS, ErrorLun, LoadRootFS, WriteConfig, Fail, iscsiVars
<1>11. CASE GetSession(h) \/ (PreemptLUN(h) /\ UNCHANGED iscsiVars)
  BY <1>2, <1>3, <1>11 DEF GetSession, ParseForeign, Panic, PreemptLUN, iscsiVars
<1> QED
  BY <1>1, <1>4, <1>5, <1>6, <1>7, <1>8, <1>9, <1>10, <1>11
     DEF Step, NodeStep, PreemptLUN, iscsiVars

LEMMA RequestStore ==
  ASSUME KnownInv, NEW h \in Handlers, Request(h), UNCHANGED iscsiVars
  PROVE  [Store!Next]_(Store!state)
<1> USE DEF Store!state, iscsiVars
<1>1. CASE \E v \in Volumes : AlreadyExists(h, v)
  BY <1>1 DEF AlreadyExists
<1>2. ASSUME NEW v \in Volumes, NodePublishVolume(h, v) \/ NodeUnpublishVolume(h, v)
      PROVE  [Store!Next]_(Store!state)
  <2>1. vol[h] = NoVolume /\ \A g \in Handlers : vol[g] # v
    BY <1>2, LockedByHandler, NodeAssumption
       DEF NodePublishVolume, NodeUnpublishVolume, Enter, TryAcquire, KnownInv,
           TypeInv, ControlInv, ActiveHasVolume, Active, Idle
  <2>2. Store!Begin(h, v)
    BY <1>2, <2>1
       DEF NodePublishVolume, NodeUnpublishVolume, Enter, Store!Begin, Store!Unsure,
           Store!Told
  <2> QED BY <2>2, WorkOfStore DEF Store!Work
<1> QED BY <1>1, <1>2 DEF Request

LEMMA RestartStore ==
  ASSUME KnownInv, TargetsDistinct, Restart PROVE Store!Restart
<1>1. PICK alive \in SUBSET sessions :
        /\ NodeRestart(UNION {Luns(t) : t \in Targets \ alive})
        /\ RemoveLuns(Targets \ alive)
        /\ excused' = alive \cap (excused \cup HeldTargets)
  BY DEF Restart
<1>2. \A d \in Devices : attached'[d] \in {attached[d], NoVolume}
  BY <1>1 DEF RemoveLuns
<1>3. Lost' \subseteq Lost \cup {vol[h] : h \in Handlers}
  <2> SUFFICES ASSUME NEW v \in Volumes, TargetOf[v] \in HeldTargets
               PROVE  \E h \in Handlers : vol[h] = v
    BY <1>1 DEF Lost
  <2>1. PICK h \in Handlers : dev[h] # NoDevice /\ TargetOf[v] = TargetOf[vol[h]]
    BY DEF HeldTargets
  <2>2. vol[h] \in Volumes
    BY <2>1
       DEF KnownInv, KnowInv, HandlerKnows, TypeInv, ControlInv, ControlTypeOK,
           ActiveHasVolume, Active, Idle
  <2> QED BY <2>1, <2>2 DEF TargetsDistinct
<1>4. ASSUME NEW v \in Volumes, view[v] = "published"
      PROVE  v \in UNION {Luns(t) : t \in Targets \ alive}
               <=> \A d \in Devices : attached'[d] # v
  <2>1. PICK d \in Devices : attached[d] = v
    BY <1>4 DEF KnownInv, DeviceInv, OnDevice, OwnTarget, TargetsDistinct
  <2> QED BY <1>1, <2>1, NodeAssumption DEF RemoveLuns, KnownInv, TypeInv, ISCSIDataOK
<1>5. view' = [v \in Volumes |->
                 IF view[v] = "published" /\ \A d \in Devices : attached'[d] # v
                   THEN "unknown" ELSE view[v]]
  BY <1>1, <1>4 DEF NodeRestart
<1> QED BY <1>1, <1>2, <1>3, <1>5 DEF NodeRestart, Lost, Store!Restart

(* Where volumes have targets of their own, ISCSINode implements           *)
(* VolumeDevices: sessions, logouts that fail, logins that leave a session *)
(* behind, preempts, files and restarts show to the caller only as a       *)
(* volume being connected, disconnected or lost by the one handler that    *)
(* works on it.                                                            *)
THEOREM VolumeDevicesRefinement ==
  ASSUME TargetsDistinct PROVE Spec => ImplementsVolumeDevices
<1>1. Init => Store!Init
  BY DEF Init, NodeInit, Store!Init
<1>2. KnownInv /\ [Next]_vars => [Store!Next]_(Store!state)
  <2> SUFFICES ASSUME KnownInv, [Next]_vars PROVE [Store!Next]_(Store!state)
    OBVIOUS
  <2>1. ASSUME NEW h \in Handlers, Step(h) PROVE [Store!Next]_(Store!state)
    <3>1. vol[h] \in OwnTarget
      BY <2>1, StepActive DEF KnownInv, OwnTarget, TargetsDistinct
    <3> QED BY <2>1, <3>1, StepStore
  <2>2. CASE UNCHANGED vars
    BY <2>2 DEF vars, nodeVars, iscsiVars, Store!state
  <2> QED BY <2>1, <2>2, RequestStore, RestartStore DEF Next, Store!Next
<1> QED BY <1>1, <1>2, KnownCorrect, PTL DEF Spec, ImplementsVolumeDevices, Store!Spec

=============================================================================
