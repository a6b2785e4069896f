----------------------------- MODULE NodeServer -----------------------------
(***************************************************************************)
(* pkg/driver/nodeservice.go and pkg/driver/types.go: the part of a CSI    *)
(* node service that does not depend on the kind of root file system.      *)
(*                                                                         *)
(* gRPC runs every request in a goroutine of its own: a handler.  A        *)
(* handler takes the lock of its volume, goes through the stages of        *)
(* NodePublishVolume or NodeUnpublishVolume and answers.  One action is    *)
(* one call that touches state shared with other handlers or kept on disk, *)
(* so handlers interleave between any two such calls.                      *)
(*                                                                         *)
(* This module leaves Allocate, Connect and Disconnect of interface RootFS *)
(* to the module that EXTENDS it (QemuNode): Allocate starts at stage      *)
(* "allocate", Connect ends at "config", and Disconnect is "cleanup" in    *)
(* the error paths of a publish and "disconnect" in an unpublish.          *)
(***************************************************************************)
EXTENDS VolumeLocks

CONSTANTS
  Handlers,       \* goroutines that can serve a request at the same time
  Devices,        \* device paths a root file system can be connected to
  Claims,         \* names of persistent volume claims
  ClaimOf,        \* csi.storage.k8s.io/pvc/name in each volume's context
  NoVolume,       \* an idle handler has no volume
  NoDevice,       \* the empty device path ""
  Faults          \* what may go wrong in the environment, see FaultKinds

(***************************************************************************)
(* "io": a read or write of a file fails; "image": qemu-img fails;         *)
(* "exec": the command that connects a device, or the wait after it,       *)
(* fails; "detach": the command that disconnects one fails; "republish":   *)
(* kubelet repeats a publish it has already seen succeed; "foreign": the   *)
(* node has an iSCSI session of another program, with an IQN the driver    *)
(* cannot parse; "context": a request for an iSCSI disk has a volume       *)
(* context in which the LUN is no number; "restart": the driver or its     *)
(* node restarts.                                                          *)
(***************************************************************************)
FaultKinds ==
  {"io", "image", "exec", "detach", "republish", "foreign", "context", "restart"}

ASSUME NodeAssumption ==
  /\ NoVolume \notin Volumes
  /\ NoDevice \notin Devices
  /\ ClaimOf \in [Volumes -> Claims]
  /\ Faults \subseteq FaultKinds

VARIABLES
  pc,             \* the stage each handler has come to, or "idle"
  op,             \* the RPC each handler serves
  vol,            \* its volume
  dev,            \* Device / DevicePath of its RootFS object in memory
  typeFile,       \* <base>/<volume>/rootfs_type
  config,         \* <base>/<volume>/<kind>-config.json
  output,         \* <output>/<claim>, what the container runtime reads
  view            \* history: what the caller may believe about each volume

nodeVars == <<locks, pc, op, vol, dev, typeFile, config, output, view>>

-----------------------------------------------------------------------------
(* Data *)

DeviceOrNone == Devices \cup {NoDevice}
Operations   == {"none", "publish", "unpublish"}
Views        == {"published", "unpublished", "unknown"}
FileStates   == {"absent", "torn", "written"}

(* The content of a config or output file that matters: the device in it. *)
File       == [state : FileStates, dev : DeviceOrNone]
Absent     == [state |-> "absent", dev |-> NoDevice]
Torn       == [state |-> "torn", dev |-> NoDevice]
Written(d) == [state |-> "written", dev |-> d]

Idle(h)   == pc[h] = "idle"
Active(h) == ~ Idle(h)

(* os.WriteFile truncates before it writes: a failed call leaves the old   *)
(* content when the open failed, or a file that cannot be decoded.         *)
WriteFails(old, torn) == IF "io" \in Faults THEN {old, torn} ELSE {}

-----------------------------------------------------------------------------
(* Control *)

Goto(h, stage) == pc' = [pc EXCEPT ![h] = stage]

(* A slip in the handlers: an early return that skips the deferred Release. *)
ReturnWithoutRelease(h) ==
  /\ Goto(h, "idle")
  /\ op'  = [op EXCEPT ![h] = "none"]
  /\ vol' = [vol EXCEPT ![h] = NoVolume]
  /\ dev' = [dev EXCEPT ![h] = NoDevice]
  /\ locks' = IF pc[h] = "output" THEN locks \ {vol[h]} ELSE locks

(* The handler answers (OK, or Internal with an error): its locals are     *)
(* gone and the deferred Release runs.                                     *)
Return(h) ==
  /\ Goto(h, "idle")
  /\ op'  = [op EXCEPT ![h] = "none"]
  /\ vol' = [vol EXCEPT ![h] = NoVolume]
  /\ dev' = [dev EXCEPT ![h] = NoDevice]
  /\ Release(vol[h])

(* The handler panics: no Disconnect, but the deferred Release still runs, *)
(* and panicHandler answers Internal.                                      *)
Panic(h) == Return(h)

(* A slip in NodePublishVolume: the error return forgets Disconnect. *)
FailWithoutDisconnect(h) == Return(h)

(* An error after Connect: NodePublishVolume disconnects first. *)
Fail(h) ==
  IF op[h] = "publish"
    THEN Goto(h, "cleanup") /\ UNCHANGED <<locks, op, vol, dev>>
    ELSE Return(h)

(* A slip in the handlers: the lock is taken before rootfsID is assigned. *)
EnterBeforeID(h, v, rpc, stage) ==
  /\ Idle(h)
  /\ TryAcquire(vol[h])
  /\ Goto(h, stage)
  /\ op'  = [op EXCEPT ![h] = rpc]
  /\ vol' = [vol EXCEPT ![h] = v]

(* TryAcquire succeeded: the handler now works on v. *)
Enter(h, v, rpc, stage) ==
  /\ Idle(h)
  /\ TryAcquire(v)
  /\ Goto(h, stage)
  /\ op'  = [op EXCEPT ![h] = rpc]
  /\ vol' = [vol EXCEPT ![h] = v]

(***************************************************************************)
(* NodePublishVolume up to TryAcquire.  What the caller believes of a      *)
(* published volume does not change when it repeats the call.              *)
(***************************************************************************)
NodePublishVolume(h, v) ==
  /\ "republish" \in Faults \/ view[v] # "published"
  /\ Enter(h, v, "publish", "new")
  /\ view' = IF view[v] = "published" THEN view
                                      ELSE [view EXCEPT ![v] = "unknown"]
  /\ UNCHANGED <<dev, typeFile, config, output>>

NodeUnpublishVolume(h, v) ==
  /\ Enter(h, v, "unpublish", "load")
  /\ view' = IF view[v] = "unpublished" THEN view
                                        ELSE [view EXCEPT ![v] = "unknown"]
  /\ UNCHANGED <<dev, typeFile, config, output>>

(* Either RPC, for a volume some handler holds: codes.Aborted.  A request  *)
(* that validateNode(Un)PublishVolumeRequest rejects leaves no more trace. *)
AlreadyExists(h, v) ==
  /\ Idle(h)
  /\ AcquireDenied(v)
  /\ UNCHANGED <<pc, op, vol, dev, typeFile, config, output, view>>

(* A slip in NewBaseRootFS: the error of os.WriteFile is ignored. *)
NewRootFSIgnoringError(h) ==
  /\ pc[h] = "new"
  /\ \E f \in {"written"} \cup WriteFails(typeFile[vol[h]], "torn") :
       typeFile' = [typeFile EXCEPT ![vol[h]] = f]
  /\ Goto(h, "allocate")
  /\ UNCHANGED <<locks, op, vol, dev, config, output, view>>

(* NewISCSIRootFS, which gets to the LUN when the base is there already. *)
ErrorLun(h) == "context" \in Faults /\ Return(h)

(***************************************************************************)
(* NewRootFS / NewBaseRootFS: make the data directory, write the type file *)
(* (on every publish, also when the volume is already published).          *)
(***************************************************************************)
NewRootFS(h) ==
  /\ pc[h] = "new"
  /\ \/ /\ typeFile' = [typeFile EXCEPT ![vol[h]] = "written"]
        /\ \/ Goto(h, "allocate") /\ UNCHANGED <<locks, op, vol, dev>>
           \/ ErrorLun(h)
     \/ \E f \in WriteFails(typeFile[vol[h]], "torn") :
          /\ typeFile' = [typeFile EXCEPT ![vol[h]] = f]
          /\ Return(h)
  /\ UNCHANGED <<config, output, view>>

(* LoadRootFS: the type file selects the loader, which decodes the config. *)
LoadRootFS(h) ==
  /\ pc[h] = "load"
  /\ LET v == vol[h] IN
       \/ /\ typeFile[v] = "written"
          /\ config[v].state = "written"
          /\ dev' = [dev EXCEPT ![h] = config[v].dev]
          /\ Goto(h, "disconnect")
          /\ UNCHANGED <<locks, op, vol>>
       \/ /\ \/ typeFile[v] # "written"
             \/ config[v].state # "written"
             \/ "io" \in Faults
          /\ Return(h)
  /\ UNCHANGED <<typeFile, config, output, view>>

(* WriteConfig, first half: the RootFS object itself, with its device. *)
WriteConfig(h) ==
  /\ pc[h] = "config"
  /\ LET v == vol[h] IN
       \/ /\ config' = [config EXCEPT ![v] = Written(dev[h])]
          /\ Goto(h, "output")
          /\ UNCHANGED <<locks, op, vol, dev>>
       \/ \E f \in WriteFails(config[v], Torn) :
            /\ config' = [config EXCEPT ![v] = f]
            /\ Fail(h)
  /\ UNCHANGED <<typeFile, output, view>>

(* A slip in WriteConfig: the error of WriteOutput is ignored. *)
WriteOutputIgnoringError(h) ==
  /\ pc[h] = "output"
  /\ LET c == ClaimOf[vol[h]] IN
       \E f \in {Written(dev[h])} \cup WriteFails(output[c], Torn) :
         output' = [output EXCEPT ![c] = f]
  /\ view' = [view EXCEPT ![vol[h]] = IF op[h] = "publish" THEN "published"
                                                           ELSE "unpublished"]
  /\ Return(h)
  /\ UNCHANGED <<typeFile, config>>

(* WriteConfig, second half: BaseRootFS.WriteOutput, then the RPC is done. *)
WriteOutput(h) ==
  /\ pc[h] = "output"
  /\ LET v == vol[h] IN
       \/ /\ output' = [output EXCEPT ![ClaimOf[v]] = Written(dev[h])]
          /\ view' = [view EXCEPT ![v] = IF op[h] = "publish" THEN "published"
                                                              ELSE "unpublished"]
          /\ Return(h)
       \/ \E f \in WriteFails(output[ClaimOf[v]], Torn) :
            /\ output' = [output EXCEPT ![ClaimOf[v]] = f]
            /\ Fail(h)
            /\ UNCHANGED view
  /\ UNCHANGED <<typeFile, config>>

-----------------------------------------------------------------------------
NodeInit ==
  /\ locks = NewVolumeLocks
  /\ pc  = [h \in Handlers |-> "idle"]
  /\ op  = [h \in Handlers |-> "none"]
  /\ vol = [h \in Handlers |-> NoVolume]
  /\ dev = [h \in Handlers |-> NoDevice]
  /\ typeFile = [v \in Volumes |-> "absent"]
  /\ config   = [v \in Volumes |-> Absent]
  /\ output   = [c \in Claims |-> Absent]
  /\ view     = [v \in Volumes |-> "unpublished"]

(* Handlers that a restart can catch between the truncation and the write  *)
(* of os.WriteFile.                                                        *)
Writers == {h \in Handlers : pc[h] \in {"new", "config", "output"}}

TornBy(hs, stage, v) == \E h \in hs : pc[h] = stage /\ vol[h] = v

(***************************************************************************)
(* The process ends at any point and a fresh one, without handlers or      *)
(* locks, finds the files on disk, torn where a write was cut off.  "lost" *)
(* are the volumes whose device did not survive, which the caller no       *)
(* longer takes for published.                                             *)
(***************************************************************************)
NodeRestart(lost) ==
  /\ "restart" \in Faults
  /\ locks' = NewVolumeLocks
  /\ pc'  = [h \in Handlers |-> "idle"]
  /\ op'  = [h \in Handlers |-> "none"]
  /\ vol' = [h \in Handlers |-> NoVolume]
  /\ dev' = [h \in Handlers |-> NoDevice]
  /\ view' = [v \in Volumes |-> IF view[v] = "published" /\ v \in lost
                                  THEN "unknown" ELSE view[v]]
  /\ \E cut \in SUBSET Writers :
       /\ typeFile' = [v \in Volumes |->
            IF TornBy(cut, "new", v) THEN "torn" ELSE typeFile[v]]
       /\ config' = [v \in Volumes |->
            IF TornBy(cut, "config", v) THEN Torn ELSE config[v]]
       /\ output' = [c \in Claims |->
            IF \E v \in Volumes : ClaimOf[v] = c /\ TornBy(cut, "output", v)
              THEN Torn ELSE output[c]]

Request(h) ==
  \E v \in Volumes :
    \/ NodePublishVolume(h, v)
    \/ NodeUnpublishVolume(h, v)
    \/ AlreadyExists(h, v)

NodeStep(h) ==
  \/ NewRootFS(h)
  \/ LoadRootFS(h)
  \/ WriteConfig(h)
  \/ WriteOutput(h)

-----------------------------------------------------------------------------
(* Properties *)

(* The types of the variables above; the stages depend on the root file    *)
(* system.                                                                 *)
NodeTypeOK(stages) ==
  /\ LocksTypeOK
  /\ pc \in [Handlers -> {"idle"} \cup stages]
  /\ op \in [Handlers -> Operations]
  /\ vol \in [Handlers -> Volumes \cup {NoVolume}]
  /\ dev \in [Handlers -> DeviceOrNone]
  /\ typeFile \in [Volumes -> FileStates]
  /\ config \in [Volumes -> File]
  /\ output \in [Claims -> File]
  /\ view \in [Volumes -> Views]

(* TryAcquire and the deferred Release: handlers never share a volume, and *)
(* a volume stays locked exactly as long as a handler works on it, on      *)
(* every return path, so no volume is ever refused for ever.               *)
VolumeExclusion ==
  /\ \A g, h \in Handlers : Active(g) /\ Active(h) /\ vol[g] = vol[h] => g = h
  /\ locks = {vol[h] : h \in {g \in Handlers : Active(g)}}

(* The concurrency the caller sees is meant to be that of SerialVolumes.   *)
Serial == INSTANCE SerialVolumes WITH working <- vol

=============================================================================
