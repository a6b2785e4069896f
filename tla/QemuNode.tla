------------------------------ MODULE QemuNode ------------------------------
(***************************************************************************)
(* The node service on a node whose root file systems are qcow2 overlays   *)
(* served through NBD: NodeServer with the RootFS of pkg/driver/qemu.go,   *)
(* pkg/utils/qemu/image.go and pkg/utils/qemu/nbd.go.                      *)
(*                                                                         *)
(* Outside the program: qemu-img, qemu-nbd and the nbd kernel module.  A   *)
(* device has a pid file exactly while a qemu-nbd serves an image on it,   *)
(* and qemu-nbd refuses an image that another qemu-nbd holds open (the     *)
(* image lock of QEMU 2.10 and later).                                     *)
(***************************************************************************)
EXTENDS NodeServer, Naturals

CONSTANT NoHandler      \* nobody holds NBDConnectLock

(* Devices stand for /dev/nbd*, numbered in the order Glob lists them. *)
ASSUME QemuAssumption ==
  /\ Devices \subseteq Nat
  /\ NoHandler \notin Handlers

VARIABLES
  attached,       \* the volume whose image is served on each device, if any
  nbdLock,        \* holder of qemu.NBDConnectLock
  image,          \* the overlay <base>/<volume>/rootfs
  harmed,         \* history: volumes whose device was torn down by a handler
                  \*   of another volume and has not been published again
  excused         \* history: devices in use whose disconnect failed, which
                  \*   is only logged, or that a handler held when the
                  \*   process ended

qemuVars == <<attached, nbdLock, image, harmed, excused>>
vars     == <<nodeVars, qemuVars>>

(* "used": qemu-nbd has opened the overlay, so it may hold a guest's data. *)
Images == {"absent", "partial", "fresh", "used"}

Stages == {"new", "allocate", "create", "nbdlock", "attach", "settle",
           "config", "output", "cleanup", "load", "disconnect"}

-----------------------------------------------------------------------------
(* Allocate *)

(* A slip in Allocate: the overlay is created without looking for it. *)
AllocateWithoutStat(h) ==
  /\ pc[h] = "allocate"
  /\ Goto(h, "create")
  /\ UNCHANGED <<locks, op, vol, dev, typeFile, config, output, view>>
  /\ UNCHANGED qemuVars

(* ImageInfo of the base image, then os.Stat of the overlay. *)
Allocate(h) ==
  /\ pc[h] = "allocate"
  /\ \/ /\ Goto(h, IF image[vol[h]] = "absent" THEN "create" ELSE "nbdlock")
        /\ UNCHANGED <<locks, op, vol, dev>>
     \/ /\ "image" \in Faults
        /\ Return(h)
  /\ UNCHANGED <<typeFile, config, output, view>>
  /\ UNCHANGED qemuVars

(* CreateImageFromBase: qemu-img create writes the overlay anew.  It can   *)
(* fail at any point, and fails as a whole when its last info() does.      *)
CreateImageFromBase(h) ==
  /\ pc[h] = "create"
  /\ \/ /\ image' = [image EXCEPT ![vol[h]] = "fresh"]
        /\ Goto(h, "nbdlock")
        /\ UNCHANGED <<locks, op, vol, dev>>
     \/ /\ "image" \in Faults
        /\ \E i \in {image[vol[h]], "partial", "fresh"} :
             image' = [image EXCEPT ![vol[h]] = i]
        /\ Return(h)
  /\ UNCHANGED <<typeFile, config, output, view>>
  /\ UNCHANGED <<attached, nbdLock, harmed, excused>>

-----------------------------------------------------------------------------
(* Connect *)

FreeDevices  == {d \in Devices : attached[d] = NoVolume}
FirstFree(d) == d \in FreeDevices /\ \A e \in FreeDevices : d <= e
ImageBusy(v) == \E d \in Devices : attached[d] = v

(* A slip in Connect: NBDConnectLock is not waited for. *)
LockNBDWithoutWaiting(h) ==
  /\ pc[h] = "nbdlock"
  /\ \/ /\ \E d \in Devices : FirstFree(d) /\ dev' = [dev EXCEPT ![h] = d]
        /\ nbdLock' = h
        /\ Goto(h, "attach")
     \/ /\ FreeDevices = {}
        /\ Goto(h, "cleanup")
        /\ UNCHANGED <<nbdLock, dev>>
  /\ UNCHANGED <<locks, op, vol, typeFile, config, output, view>>
  /\ UNCHANGED <<attached, image, harmed, excused>>

(* NBDConnectLock.Lock, then NBD.allocate: the first device without a pid  *)
(* file.  When there is none, Connect returns and its defer unlocks.       *)
LockNBD(h) ==
  /\ pc[h] = "nbdlock"
  /\ nbdLock = NoHandler
  /\ \/ /\ \E d \in Devices : FirstFree(d) /\ dev' = [dev EXCEPT ![h] = d]
        /\ nbdLock' = h
        /\ Goto(h, "attach")
     \/ /\ FreeDevices = {}
        /\ Goto(h, "cleanup")
        /\ UNCHANGED <<nbdLock, dev>>
  /\ UNCHANGED <<locks, op, vol, typeFile, config, output, view>>
  /\ UNCHANGED <<attached, image, harmed, excused>>

(* qemu-nbd --connect.  On failure n.DevicePath stays set. *)
AttachNBD(h) ==
  /\ pc[h] = "attach"
  /\ \/ /\ attached[dev[h]] = NoVolume
        /\ ~ ImageBusy(vol[h])
        /\ attached' = [attached EXCEPT ![dev[h]] = vol[h]]
        /\ image' = [image EXCEPT ![vol[h]] = "used"]
        /\ harmed' = IF view[vol[h]] = "published" THEN harmed
                                                   ELSE harmed \ {vol[h]}
        /\ Goto(h, "settle")
        /\ UNCHANGED nbdLock
     \/ /\ \/ attached[dev[h]] # NoVolume
           \/ ImageBusy(vol[h])
           \/ image[vol[h]] = "partial"
           \/ "exec" \in Faults
        /\ nbdLock' = NoHandler
        /\ Goto(h, "cleanup")
        /\ UNCHANGED <<attached, image, harmed>>
  /\ UNCHANGED <<locks, op, vol, dev, typeFile, config, output, view, excused>>

(* A slip in Connect: the error returns leave NBDConnectLock locked. *)
SettleNBDWithoutUnlock(h) ==
  /\ pc[h] = "settle"
  /\ \/ /\ attached[dev[h]] # NoVolume
        /\ Goto(h, "config")
        /\ nbdLock' = NoHandler
     \/ /\ attached[dev[h]] = NoVolume \/ "exec" \in Faults
        /\ Goto(h, "cleanup")
        /\ UNCHANGED nbdLock
  /\ UNCHANGED <<locks, op, vol, dev, typeFile, config, output, view>>
  /\ UNCHANGED <<attached, image, harmed, excused>>

(* waitForPID and blockdev --rereadpt; Connect returns and unlocks. *)
SettleNBD(h) ==
  /\ pc[h] = "settle"
  /\ \/ /\ attached[dev[h]] # NoVolume
        /\ Goto(h, "config")
     \/ /\ attached[dev[h]] = NoVolume \/ "exec" \in Faults
        /\ Goto(h, "cleanup")
  /\ nbdLock' = NoHandler
  /\ UNCHANGED <<locks, op, vol, dev, typeFile, config, output, view>>
  /\ UNCHANGED <<attached, image, harmed, excused>>

-----------------------------------------------------------------------------
(* Disconnect *)

(* Without a device, NBD.Disconnect and QEMURootFS.Disconnect do nothing.  *)
(* Otherwise qemu-nbd --disconnect frees the device, whoever uses it; its  *)
(* failure, like that of waitForPIDCleanup, is logged and forgotten.       *)
FreeDevice(h) ==
  LET d == dev[h] IN
    \/ d = NoDevice /\ UNCHANGED <<attached, harmed, excused>>
    \/ /\ d # NoDevice
       /\ attached' = [attached EXCEPT ![d] = NoVolume]
       /\ harmed' = harmed \cup ({attached[d]} \ {vol[h], NoVolume})
       /\ excused' = excused \ {d}
    \/ /\ d # NoDevice
       /\ "detach" \in Faults
       /\ excused' = IF attached[d] = NoVolume THEN excused ELSE excused \cup {d}
       /\ UNCHANGED <<attached, harmed>>

(* A slip in Disconnect: q.NBD and q.Device keep the device. *)
DisconnectKeepingNBD(h) ==
  /\ FreeDevice(h)
  /\ \/ /\ pc[h] = "disconnect"
        /\ Goto(h, "config")
        /\ UNCHANGED <<locks, op, vol, dev>>
     \/ /\ pc[h] = "cleanup"
        /\ Return(h)
  /\ UNCHANGED <<typeFile, config, output, view, nbdLock, image>>

(* A plausible change to Disconnect: it waits for NBDConnectLock, too. *)
DisconnectWaiting(h) ==
  /\ nbdLock = NoHandler
  /\ FreeDevice(h)
  /\ \/ /\ pc[h] = "disconnect"
        /\ dev' = [dev EXCEPT ![h] = NoDevice]
        /\ Goto(h, "config")
        /\ UNCHANGED <<locks, op, vol>>
     \/ /\ pc[h] = "cleanup"
        /\ Return(h)
  /\ UNCHANGED <<typeFile, config, output, view, nbdLock, image>>

(* In NodePublishVolume's error paths and in NodeUnpublishVolume.  It does *)
(* not take NBDConnectLock.                                                *)
Disconnect(h) ==
  /\ FreeDevice(h)
  /\ \/ /\ pc[h] = "disconnect"
        /\ dev' = [dev EXCEPT ![h] = NoDevice]
        /\ Goto(h, "config")
        /\ UNCHANGED <<locks, op, vol>>
     \/ /\ pc[h] = "cleanup"
        /\ Return(h)
  /\ UNCHANGED <<typeFile, config, output, view, nbdLock, image>>

-----------------------------------------------------------------------------
UsedDevices == {d \in Devices : attached[d] # NoVolume}

(* Devices in use that a handler holds in memory. *)
HeldDevices == {d \in UsedDevices : \E h \in Handlers : dev[h] = d}

(* The driver or the node restarts; some qemu-nbd processes survive it, a  *)
(* qemu-img create that was running may not.                               *)
Restart ==
  \E alive \in SUBSET UsedDevices :
    /\ NodeRestart({attached[d] : d \in Devices \ alive})
    /\ attached' = [d \in Devices |-> IF d \in alive THEN attached[d] ELSE NoVolume]
    /\ nbdLock' = NoHandler
    /\ excused' = alive \cap (excused \cup HeldDevices)
    /\ \E cut \in SUBSET {h \in Handlers : pc[h] = "create"} :
         image' = [v \in Volumes |->
                     IF TornBy(cut, "create", v) THEN "partial" ELSE image[v]]
    /\ UNCHANGED harmed

Init ==
  /\ NodeInit
  /\ attached = [d \in Devices |-> NoVolume]
  /\ nbdLock = NoHandler
  /\ image = [v \in Volumes |-> "absent"]
  /\ harmed = {}
  /\ excused = {}

(* The history of a volume ends when it is published again, and served. *)
StillHarmed(h) ==
  IF /\ pc[h] = "output" /\ pc'[h] = "idle" /\ op[h] = "publish"
     /\ attached[dev[h]] = vol[h]
    THEN harmed \ {vol[h]}
    ELSE harmed

(* One stage of a request that is being served. *)
Step(h) ==
  \/ /\ NodeStep(h)
     /\ harmed' = StillHarmed(h)
     /\ UNCHANGED <<attached, nbdLock, image, excused>>
  \/ Allocate(h)
  \/ CreateImageFromBase(h)
  \/ LockNBD(h)
  \/ AttachNBD(h)
  \/ SettleNBD(h)
  \/ Disconnect(h)

Next ==
  \/ \E h \in Handlers : Request(h) /\ UNCHANGED qemuVars
  \/ \E h \in Handlers : Step(h)
  \/ Restart

Spec == Init /\ [][Next]_vars

(* The stages of an unpublish end, whatever becomes of publishes. *)
UnpublishStep(h) == op[h] = "unpublish" /\ Step(h)

Fairness == \A h \in Handlers : WF_vars(UnpublishStep(h))

FairSpec == Spec /\ Fairness

(***************************************************************************)
(* Those of a publish do, too, when no command hangs: the waits poll 30    *)
(* times, but qemu-img, qemu-nbd and blockdev have no timeout.             *)
(* NBDConnectLock is a sync.Mutex, which hands itself to the longest       *)
(* waiter after a millisecond, so a waiter is not overtaken for ever.      *)
(***************************************************************************)
CommandsEnd == \A h \in Handlers : WF_vars(Step(h)) /\ SF_vars(LockNBD(h))

-----------------------------------------------------------------------------
(* Properties *)

(* Every variable has the values the code can give it. *)
TypeOK ==
  /\ NodeTypeOK(Stages)
  /\ attached \in [Devices -> Volumes \cup {NoVolume}]
  /\ nbdLock \in Handlers \cup {NoHandler}
  /\ image \in [Volumes -> Images]
  /\ harmed \subseteq Volumes
  /\ excused \subseteq Devices

(* NBD.allocate looks for a device without a pid file and qemu-nbd is run  *)
(* on it later: what was found free is still free then, and until Connect  *)
(* returns nobody else's image appears on it, so waitForPID reads the pid  *)
(* of the right process.                                                   *)
AllocatedDeviceIsOurs ==
  \A h \in Handlers :
    /\ pc[h] = "attach" => attached[dev[h]] = NoVolume
    /\ pc[h] = "settle" => attached[dev[h]] \in {NoVolume, vol[h]}

(* A volume is served when its config and the file the container runtime   *)
(* reads name the device its image is on.                                  *)
Served(v) ==
  \E d \in Devices :
    /\ attached[d] = v
    /\ config[v] = Written(d)
    /\ output[ClaimOf[v]] = Written(d)

(* From the moment NodePublishVolume returns OK until an unpublish of the  *)
(* volume begins, it is served, whatever fails, is repeated or restarts,   *)
(* unless the handler of ANOTHER volume disconnected its device.           *)
PublishedServed ==
  \A v \in Volumes \ harmed : view[v] = "published" => Served(v)

(* Disconnect never tears down the device of a volume other than the one   *)
(* its handler locked.                                                     *)
NoHarm == harmed = {}

(* After NodeUnpublishVolume returned OK the config on disk names no       *)
(* device until the next publish, however the unpublish is repeated: a     *)
(* late duplicate disconnects nothing.                                     *)
UnpublishedForgetsDevice ==
  \A v \in Volumes : view[v] = "unpublished" => config[v].dev = NoDevice

(* The overlay of a volume is never created again once a guest may have    *)
(* written to it.                                                          *)
ImageKept == [][\A v \in Volumes : image[v] = "used" => image'[v] = "used"]_vars

(* A device in use is named by the config of its volume, where unpublish   *)
(* will find it, or by the handler at work on the volume.  The only ways   *)
(* to leak one are a disconnect that failed, whose error Disconnect        *)
(* swallows, and a process that ended with the device in a handler's hand. *)
Tracked(d) ==
  \/ config[attached[d]] = Written(d)
  \/ \E h \in Handlers : vol[h] = attached[d] /\ dev[h] = d

NoSilentLeak ==
  \A d \in Devices : attached[d] # NoVolume => Tracked(d) \/ d \in excused

(* NodeUnpublishVolume can load a volume from its files when its publish   *)
(* returns OK, and from then on as long as the caller takes it for         *)
(* published: files that a write error or a restart tore belong to a       *)
(* volume that is not, or that another volume's handler disconnected.  The *)
(* exception is the type file, which a repeated publish writes anew.       *)
Loadable(v) == typeFile[v] = "written" /\ config[v].state = "written"

RewritingType(v) == \E h \in Handlers : pc[h] = "new" /\ vol[h] = v

PublishedLoadable ==
  [][\A v \in Volumes \ harmed :
       view'[v] = "published" /\ ~ Loadable(v)'
         => view[v] = "published" /\ (Loadable(v) => RewritingType(v))]_vars

(* NodePublishVolume returns OK only while the volume is on its device. *)
PublishOkMeansAttached ==
  [][\A h \in Handlers :
       pc[h] = "output" /\ op[h] = "publish" /\ pc'[h] = "idle"
         => attached[dev[h]] = vol[h]]_vars

(* NodeUnpublishVolume knows the volume by its name only; the device it    *)
(* finds under that name serves that volume, or nobody.                    *)
UnpublishFindsOwnDevice ==
  \A h \in Handlers :
    pc[h] = "disconnect" /\ dev[h] # NoDevice
      => attached[dev[h]] \in {NoVolume, vol[h]}

(* Every request is answered, if no command hangs. *)
RequestsAnswered == CommandsEnd => \A h \in Handlers : Active(h) ~> Idle(h)

(* An unpublish is answered even if a command of another volume's publish  *)
(* hangs for ever and NBDConnectLock with it: a device can always be given *)
(* back.                                                                   *)
UnpublishesAnswered == \A h \in Handlers : op[h] = "unpublish" ~> Idle(h)

(* A caller that keeps asking for a volume to be unpublished gets through  *)
(* to TryAcquire: it retries after every Aborted.                          *)
Unpublishing(v) ==
  \E h \in Handlers : NodeUnpublishVolume(h, v) /\ UNCHANGED qemuVars

CallersRetry == \A v \in Volumes : SF_vars(Unpublishing(v))

(* A volume that was published can be taken down again by retrying its     *)
(* unpublish, though commands that connect or disconnect devices fail and  *)
(* whoever else publishes it or competes for the devices.  It is taken     *)
(* down for its caller: a failed disconnect may leave its device in use.   *)
PublishedCanBeWithdrawn ==
  CommandsEnd /\ CallersRetry =>
    \A v \in Volumes : view[v] = "published" ~> view[v] = "unpublished"

(* The concurrency the caller sees is that of SerialVolumes: however       *)
(* requests interleave, fail or are cut off, a handler begins to work on a *)
(* volume only when no other handler does.                                 *)
ImplementsSerialVolumes == Serial!Spec

(* While nothing fails, that is all the caller sees: of devices named in   *)
(* files, of looking for a free one and of connecting and disconnecting    *)
(* them in several steps nothing shows but what VolumeDevices does.  A     *)
(* failing command or a restart breaks this, see NoHarm.                   *)
Store == INSTANCE VolumeDevices
  WITH working <- vol, lost <- {attached[d] : d \in excused}

ImplementsVolumeDevices == Store!Spec

=============================================================================
