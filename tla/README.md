# extrootfs in TLA+

extrootfs is a Kubernetes CSI driver that prepares block devices to be used as
the root file systems of containers. A pod names a claim; before its container
starts, kubelet asks the driver on the node to *publish* the volume. The driver
connects a device - a qcow2 overlay through qemu-nbd, or an iSCSI disk - and
writes the device's name to a file the container runtime reads. When the pod is
gone kubelet asks it to *unpublish* the volume.

The modules here model that program, TLC checks them on small instances, and
TLAPS proves the theorems of the `*Proofs` modules for instances of every size.

## 1. The system

| part | source | state | operations |
|---|---|---|---|
| volume locks | `pkg/utils/lock/idlocker.go`, `VolumeLocks` | the set of volume IDs being worked on, under a mutex | `TryAcquire`, `Release` |
| node service | `pkg/driver/nodeservice.go` | none but its handlers' locals | `NodePublishVolume`, `NodeUnpublishVolume` |
| root file system files | `pkg/driver/types.go` | per volume, the type file and the config; per claim, the output file | `NewRootFS`, `LoadRootFS`, `WriteOutput` |
| QEMU root file system | `pkg/driver/qemu.go` | a `QEMURootFS` object per request | `Allocate`, `Connect`, `WriteConfig`, `Disconnect` |
| QEMU images | `pkg/utils/qemu/image.go` | overlay files | `ImageInfo`, `CreateImageFromBase` |
| NBD devices | `pkg/utils/qemu/nbd.go` | the kernel's NBD devices, `NBDConnectLock` | `Connect`, `Disconnect`, `allocate`, two waits |
| iSCSI root file system | `pkg/driver/iscsi.go` | an `ISCSIRootFS` object per request | as for QEMU |
| iSCSI sessions, reservations | `pkg/utils/iscsi/iscsi.go` | the node's sessions; registrations and the reservation on each LUN | `AttachDisk`, `ReopenDisk`, `DetachDisk`, `PreemptLUN` |
| operation locks | `pkg/utils/lock/idlocker.go`, `OperationLock` | a counter per operation and volume | `Get...Lock`, `Release...Lock`; no caller |
| controller service | `pkg/driver/controllerservice.go` | none | `CreateVolume`, `DeleteVolume` only validate |
| gRPC server | `pkg/csi-common/server.go`, `utils.go` | a wait group, the server, its socket file, a request counter | `Start`, `Wait`, `Stop`, `ForceStop`, `serve`, three interceptors |
| driver start-up | `cmd/main.go`, `pkg/driver/driver.go` | flags and capabilities, set once | `Run`, `NewServers` |
| identity, default services | `pkg/csi-common/*.go` | none | constant answers |
| logging | `pkg/utils/log` | log files | formatting; `GzipLogFile`, no caller |

How they interact. The process sets up its services, starts the goroutine `serve`,
which listens on the endpoint, and waits. gRPC runs each request in a goroutine of
its own, through a chain of interceptors: `contextIDInjector` numbers it, `logGRPC`
logs the call and its outcome, `panicHandler` recovers. A handler
takes the lock of its volume with `TryAcquire` (and answers `Aborted` if another
handler has it), builds a `RootFS` object from the request (publish) or from the
files of an earlier publish (unpublish), calls its methods one after the other,
and releases the lock by a `defer`. Handlers of different volumes share the node:
NBD devices or iSCSI sessions, and the output directory. `NBDConnectLock`
serialises connecting NBD devices; disconnecting them takes no lock. Drivers of
different nodes meet at the target: a publish with `preempt-lun` makes its node the
owner of the LUN by up to four SCSI persistent reservation commands.

What is hard here: handlers of different volumes interleaving between looking
for a device and taking it, and between losing it and cleaning up after it;
commands and writes that fail half way, with errors that are swallowed; kubelet
repeating calls; the driver restarting between a device and the file that names
it, while the qemu-nbd processes live on; nodes taking a LUN from each other with
commands that time out after they took effect; a process that ends at any point of
its start, its service or its stop, and the next one that has to get by with the
socket it left. `PROJECT.json` lists these hazards one
by one, with the lines where they bite.

What makes the parts correct:

- locks: one handler per volume, and every path gives the lock back;
- files: a published volume's config and output name the device it is on, can be
  read back, and are forgotten by an unpublish;
- devices: a device found free is still free when it is taken; nothing
  disconnects a device in use by another volume; no device is leaked silently;
- images: an overlay is created once;
- sessions: none stays behind that no config and no handler knows of, and
  connecting or disconnecting one disk leaves the others alone;
- reservations: one guest at a time writes to a LUN, and `PreemptLUN` takes it only
  while it is free or with the owner whose key it has read;
- server: requests are answered and logged whatever their handler does, their ids
  order them, and the driver comes back however its process ended;
- operation locks: conflicting operations never run together, parallel ones are
  counted, and a key goes with its last holder;
- requests end, and a published volume can be taken down again.

## 2. The modules

| module | what it is |
|---|---|
| `VolumeLocks` | type `VolumeLocks`: one variable, one action per method |
| `SerialVolumes` | abstract: each handler works on at most one volume, no two on the same |
| `VolumeDevices` | abstract: what a publish and an unpublish promise about the device of a volume |
| `NodeServer` | the handlers of the node service and the files of `types.go`, whatever the kind of root file system; extends `VolumeLocks` |
| `QemuNode` | `NodeServer` with the QEMU root file system, images and NBD devices |
| `ISCSINode` | `NodeServer` with the iSCSI root file system and the node's sessions |
| `OperationLock` | type `OperationLock` and goroutines that get and release its locks |
| `LunOwner` | abstract: a call looks who owns the LUN and takes it in one step, from that owner or from nobody |
| `Reservation` | `PreemptLUN` of several nodes against one LUN, command by command |
| `GRPCServer` | the driver's process: start, `serve`, stop, the way of requests through the interceptors |
| `MCQemuNode`, `MCISCSINode`, `MCOperationLock`, `MCReservation` | instances for TLC |
| `NodeServerProofs` | lemmas every node service built on `NodeServer` can use |
| `QemuNodeProofs` | types, exclusion, refinement, `NBDConnectLock` |
| `QemuServedProofs` | what the caller is promised: served, loadable, forgotten, released, kept, not leaked; when nothing is harmed; `QemuNode` implements `VolumeDevices` |
| `ISCSINodeProofs` | types, exclusion, refinement of `ISCSINode` |
| `ISCSIServedProofs` | no session leaks silently; published volumes stay served; `ISCSINode` implements `VolumeDevices` |
| `OperationLockProofs` | keys, counters, which operations exclude each other |
| `ReservationProofs` | one writer; `Reservation` implements `LunOwner`; when nil means owner |
| `GRPCServerProofs` | panics, log lines, request ids, the course of a process |

`QemuNode` and `ISCSINode` are the two ways to compose the lock, the handlers and
a root file system. Both implement `SerialVolumes`, which is about the lock, and
`VolumeDevices`, which is about devices: `ISCSINode` whatever fails, if each volume has a
target of its own, `QemuNode` while nothing fails. `Reservation` is what the one step
`PreemptLUN` of `ISCSINode` consists of, seen from the target. `GRPCServer` is what
surrounds the handlers; its `Handle` stands for a whole run of one.

### State and actions

`pc[h]` is the call a handler is about to make; `op`, `vol` and `dev` are the
locals that matter: the RPC, `rootfsID`, and the device in the `RootFS` object
(`Device` and `NBD.DevicePath`, which the code sets and clears together except
after a failed connect, where it is `NBD.DevicePath` that cleanup uses). A
publish goes through

    new -> allocate [-> create] -> nbdlock -> attach -> settle -> config -> output

and, from `nbdlock` on, on any error to `cleanup`, which is the `Disconnect` of
`NodePublishVolume`'s error paths; an unpublish through

    load -> disconnect -> config -> output.

One action is one call that touches something shared or kept: a file, a device,
a lock. Everything a handler does between two of them is part of the action
before. `NBD.Connect` is three actions, because what it does takes time and
other handlers can disconnect devices meanwhile: `LockNBD` (lock and
`allocate`), `AttachNBD` (`qemu-nbd --connect`), `SettleNBD` (the wait,
`blockdev`, unlock).

`ISCSINode` replaces the middle of a publish by

    allocate [-> close] -> login [-> preempt] -> config

`allocate` stands for the start of `Connect` (`Allocate` of this kind does nothing):
`GetSession` decides whether `ReopenDisk` closes an old session, and panics on a
session whose IQN it cannot split, which ends the request but for the deferred
`Release`; `login` is `AttachDisk`; `preempt` is `PreemptLUN`, of which only the
outcome matters here. `CloseSession` ends what the caller of a repeated publish may
rely on (`view`), since it takes the disk from a running guest by design.
`dev[h]` stands for `ISCSIDisk` and the device path in it, which the code sets
together, when `Connect` succeeds or `LoadISCSIRootFS` reads them. Sessions belong to
targets, and logging in or out makes or removes the devices of all LUNs of the
target; the kernel chooses their names.

`Reservation` has one action for each `sg_persist` command of `PreemptLUN`, with
the branches the code takes on its answer and, for commands that change the target,
what the target does: `ReadKeys`, `Register`, `ReadReservation`, `Reserve`,
`Preempt`. `ownerKey` is the local variable that is read in one command and used in
a later one. `serving` are the nodes whose guest may write, `stale` is history. Seen
through `LunOwner` a call is a `Call`, a `Look` when it reads the key of another owner, and
one `Succeed`, `SucceedInVain` or `Fail`: a compare-and-swap on the owner, where `seen`, the
owner to compare with, is the node that `ownerKey` is the key of (`Rival`). It is not an
honest one. The preempt command is obeyed as long as somebody is *registered* with the
key; if the LUN has gone to a third node since and the node of the key has registered
again, the command removes that registration, moves no reservation and returns no
error. `PreemptLUN` then returns nil for a node that has not owned the LUN at any moment of the
call. `LunOwner` says so (`SucceedInVain`) and allows it in no other case.

`GRPCServer` keeps the main goroutine (`main`), `serve`, the wait group and `s.server`
apart, because `Stop` may come at any point of the start; `socket` is the file the
process leaves behind. A request goes inward and outward through `Middleware`, the
chain of `NewMiddlewareServerOption`, one interceptor an action; `contextIDInjector`
takes two, since it adds to `id` and reads it in two steps. `Die` ends the process with
all its goroutines. `klog.Fatal`, a panic that nobody recovers and a signal are the
ways to get there; kubelet starts the next process with the same flags. `names` tells
whether `--nodeid` and `--drivername` are given, without which `NewCSIDriver` makes no driver
and no process gets beyond `setup`. The scheme
of the endpoint is parsed without regard to case but passed to `net.Listen` as it
is, which refuses `UNIX` or `TCP`: such a driver never serves (`"upper"`).

`VolumeDevices` has no files, stages or commands: a handler works on a volume, its
devices appear (`Connect`) and go (`Disconnect`) in one step, and the answers say what holds
of them. `working` is `vol`; `attached` and `view` are the variables of the same names. `lost` are the
volumes whose device a disconnect may leave behind: those on an `excused` device, or, for iSCSI,
whose target is excused. A publish with OK has its volume on a device and not `lost`; an
unpublish with OK has it on none, or `lost`.

`OperationLock` has one action for each outcome of its methods, which run under
one mutex: `tryAcquire`, `Refused`, `release`. `held` is what each goroutine got
and has yet to release; `Serialised` names the operations that callers never run
twice at a time on a volume (nothing in the repository calls this type).

Data are cut down to what the properties distinguish. The content of a config or
output file is the device it names, or that it is absent or torn; an overlay is
absent, partial, fresh or used; NBD devices are numbers in the order `Glob` lists
them; a claim is a model value, `ClaimOf` gives each volume its own. Requests that
`validateNodePublishVolumeRequest` refuses change nothing and are left out. What the
constructors refuse, a LUN that is no number, they refuse after the type file has been
written: that is `ErrorLun`.

History variables stand for nothing the program keeps. In the node services: `view`
(what the caller may believe about a volume: a publish or unpublish returned OK, or
one is under way or failed), `harmed` (volumes whose device a handler of another
volume tore down, until they are published again) and `excused` (devices, or for iSCSI
targets, in use because a disconnect failed or a handler held them when the process
ended; for iSCSI also because `AttachDisk` failed, until the next one succeeds). Only
`view` is read by a guard, for callers that do not repeat a successful publish.

### Faults

`Faults` selects what the environment may do. In the node services: `io`: a file
operation fails, and a write may leave the file truncated. `image`: `qemu-img` fails,
leaving no, a partial or a complete overlay. `exec`: connecting a device, or the wait
after it, fails. `detach`: disconnecting fails, which the code logs and forgets.
`republish`: kubelet repeats a publish that succeeded. `foreign`: the node has a
session of somebody else with an IQN that makes `parseSessions` panic. `context`: the volume
context of a publish has an iSCSI LUN that is no number. `restart`:
the process ends at any point, writes and `qemu-img create` cut off, and a new one
starts without handlers and locks; any set of `qemu-nbd` processes, or of iSCSI
sessions, survives. In `Reservation`: `timeout`: `sg_persist` is killed or fails, before
or after the target carried the command out; `target`: the target restarts; `restart`:
a driver ends inside a call. In `GRPCServer`: `io`: a directory, socket or listener fails;
`signal`: the process is killed. Stops are a constant of their own, for nothing in the
repository calls `Stop` or `ForceStop`.

Assumed of programs outside the repository: a device has a pid file exactly while
a `qemu-nbd` serves an image on it; `qemu-nbd` refuses an image another one has
open (QEMU's image locking) and a device in use; `qemu-nbd --disconnect` frees the
device whoever uses it. `iscsilib.Connect` uses a session that exists and otherwise
logs in; when it fails, or finds no path, a session it made may stay; `Disconnect`
logs out of the target with all its LUNs. The target keeps persistent reservations
as SPC-3 says: type 3 lets the holder alone write; a preempt removes all
registrations with the given key, passes the reservation on if its holder is among
them, and is a conflict when there is none or the sender is not registered itself. The driver does not set
APTPL, so a target that restarts forgets both. `grpc.Server` (v1.59) runs each request in
a goroutine, recovers no panic and removes a Unix socket when it closes its
listener, which a killed process does not.

## 3. What is checked

Two handlers are enough for two requests to race, two volumes to be in each
other's way, two devices to have one found free while the other is in use; a
third volume, or a single device, makes the devices scarce. Three nodes are one that
reads the owner, the owner, and one that takes the LUN in between. Four clients are the
two holders and two newcomers of any overlap of operations. Two requests are one
that is counted while the other reads its id (three, with 3.5 million states, show the
same). Handlers, clients, nodes, the volumes of `QemuNode` and `OperationLock` and the
devices of `ISCSINode` are interchangeable: the runs of invariants, action properties and
refinement reduce by that symmetry, those with fairness do not. No bound is set on a
counter: a
request is counted once, so `id` ends at the number of requests. All state is finite. Deadlock is
checked in every run.

| run | instance | shows |
|---|---|---|
| `qemu_faults` | 2 volumes, 2 handlers, 2 devices, all faults | `TypeOK`, `VolumeExclusion`, `AllocatedDeviceIsOurs`, `PublishedServed`, `UnpublishedForgetsDevice`, `NoSilentLeak`, `PublishedLoadable`, `ImageKept` |
| `qemu_concurrent` | 3 volumes, 2 handlers, 2 devices, no faults | `NoHarm`, `UnpublishFindsOwnDevice`, `PublishOkMeansAttached`: concurrency alone is harmless; and that `QemuNode` implements `SerialVolumes` and `VolumeDevices` |
| `qemu_live` | 1 device, failing commands, repeated publishes, fair | `UnpublishesAnswered`, `RequestsAnswered`, `PublishedCanBeWithdrawn` |
| `iscsi_faults` | 2 volumes with a target each, one of them preempting, 2 handlers, all faults | `TypeOK`, `VolumeExclusion`, `PublishedServed`, `NoSilentLeak`, and that `ISCSINode` implements `SerialVolumes` and `VolumeDevices` |
| `reservation` | 3 nodes with keys of their own, all faults | `TypeOK`, `AtMostOneWriter`, and that `Reservation` implements `LunOwner` |
| `grpc_server` | 2 requests, all flags, stops and faults, fair | `TypeOK`, `RequestIDsOrdered`, `AnswersLogged`, `PanicOnlyBeforeServer`, `DriverComesBack` |
| `operation_locks` | 2 volumes, 4 clients, deletes and expands serialised | `TypeOK`, `ConflictsExcluded`, `ConflictsRefused`, `NoOrphanLock`, `CountersMatch` |
| `qemu_cleanup_race` | 2 handlers, failing connects | **violated**: `PublishOkMeansAttached` |
| `qemu_stale_config` | 1 handler, restarts | **violated**: `UnpublishFindsOwnDevice` |
| `iscsi_shared_target` | 1 handler, 2 volumes of one target, no faults | **violated**: `PublishedServed` |
| `operation_delete_twice` | 3 clients, nothing serialised | **violated**: `RestoreMeansNoDelete` |
| `grpc_wait` | 1 request, `Stop` | **violated**: `WaitReturns` |

`PublishedLoadable` is about steps, for a repeated publish *can* make a volume in use
unloadable: every publish truncates the type file and writes it again, and when
that write fails the volume cannot be unpublished any more. What it says is that
nothing else can. `PublishedServed` of `ISCSINode` holds from the answer of a publish to
the moment a repeated one closes the session, and again from that one's answer.

The violated runs are disagreements between the code and what its comments and
examples say of it:

1. *Cleanup race.* Handler A's `qemu-nbd --connect /dev/nbd0` fails; `Connect`
   returns and unlocks. Handler B finds nbd0 free, connects its volume and is about to
   answer OK. A's cleanup now runs `qemu-nbd --disconnect /dev/nbd0`. B's volume
   is announced on a device that serves nothing. It takes a failure *and*
   concurrency: without failures `qemu_concurrent` finds no harm.
2. *Stale config.* An unpublish disconnects nbd0 and the driver ends before the
   config is rewritten. Another volume is published and gets nbd0. kubelet repeats
   the unpublish, which loads nbd0 from the config and disconnects it.
3. *Shared target.* Two volumes are LUN 0 and LUN 1 of one target. Publishing the
   second finds a session of the target and closes it, as `ReopenDisk` does to get a
   fresh one: the first volume's disk is gone. A comment says that the LUN is fixed
   at 0, with which it could not happen; the code takes it from the volume context.
4. *Two deletes.* `tryAcquire` sets the counter of a delete to 1 instead of adding
   to it and does not refuse a second one, so the first release removes the key of
   both, and a restore is let in beside the delete that remains.
5. *Wait.* `Start` adds one to the wait group and nothing takes it away: after a `Stop` the
   server is drained, `serve` returns, and `Wait`, "to wait for the service to stop", does
   not. A process that was stopped in order serves nothing and does not end either.
   `WaitNeverReturns` proves that this is so in every run of the program, not only in this one.

`PublishedServed` of `QemuNode` is about every volume that is not `harmed`, so 1 and
2 do not hide other ways to break it, and `NoHarm` is what fails when they happen.

Met on the way, without a run of their own: volumes whose claims have the same
name in two namespaces share an output file (`types.go:80`), which is why
`PublishedServed` is stated with a claim for each; `GetDeleteLock` does not look for clones
(`idlocker.go:133`) although its comment says so, and a create does not look for an
expand (`idlocker.go:113`) although an expand looks for a create, so
`ConflictsExcluded` promises neither (`ConflictsRefused` has what is left of the second: an expand
does not start beside a create); with three nodes `PreemptLUN` can return nil for a node that
never owned the LUN (`iscsi.go:248`, see above), which nothing in the repository rules out, for
nothing says what its nil means. The guest of such a node cannot write: `AtMostOneWriter`
holds all the same.

What some properties leave out on purpose, because the code does not provide it:
`NoSilentLeak` excuses what a failed disconnect, logout or attach and a restart leave in use;
`AtMostOneWriter` excuses the guests that were there when the target restarted, among
themselves; `PublishedLoadable` excuses the publish that rewrites the type file;
`PublishedServed` of `ISCSINode` excuses a repeated publish until its answer;
`PanicOnlyBeforeServer` names the one panic there is. The theorems `NothingLeaks` and `OneWriter`
say the same without the excuse, for environments in which it is not needed.

**Fairness.** `FairSpec` of `QemuNode` only assumes that the stages of an unpublish end:
`qemu-nbd --disconnect` waits for nothing, and the wait after it polls 30 times. That is
enough for `UnpublishesAnswered`, though a publish hangs in a command with
`NBDConnectLock` in its hand for ever. `RequestsAnswered` and `PublishedCanBeWithdrawn` have the
premise `CommandsEnd`: the stages of a publish end, too (commands are run without a
timeout, so this is an assumption and not a fact), and strong fairness of `LockNBD`: a Go
`sync.Mutex` hands itself to the longest waiter after a millisecond, so a waiter is not
overtaken for ever. `PublishedCanBeWithdrawn` has another premise, `CallersRetry`: a caller's
unpublish gets through to `TryAcquire` when it could infinitely often. No request is
assumed to be made otherwise.

`Fairness` of `GRPCServer`: goroutines run, handlers return, kubelet restarts the container.
`DriverComesBack` has premises of its own: names, an endpoint one can listen on, directories
and sockets that do not fail for ever (`EnvironmentRecovers`), and an end of signals and stops at
some time.

## 4. What is proved

For all sets of volumes, handlers, devices, claims, targets and all `Faults`, from
the assumptions `NodeAssumption`, `QemuAssumption`, `ISCSIAssumption` (model
values are distinct, NBD devices are numbers, every volume has a claim and a
target), `OperationAssumption` (finitely many clients), `ReservationAssumption` and
`ServerAssumption` (again only what kind of values the constants are):

| module | theorem | states |
|---|---|---|
| `QemuNodeProofs` | `TypeCorrect` | `Spec => []TypeOK` |
| | `VolumeExclusionHolds` | `Spec => []VolumeExclusion` |
| | `SerialRefinement` | `Spec => Serial!Spec` |
| | `AllocatedDeviceIsOursHolds` | `Spec => []AllocatedDeviceIsOurs` |
| `QemuServedProofs` | `UnpublishedForgetsDeviceHolds` | `Spec => []UnpublishedForgetsDevice` |
| | `PublishedServedHolds` | `Spec => []PublishedServed`, if claims are distinct |
| | `PublishedLoadableHolds` | `Spec => PublishedLoadable`, if claims are distinct |
| | `ImageKeptHolds` | `Spec => ImageKept` |
| | `NoSilentLeakHolds` | `Spec => []NoSilentLeak` |
| | `UnpublishedReleased` | an unpublished volume is on no device that is not excused |
| | `NothingLeaks` | every device in use is tracked, without `detach` and `restart` |
| | `NoHarmHolds`, `UnpublishFindsOwnDeviceHolds` | `Spec => []NoHarm`, `Spec => []UnpublishFindsOwnDevice`, if `Trustworthy` |
| | `PublishOkMeansAttachedHolds` | `Spec => PublishOkMeansAttached`, if `Faults = {}` or there is one handler |
| | `VolumeDevicesRefinement` | `Spec => Store!Spec`, if `Faults = {}` |
| `ISCSINodeProofs` | `TypeCorrect`, `VolumeExclusionHolds`, `SerialRefinement` | as for `QemuNode` |
| `ISCSIServedProofs` | `NoSilentLeakHolds` | `Spec => []NoSilentLeak`, shared targets included |
| | `OwnTargetServed` | a published volume with a target and a claim of its own is served, whatever the others share |
| | `PublishedServedHolds` | `Spec => []PublishedServed`, if claims and targets are distinct |
| | `UnpublishedReleased` | there is no session with the own target of an unpublished volume that is not excused |
| | `NothingLeaks` | every session is tracked, without `exec`, `detach` and `restart` |
| | `VolumeDevicesRefinement` | `Spec => Store!Spec`, if targets are distinct |
| `OperationLockProofs` | `TypeCorrect` | `Spec => []TypeOK` |
| | `NoOrphanLockHolds`, `CountersMatchHolds` | `Spec => []NoOrphanLock`, `Spec => []CountersMatch`, whatever is serialised |
| | `Exclusion` | no operation starts while one it looks for is under way, if that one is counted or serialised |
| | `ConflictsRefusedHolds` | `Spec => ConflictsRefused`, if deletes and expands are serialised |
| | `ConflictsExcludedHolds` | `Spec => []ConflictsExcluded`, if deletes and expands are serialised |
| | `RestoreMeansNoDeleteHolds` | `Spec => []RestoreMeansNoDelete`, if deletes are serialised |
| `ReservationProofs` | `TypeCorrect` | `Spec => []TypeOK` |
| | `AtMostOneWriterHolds` | `Spec => []AtMostOneWriter`, whatever the keys |
| | `OneWriter` | at most one node writes, under a reservation, if the target does not restart |
| | `LunOwnerRefinement` | `Spec => Owner!Spec`, if nodes have keys of their own |
| | `NilOwnsLUN` | a nil from `PreemptLUN` finds its node with the reservation, if there are two nodes with keys of their own |
| `GRPCServerProofs` | `TypeCorrect` | `Spec => []TypeOK` |
| | `PanicOnlyBeforeServerHolds`, `AnswersLoggedHolds`, `RequestIDsOrderedHolds` | the invariants of these names |
| | `WaitNeverReturns` | the wait group's counter is 1 whenever `main` waits |
| | `SocketRemoved` | no socket is in the way when `serve` listens on a unix endpoint |
| | `PanicLosesNothing` | a step that ends the process in a panic changes no request |

The conditions are needed, and TLC has a counterexample without each:

- Shared targets: `iscsi_shared_target` breaks `PublishedServed` of `ISCSINode`.
- Deletes or expands that callers do not serialise: `operation_delete_twice` breaks
  `RestoreMeansNoDelete`, and with it `ConflictsExcluded`.
- `Trustworthy` is: no faults, or one request at a time, no `io` and no `restart`. With two
  handlers each fault alone breaks `NoHarm`, for each leads to a publish whose cleanup is
  for a device that somebody else may have by then (`qemu_cleanup_race`). With one
  handler a restart does (`qemu_stale_config`), and so does a `WriteOutput` that fails:
  the config is written by then and names a device that the cleanup gives up.
  `PublishOkMeansAttached` cannot be broken by one handler: nobody disconnects its
  device before it answers.
- Two nodes with one host name have one key, and each then takes the other's reservation
  for its own, so `PreemptLUN` returns nil without having taken anything:
  `LunOwnerRefinement` is false for them. The guests still do not both write, which
  is the target's doing (`AtMostOneWriter`).
- With three nodes a call may return nil in vain (`SucceedInVain`), so `NilOwnsLUN` needs two.
- A target that restarts forgets the reservation while guests go on writing, which
  `OneWriter` excludes and `AtMostOneWriter` excuses (`stale`).

The argument for `QemuNode` has layers, each an inductive invariant relative to those below:

- *Control* (`ControlInv`). As far as `locks`, `pc`, `op` and `vol` go, every action
  lets one handler start, advance or finish, or resets all of them. Each of
  these keeps `VolumeExclusion` and maps to `Begin`, a stutter, `End` and `Abandon`
  of `SerialVolumes`. What is added is that a handler has a volume exactly while
  it is active.
- *Types* (`TypeInv`).
- *NBDConnectLock* (`NBDInv`). A handler is at `attach` or `settle` exactly while it
  holds the lock, with a device in hand; only the holder puts an image on a
  device, all others can only take one off.
- *Handlers' knowledge* (`KnowInv`). What is true of a handler's device, config
  and `view` at each stage. By exclusion nobody else touches the files of its
  volume, so what it knows stays true (`StepUntouched`).
- *Serving* (`ServedInv`). A publish of a volume that is already served never gets past
  `attach`, since its image is in use, and its cleanup frees a device that is not
  the volume's; one that gets past it either keeps its device or is `harmed`.
  `PublishedServed` is not inductive without this (`DeviceMatches`).
- *Creating* (`CreatesAbsent`). `qemu-img create` runs only for a volume without
  overlay, from `os.Stat` until it ends.
- *Loading* (`TypeWritten`). From `NewRootFS` on a publish has its type file on disk; no handler
  writes the config of a published volume that is not harmed (`NoWriter`).
- *Leaks* (`LeakInv`). An image is on one device at a time, for qemu-nbd locks it. A
  publish that connected a device has all its volume is on in hand; an unpublish
  has loaded the one the config names, and after `Disconnect` what is left is
  excused. Without this `NoSilentLeak` is not inductive: the config could be
  rewritten while it is the last to name a device.
- *Calm* (`CalmInv`), without faults. The config of a volume that no handler is connecting or
  disconnecting names the device it is on, and no other. So an unpublish finds its
  own device, a publish has none yet, only `LoadRootFS` (of a volume on no device) and
  `LockNBD` (for want of one) can fail, and neither leaves a device to clean up.
  With faults each half breaks: see the two violated runs of `QemuNode`.
- *Solo* (`SoloInv`), with one handler, for faults other than `io` and `restart`. A config that
  names a device names the one its volume is on, but between `Disconnect` and the
  rewriting of the config (`NamesOwn`); what a failed connect leaves to clean up is the
  volume's own device or nobody's, and no config's (`CleansOwn`). `CalmInv` would not do:
  after a failed disconnect a volume is on a device that its config does not name.
- *Quiet* (`QuietInv`), without faults: nothing is excused, and nobody works on a
  published volume. It is what the steps of `VolumeDevices` ask of `lost` and `view`, which
  `CalmInv` does not speak of. The refinement then goes action by action: `NodeServer`'s are
  `Begin`, an answer or a stutter, `AttachNBD` is `Connect`, `Disconnect` of an unpublish is
  `Disconnect`.

`ISCSINode` has the same first two layers, from the same lemmas of
`NodeServerProofs`, and on them:

- *Sessions* (`LeakInv`). Each session is tracked or excused. What makes it inductive
  is that the handler that forgets a device (`Forgetting`) has logged out or excused
  the target in the step before, and that whoever opened a session keeps it in
  hand until the config names it (`OwnKept`), while the others' configs and
  hands stay as they are (`OthersAccounted`).
- *Devices* (`DeviceInv`). There are devices only of targets the node is logged in to
  (`SessionHasDevices`). With a target of its own (`OwnTarget`) only the handler that
  holds the volume's lock can take its LUN away, and whenever it does the volume
  is no longer, or not yet again, published.
- *Files* (`OutputInv`). Of a published volume with a claim of its own, too, config and output
  say the same. This is apart from the layer before, for `VolumeDevices` does not
  speak of outputs and is implemented when claims are shared.
- *Telling* (`ToldInv`). A volume that a publish works on is not unpublished for its caller, the
  config of an unpublished one names no device, and a disk in a publish's hand is not
  `excused`. With `DeviceInv` and `LeakInv` these are what the steps of `VolumeDevices` ask for:
  `AttachDisk` is `Connect` or, on a session that was left over, `Recover`; `DetachDisk` is
  `Disconnect` or `Lose`.
- *Completeness* (`Complete`), while commands succeed: each LUN of a target with a session has
  its device, so `AttachDisk` has no reason left to fail, and nothing is excused.

For `OperationLock`, `KeysInv` ties every key to its holders: a counted key's counter is
the number of holders, the key of a delete or expand is 1 and has at least one. A
key may disappear while a delete is under way, so this alone excludes nothing.
With an operation serialised there is at most one holder of it on a volume
(`AloneInv`), the key stays while it has one, and whoever comes later finds it. An
operation is `Exact` when it is counted or serialised: then it has a key exactly while
it has a holder, and no operation that looks for it starts meanwhile. That is `Exclusion`,
which is about one side: it does not matter whether the other looks back, is counted or
is serialised. `ConflictsRefused` is what it comes to for each operation. Two exact
operations that do look for each other therefore never run together, which is part of
`AloneInv`; `ConflictsExcluded` and `RestoreMeansNoDelete` are cases of that.

For `Reservation`, `ReservedInv` says that who serves since the target last restarted does so
under somebody's reservation, and that a registered node about to preempt faces one: the
target never drops a reservation but to pass it on, so no moment comes in which a
second guest could write. For the refinement, `OwnerKnown` says that a registered node about
to preempt faces another node as owner. If that one has the key that was read, it is the
node the call has looked at, for keys differ, and it is among the victims: the command
compares and swaps. If not, the command can only be in vain, or fail. Of two nodes, the one
that takes the LUN during a call has preempted the caller, whose next command is then refused:
that is `NilOwnsLUN`.

For `GRPCServer`, `ProcessInv` relates the goroutines and `ChainInv` says, for each depth in the
chain, what of a request's id and log lines is there and that a panic has not got past
`panicHandler`; `IDInv` that no id is greater than the counter, and that the ids of those
that were there before a request are smaller than the counter once it has counted itself.
`CourseInv` says how far `serve` has come when there is a server, when there can be requests,
and that the wait group is never given back.

Only model-checked: the liveness properties (`UnpublishesAnswered`, `RequestsAnswered`,
`PublishedCanBeWithdrawn`, `DriverComesBack`), which, like everything that depends on fairness,
are outside what the prover handles. Every other property of a passing run is proved. Of
the properties of the violated runs, `PublishOkMeansAttached`, `UnpublishFindsOwnDevice`,
`PublishedServed` and `RestoreMeansNoDelete` are proved under the conditions that exclude
the counterexample; of `WaitReturns` the opposite is proved.

## 5. Not modelled, and the plan

Not modelled for good: the controller, identity and default node services (no state:
they validate and answer), the wording of logs, flags and capabilities that never
change, manifests and the scripts under `hack/`. `Cleanup` (panics, no caller), `isNBDLoaded` and
`loadNBD` (their call is commented out), `CheckSessionState` (no caller). `GzipLogFile` has no caller.

Hazards without a property:

- An unpublish of a volume whose publish failed before `WriteConfig` finds no config and
  fails for ever (`qemu.go:112`). The code means it so; a caller gets out by publishing again,
  which is why `PublishedCanBeWithdrawn` starts from a published volume.
- What is left in use when the driver ends between `Connect` and `WriteConfig` (`nodeservice.go:51`)
  or `qemu-nbd --disconnect` fails (`qemu.go:95`): the code never finds it again, and
  `NoSilentLeak` excuses it.
- The repeated publish whose write of the type file fails (`types.go:89`) and the overlay that
  `qemu-img create` leaves half made (`qemu.go:52`): the code does not recover from either.
- Claims of one name (`types.go:80`): the condition of `PublishedServedHolds`.
- A delete beside a clone (`idlocker.go:133`), which the code lets in whichever comes first.
- The panic of an early `Stop` (`server.go:58`): the code has it, in no run is a request lost
  to it (`PanicLosesNothing`).
- `waitForPIDCleanup` may see the pid file of a volume connected meanwhile (`nbd.go:163`):
  its answer is ignored.
- Two nodes of one host name (`iscsi.go:271`): a fact about the cluster, and the condition of
  `LunOwnerRefinement`.

Next:

1. Proofs: `AtMostHarmed` tells what a fault may do to another volume; with it
   `VolumeDevices` could be stated for `QemuNode` with faults, where `Lose` may also strike
   the volume of a handler that has just connected it.
2. A node that serves volumes of both kinds at a time: `LoadRootFS` chooses the loader by
   the type file, which a publish of the same volume with another type rewrites.
3. `ISCSINode` with `Reservation` in place of its one-step `PreemptLUN`, and liveness of
   `ISCSINode`.
4. The premise of `PublishedCanBeWithdrawn` under write errors, which may make a volume
   unloadable: what a caller can still do about it.
