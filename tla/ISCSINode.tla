----------------------------- MODULE ISCSINode -----------------------------
(***************************************************************************)
(* The node service on a node whose root file systems are iSCSI disks:     *)
(* NodeServer with the RootFS of pkg/driver/iscsi.go and the sessions of   *)
(* pkg/utils/iscsi/iscsi.go.                                               *)
(*                                                                         *)
(* Outside the program: iscsiadm and the kernel.  A session is with a      *)
(* target, whatever LUN it was opened for.  Logging in makes a device of   *)
(* each LUN of the target, under names the kernel chooses; logging out     *)
(* removes them all.  iscsilib.Connect uses a session that already exists. *)
(***************************************************************************)
EXTENDS NodeServer

CONSTANTS
  Targets,        \* IQNs
  TargetOf,       \* extrootfs.io/iscsi/target in each volume's context
  Preempting      \* volumes with extrootfs.io/iscsi/preempt-lun = "true"

ASSUME ISCSIAssumption ==
  /\ TargetOf \in [Volumes -> Targets]
  /\ Preempting \subseteq Volumes

VARIABLES
  sessions,       \* the targets the node is logged in to
  attached,       \* the volume whose LUN each device is, if any
  excused         \* history: targets logged in to because a logout failed, whose
                  \*   error is dropped, because AttachDisk failed, or because a
                  \*   restart cut a handler off; until the next AttachDisk

iscsiVars == <<sessions, attached, excused>>
vars      == <<nodeVars, iscsiVars>>

Stages == {"new", "allocate", "close", "login", "preempt",
           "config", "output", "cleanup", "load", "disconnect"}

-----------------------------------------------------------------------------
(* Sessions *)

Luns(t)     == {v \in Volumes : TargetOf[v] = t}
FreeDevices == {d \in Devices : attached[d] = NoVolume}

(* The kernel's choices of a device for each LUN of t. *)
Namings(t) ==
  {f \in [Luns(t) -> FreeDevices] : \A v, w \in Luns(t) : f[v] = f[w] => v = w}

Named(f, d) == \E v \in DOMAIN f : f[v] = d

AttachLuns(t) ==
  \E f \in Namings(t) :
    attached' = [d \in Devices |-> IF Named(f, d) THEN CHOOSE v \in Luns(t) : f[v] = d
                                                  ELSE attached[d]]

RemoveLuns(ts) ==
  attached' = [d \in Devices |-> IF attached[d] \in UNION {Luns(t) : t \in ts}
                                   THEN NoVolume ELSE attached[d]]

(* Disk.DetachDisk: log out of the target; it drops the outcome. *)
DetachDisk(t) ==
  \/ /\ sessions' = sessions \ {t}
     /\ RemoveLuns({t})
     /\ excused' = excused \ {t}
  \/ /\ "detach" \in Faults
     /\ excused' = excused \cup ({t} \cap sessions)
     /\ UNCHANGED <<sessions, attached>>

-----------------------------------------------------------------------------
(* Connect.  Allocate of ISCSIRootFS does nothing. *)

(* parseSessions, on a session whose IQN has no colon. *)
ParseForeign(h) == "foreign" \in Faults /\ Panic(h)

(* ReopenDisk: GetSession tells whether there is an old session to close. *)
GetSession(h) ==
  /\ pc[h] = "allocate"
  /\ \/ /\ \/ Goto(h, IF TargetOf[vol[h]] \in sessions THEN "close" ELSE "login")
           \/ "exec" \in Faults /\ Goto(h, "cleanup")
        /\ UNCHANGED <<locks, op, vol, dev>>
     \/ ParseForeign(h)
  /\ UNCHANGED <<typeFile, config, output, view>>
  /\ UNCHANGED iscsiVars

(* In a repeated publish this closes the session under the guest: from now *)
(* on the caller has only the answer to come to go by.                     *)
CloseSession(h) ==
  /\ pc[h] = "close"
  /\ DetachDisk(TargetOf[vol[h]])
  /\ view' = [view EXCEPT ![vol[h]] = "unknown"]
  /\ Goto(h, "login")
  /\ UNCHANGED <<locks, op, vol, dev, typeFile, config, output>>

(* The device AttachDisk finds for v, once logged in. *)
Found(h, v) ==
  \E d \in Devices : attached'[d] = v /\ dev' = [dev EXCEPT ![h] = d]

AfterAttach(v) == IF v \in Preempting THEN "preempt" ELSE "config"

(* A slip in AttachDisk: success without a device path is accepted. *)
AttachDiskWithoutPath(h) ==
  /\ pc[h] = "login"
  /\ LET v == vol[h]
         t == TargetOf[v]
     IN  \/ /\ sessions' = sessions \cup {t}
            /\ IF t \in sessions THEN UNCHANGED attached ELSE AttachLuns(t)
            /\ Found(h, v)
            /\ excused' = excused \ {t}
            /\ Goto(h, AfterAttach(v))
         \/ /\ "exec" \in Faults
            /\ Goto(h, AfterAttach(v))
            /\ UNCHANGED <<dev, iscsiVars>>
  /\ UNCHANGED <<locks, op, vol, typeFile, config, output, view>>

(* AttachDisk.  It may fail although the login succeeded, before or after  *)
(* the devices show up, and the session then stays.                        *)
AttachDisk(h) ==
  /\ pc[h] = "login"
  /\ LET v == vol[h]
         t == TargetOf[v]
     IN  \/ /\ sessions' = sessions \cup {t}
            /\ IF t \in sessions THEN UNCHANGED attached ELSE AttachLuns(t)
            /\ Found(h, v)
            /\ excused' = excused \ {t}
            /\ Goto(h, AfterAttach(v))
         \/ /\ \/ "exec" \in Faults
               \/ t \in sessions /\ \A d \in Devices : attached[d] # v
            /\ \/ UNCHANGED <<sessions, attached>>
               \/ /\ sessions' = sessions \cup {t}
                  /\ t \notin sessions
                  /\ AttachLuns(t) \/ UNCHANGED attached
            /\ excused' = excused \cup ({t} \cap sessions')
            /\ Goto(h, "cleanup")
            /\ UNCHANGED dev
  /\ UNCHANGED <<locks, op, vol, typeFile, config, output, view>>

(* A slip in Connect: a failed preempt forgets to detach the disk. *)
PreemptLUNWithoutDetach(h) ==
  /\ pc[h] = "preempt"
  /\ \/ /\ Goto(h, "config")
        /\ UNCHANGED <<dev, iscsiVars>>
     \/ /\ "exec" \in Faults
        /\ dev' = [dev EXCEPT ![h] = NoDevice]
        /\ Goto(h, "cleanup")
        /\ UNCHANGED iscsiVars
  /\ UNCHANGED <<locks, op, vol, typeFile, config, output, view>>

(* PreemptLUN.  When it fails Connect detaches the disk itself: the RootFS *)
(* does not have it yet, so the Disconnect that follows does nothing.      *)
PreemptLUN(h) ==
  /\ pc[h] = "preempt"
  /\ \/ /\ Goto(h, "config")
        /\ UNCHANGED <<dev, iscsiVars>>
     \/ /\ "exec" \in Faults
        /\ DetachDisk(TargetOf[vol[h]])
        /\ dev' = [dev EXCEPT ![h] = NoDevice]
        /\ Goto(h, "cleanup")
  /\ UNCHANGED <<locks, op, vol, typeFile, config, output, view>>

-----------------------------------------------------------------------------
(* Disconnect, in NodePublishVolume's error paths and NodeUnpublishVolume: *)
(* nothing without an ISCSIDisk, whose device path is never empty.         *)
Disconnect(h) ==
  /\ IF dev[h] = NoDevice THEN UNCHANGED iscsiVars
                          ELSE DetachDisk(TargetOf[vol[h]])
  /\ \/ /\ pc[h] = "disconnect"
        /\ dev' = [dev EXCEPT ![h] = NoDevice]
        /\ Goto(h, "config")
        /\ UNCHANGED <<locks, op, vol>>
     \/ /\ pc[h] = "cleanup"
        /\ Return(h)
  /\ UNCHANGED <<typeFile, config, output, view>>

-----------------------------------------------------------------------------
(* Targets a handler is logged in to for a volume whose config does not    *)
(* say so yet.                                                             *)
HeldTargets == {TargetOf[vol[h]] : h \in {g \in Handlers : dev[g] # NoDevice}}

(* Sessions outlive the driver, but not the node. *)
Restart ==
  \E alive \in SUBSET sessions :
    /\ NodeRestart(UNION {Luns(t) : t \in Targets \ alive})
    /\ sessions' = alive
    /\ RemoveLuns(Targets \ alive)
    /\ excused' = alive \cap (excused \cup HeldTargets)

Init ==
  /\ NodeInit
  /\ sessions = {}
  /\ attached = [d \in Devices |-> NoVolume]
  /\ excused = {}

(* One stage of a request that is being served. *)
Step(h) ==
  \/ NodeStep(h) /\ UNCHANGED iscsiVars
  \/ GetSession(h)
  \/ CloseSession(h)
  \/ AttachDisk(h)
  \/ PreemptLUN(h)
  \/ Disconnect(h)

Next ==
  \/ \E h \in Handlers : Request(h) /\ UNCHANGED iscsiVars
  \/ \E h \in Handlers : Step(h)
  \/ Restart

Spec == Init /\ [][Next]_vars

-----------------------------------------------------------------------------
(* Properties *)

(* Every variable has the values the code can give it. *)
TypeOK ==
  /\ NodeTypeOK(Stages)
  /\ sessions \subseteq Targets
  /\ attached \in [Devices -> Volumes \cup {NoVolume}]
  /\ excused \subseteq Targets

(* A volume is served when the device its files name is its LUN. *)
Served(v) ==
  \E d \in Devices :
    /\ attached[d] = v
    /\ config[v] = Written(d)
    /\ output[ClaimOf[v]] = Written(d)

(* From the moment NodePublishVolume returns OK until an unpublish of the  *)
(* volume begins, or a repeated publish closes its session, it is served,  *)
(* whatever fails and whatever other handlers do: Connect and Disconnect   *)
(* log out of a target without asking who else uses it.  When the repeated *)
(* publish returns OK it is served again, maybe on a device with another   *)
(* name, and every copy of the name is the new one.                        *)
PublishedServed == \A v \in Volumes : view[v] = "published" => Served(v)

(* A session is known to the config of a volume, where unpublish finds it, *)
(* or to the handler at work on one.  The only ways to leak one are a      *)
(* failed logout, whose error DetachDisk drops, a failed AttachDisk, which *)
(* does not log out, and a restart with the session in a handler's hand.   *)
Tracked(t) ==
  \/ \E v \in Luns(t) : config[v].dev # NoDevice
  \/ \E h \in Handlers : vol[h] \in Luns(t) /\ dev[h] # NoDevice

NoSilentLeak == \A t \in sessions : Tracked(t) \/ t \in excused

(* The concurrency the caller sees is that of SerialVolumes, for this kind *)
(* of root file system, too.                                               *)
ImplementsSerialVolumes == Serial!Spec

(* However requests interleave, whatever commands, writes and logouts fail *)
(* and whenever the driver restarts, a caller whose volumes have targets   *)
(* of their own sees what VolumeDevices does: a publish answered with OK   *)
(* has its volume on a device, an unpublish answered with OK has it on     *)
(* none unless the session was given up before, and neither disturbs the   *)
(* device of another volume.                                               *)
Store == INSTANCE VolumeDevices
  WITH working <- vol, lost <- {v \in Volumes : TargetOf[v] \in excused}

ImplementsVolumeDevices == Store!Spec

=============================================================================
