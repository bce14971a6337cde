--------------------------- MODULE FirmwareUpdate ---------------------------
(***************************************************************************)
(* The A/B firmware update of a Wiren Board controller:                    *)
(* image/install_update.sh, the script packed into every .fit image by     *)
(* image/create_update.sh and run either from the running system or from   *)
(* the update initramfs.                                                   *)
(*                                                                         *)
(* Two root partitions, mmcblk0p2 and mmcblk0p3; the U-Boot variable       *)
(* mmcpart names the one to boot.  The script writes the other one, then   *)
(* flips mmcpart.  Each action is one stage of the script.  `set -e' ends  *)
(* the script at a failing command; power may be lost between any two      *)
(* stages, and a partition then holds what the kernel had written back.    *)
(***************************************************************************)
EXTENDS Naturals

CONSTANTS
    DevRoot,        \* the running system has the /dev/root link
    AllowedFlags,   \* flags an update may be started with
    MayFail,        \* commands that may fail on this controller
    Releases        \* Debian releases a rootfs or a .fit may carry

Flags == {"force-compatible", "from-initramfs", "factoryreset",
          "no-certificates", "no-postinst", "no-reboot"}

Failures == {"verify", "printenv", "mkdir", "mkfs", "mount", "clean",
             "extract", "losetup", "hiddenfs", "bind", "setenv", "umount"}

\* The empty string, where a release is read and none is found.
NoRelease == "-"

ASSUME UpdateAssumption ==
    /\ DevRoot \in BOOLEAN
    /\ AllowedFlags \subseteq Flags
    /\ MayFail \subseteq Failures
    /\ {"stretch", "bullseye"} \subseteq Releases
    /\ NoRelease \notin Releases

Parts == {2, 3}

\* What a partition holds: no ext4, an emptied tree, an incomplete tree, an
\* extracted one, an extracted one with the post-install scripts applied.
Trees == {"raw", "empty", "torn", "full", "post"}
Complete == {"full", "post"}
Content == [tree : Trees, rel : Releases \cup {NoRelease}]
Torn(r) == [tree |-> "torn", rel |-> r]
Sane(c) == /\ c.tree \in {"raw", "empty"} => c.rel = NoRelease
           /\ c.tree \in Complete => c.rel # NoRelease

Stages == {"idle", "check", "part", "actual", "probe", "release", "clean",
           "extract", "certs", "postinst", "switch", "flag", "done", "reboot"}

VARIABLES
    disk,           \* partition -> content that survives a power loss
    view,           \* partition -> content the running kernel sees
    mmcpart,        \* U-Boot environment: partition to boot
    upgradeAvail,   \* U-Boot environment: upgrade_available
    booted,         \* partition the kernel runs from, 0 in the initramfs
    fit,            \* the .fit file: [rel, compat], or NoFit
    pc,             \* next stage of install_update.sh
    flags,          \* FLAGS of the current run
    part,           \* PART: where to install
    partNow,        \* PART_NOW: the partition believed to be active
    actualRel,      \* ACTUAL_DEB_RELEASE
    guessed         \* the active partition could not be determined

vars == <<disk, view, mmcpart, upgradeAvail, booted, fit, pc, flags, part,
          partNow, actualRel, guessed>>
store == <<disk, view>>
env == <<mmcpart, upgradeAvail>>
local == <<part, partNow, actualRel, guessed>>

NoFit == [rel |-> NoRelease, compat |-> FALSE]
Fits == [rel : Releases, compat : BOOLEAN]

Other(p) == 5 - p

\* The partition whose rootfs the controller depends on.
Active == IF booted \in Parts THEN booted ELSE mmcpart

TypeOK ==
    /\ disk \in [Parts -> Content]
    /\ view \in [Parts -> Content]
    /\ mmcpart \in Parts
    /\ upgradeAvail \in {0, 1}
    /\ booted \in Parts \cup {0}
    /\ fit \in Fits \cup {NoFit}
    /\ pc \in Stages
    /\ flags \subseteq AllowedFlags
    /\ part \in Parts
    /\ partNow \in Parts
    /\ actualRel \in Releases \cup {NoRelease}
    /\ guessed \in BOOLEAN
-----------------------------------------------------------------------------
\* A controller in service: a complete rootfs on the active partition and
\* anything on the other one.
Init ==
    /\ \E p \in Parts, r \in Releases, c \in Content :
          /\ Sane(c)
          /\ disk = [q \in Parts |->
                        IF q = p THEN [tree |-> "post", rel |-> r] ELSE c]
          /\ mmcpart = p
          /\ booted = p
    /\ view = disk
    /\ upgradeAvail = 0
    /\ fit = NoFit
    /\ pc = "idle"
    /\ flags = {}
    /\ part = 2 /\ partNow = 3
    /\ actualRel = NoRelease
    /\ guessed = FALSE

Can(f) == f \in MayFail

Goto(stage) == pc' = stage

\* The script ends, by `die', by `set -e' or at its last line.
Exit == Goto("idle")

Write(p, c) == view' = [view EXCEPT ![p] = c]

\* What a power loss leaves on partition p: what had been written back, or
\* what the kernel was about to write.
Survives(p) == {disk[p], view[p]}

\* The kernel goes down without writing anything back; U-Boot then starts the
\* rootfs mmcpart names or, when a .fit is waiting, the update initramfs.
Boot ==
    /\ booted' \in {mmcpart} \cup (IF fit = NoFit THEN {} ELSE {0})
    /\ Exit

Halt ==
    /\ \E c2 \in Survives(2), c3 \in Survives(3) :
          disk' = [p \in Parts |-> IF p = 2 THEN c2 ELSE c3]
    /\ view' = disk'
    /\ Boot

\* A .fit file arrives on the data partition or on an USB drive.
ProvideFit ==
    /\ pc = "idle" /\ fit = NoFit
    /\ fit' \in Fits
    /\ UNCHANGED <<store, env, booted, pc, flags, local>>

\* wb-run-update starts the script; from-initramfs is set in the initramfs.
StartUpdate ==
    /\ pc = "idle" /\ fit # NoFit
    /\ booted \in Parts => view[booted].tree \in Complete
    /\ \E f \in SUBSET AllowedFlags :
          /\ "from-initramfs" \in f <=> booted = 0
          /\ flags' = f
    /\ Goto("check")
    /\ actualRel' = NoRelease /\ guessed' = FALSE
    /\ UNCHANGED <<store, env, booted, fit, part, partNow>>

\* check_compatible, fit_blob_verify_hash.
CheckFit ==
    /\ pc = "check"
    /\ \/ /\ "force-compatible" \in flags \/ fit.compat
          /\ Goto("part")
       \/ /\ \/ ~("force-compatible" \in flags \/ fit.compat)
             \/ Can("verify")
          /\ Exit
    /\ UNCHANGED <<store, env, booted, fit, flags, local>>

\* Mutant: the U-Boot environment is believed before the /dev/root link.
PartReadEnvFirst(p) == p = mmcpart \/ (Can("printenv") /\ p = 0)

\* PART as read: from the /dev/root link, else from the U-Boot environment;
\* 0 when fw_printenv fails.
PartRead(p) ==
    IF DevRoot /\ booted \in Parts
      THEN p = booted
      ELSE p = mmcpart \/ (Can("printenv") /\ p = 0)

\* Mutant: an unreadable PART is not caught by the `case'.
DeterminePartNoDefault ==
    /\ pc = "part"
    /\ \E p \in Parts \cup {0} :
          /\ PartRead(p)
          /\ part' = Other(p) /\ partNow' = p
    /\ Goto("actual")
    /\ UNCHANGED <<store, env, booted, fit, flags, actualRel, guessed>>

DeterminePart ==
    /\ pc = "part"
    /\ \E p \in Parts \cup {0} :
          /\ PartRead(p)
          /\ \/ /\ p \in Parts
                /\ part' = Other(p) /\ partNow' = p
                /\ Goto("actual")
                /\ UNCHANGED guessed
             \/ /\ p = 0 /\ "from-initramfs" \in flags
                /\ part' = 2 /\ partNow' = 3
                /\ guessed' = TRUE
                /\ Goto("actual")
             \/ /\ p = 0 /\ "from-initramfs" \notin flags
                /\ Exit
                /\ UNCHANGED <<part, partNow, guessed>>
    /\ UNCHANGED <<store, env, booted, fit, flags, actualRel>>

\* Mutant: os-release of the active rootfs is not read in the initramfs.
ReadActualSkipped ==
    /\ pc = "actual"
    /\ Goto("probe")
    /\ UNCHANGED <<store, env, booted, fit, flags, local>>

\* The mount point, then, in the initramfs, the release of the active rootfs;
\* a partition that does not mount leaves ACTUAL_DEB_RELEASE empty.
ReadActual ==
    /\ pc = "actual"
    /\ \/ /\ "from-initramfs" \in flags
          /\ \/ /\ view[partNow].tree # "raw"
                /\ actualRel' = view[partNow].rel
                /\ disk' = view
             \/ /\ view[partNow].tree = "raw" \/ Can("mount")
                /\ UNCHANGED <<actualRel, disk>>
          /\ Goto("probe")
       \/ /\ "from-initramfs" \notin flags
          /\ Goto("probe")
          /\ UNCHANGED <<actualRel, disk>>
       \/ /\ Can("mkdir")
          /\ Exit
          /\ UNCHANGED <<actualRel, disk>>
    /\ UNCHANGED <<view, env, booted, fit, flags, part, partNow, guessed>>

\* A target that does not mount is formatted; then it is mounted for good.
Probe ==
    /\ pc = "probe"
    /\ \/ /\ view[part].tree # "raw"
          /\ Goto("release") \/ (Can("mount") /\ Exit)
          /\ UNCHANGED view
       \/ /\ view[part].tree = "raw" \/ Can("mount")
          /\ Write(part, [tree |-> "empty", rel |-> NoRelease])
          /\ Goto("release") \/ (Can("mount") /\ Exit)
       \/ /\ Can("mkfs") /\ (view[part].tree = "raw" \/ Can("mount"))
          /\ Exit
          /\ UNCHANGED view
    /\ UNCHANGED <<disk, env, booted, fit, flags, local>>

\* The os-release of the system the script runs in; the initramfs has none.
RunningRel == IF booted \in Parts THEN view[booted].rel ELSE NoRelease

ActualRelease == IF actualRel = NoRelease THEN RunningRel ELSE actualRel

IsRollback(from, to) == from = "bullseye" /\ to = "stretch"

\* Going back a Debian release needs a factory reset; refused otherwise, with
\* `reboot -f' from the initramfs.
CheckRelease ==
    /\ pc = "release"
    /\ actualRel' = ActualRelease
    /\ \/ /\ ~IsRollback(actualRel', fit.rel) \/ "factoryreset" \in flags
          /\ Goto("clean")
          /\ UNCHANGED <<store, booted>>
       \/ /\ IsRollback(actualRel', fit.rel) /\ "factoryreset" \notin flags
          /\ \/ /\ "from-initramfs" \in flags
                /\ Halt
             \/ /\ "from-initramfs" \notin flags
                /\ Exit
                /\ UNCHANGED <<store, booted>>
    /\ UNCHANGED <<env, fit, flags, part, partNow, guessed>>

\* Deletions reach the disk in any order: from here on it holds some part of
\* the old tree.
Clean ==
    /\ pc = "clean"
    /\ \E r \in {view[part].rel, NoRelease} :
          /\ disk' = [disk EXCEPT ![part] = Torn(r)]
          /\ \/ /\ Write(part, [tree |-> "empty", rel |-> NoRelease])
                /\ Goto("extract")
             \/ /\ Can("clean")
                /\ Write(part, Torn(r))
                /\ Exit
    /\ UNCHANGED <<env, booted, fit, flags, local>>

\* `fit_blob_data | pv | tar || die' runs in a subshell that is itself piped
\* into mqtt_progress: a failing tar ends the subshell, not the script.
Extract ==
    /\ pc = "extract"
    /\ \/ Write(part, [tree |-> "full", rel |-> fit.rel])
       \/ /\ Can("extract")
          /\ \E r \in {fit.rel, NoRelease} : Write(part, Torn(r))
    /\ Goto("certs")
    /\ UNCHANGED <<disk, env, booted, fit, flags, local>>

\* Mutant: no sync after the certificates.
CertsUnsynced ==
    /\ pc = "certs"
    /\ Goto("postinst")
    /\ UNCHANGED <<store, env, booted, fit, flags, local>>

\* The device certificates are copied from the hidden partition, and synced.
Certs ==
    /\ pc = "certs"
    /\ \/ /\ "no-certificates" \in flags
          /\ Goto("postinst")
          /\ UNCHANGED disk
       \/ /\ "no-certificates" \notin flags
          /\ \/ /\ disk' = view
                /\ Goto("postinst")
             \/ /\ Can("hiddenfs")
                /\ Goto("postinst")
                /\ UNCHANGED disk
             \/ /\ Can("losetup") \/ Can("umount")
                /\ Exit
                /\ UNCHANGED disk
    /\ UNCHANGED <<view, env, booted, fit, flags, local>>

\* The post-install scripts of the new rootfs, run with /dev, /proc and /sys
\* bound into it.  An incomplete tree may lack the mount points.
Postinst ==
    /\ pc = "postinst"
    /\ \/ /\ "no-postinst" \in flags
          /\ Goto("switch")
          /\ UNCHANGED view
       \/ /\ "no-postinst" \notin flags
          /\ Write(part, IF view[part].tree \in Complete
                            THEN [view[part] EXCEPT !.tree = "post"]
                            ELSE view[part])
          /\ Goto("switch") \/ (Can("umount") /\ Exit)
       \/ /\ "no-postinst" \notin flags
          /\ Can("bind") \/ view[part].tree = "torn"
          /\ Exit
          /\ UNCHANGED view
    /\ UNCHANGED <<disk, env, booted, fit, flags, local>>

\* Mutant: PART_NOW is written instead of PART.
SwitchPartToCurrent ==
    /\ pc = "switch"
    /\ mmcpart' = partNow /\ Goto("flag")
    /\ UNCHANGED <<store, upgradeAvail, booted, fit, flags, local>>

\* fw_setenv mmcpart, then fw_setenv upgrade_available: two separate commands,
\* each durable when it returns.
SwitchPart ==
    /\ pc = "switch"
    /\ \/ mmcpart' = part /\ Goto("flag")
       \/ Can("setenv") /\ Exit /\ UNCHANGED mmcpart
    /\ UNCHANGED <<store, upgradeAvail, booted, fit, flags, local>>

SetUpgradeAvailable ==
    /\ pc = "flag"
    /\ \/ upgradeAvail' = 1 /\ Goto("done")
       \/ Can("setenv") /\ Exit /\ UNCHANGED upgradeAvail
    /\ UNCHANGED <<store, mmcpart, booted, fit, flags, local>>

\* rm_fit, led_success.
FinishUpdate ==
    /\ pc = "done"
    /\ fit' = NoFit
    /\ Goto("reboot")
    /\ UNCHANGED <<store, env, booted, flags, local>>

\* no-reboot: the script just ends.  Otherwise umount, sync, reboot.
FinalReboot ==
    /\ pc = "reboot"
    /\ \/ /\ "no-reboot" \notin flags
          /\ disk' = view
          /\ Boot
       \/ /\ "no-reboot" \in flags \/ Can("umount")
          /\ Exit
          /\ UNCHANGED <<disk, booted>>
    /\ UNCHANGED <<view, env, fit, flags, local>>
-----------------------------------------------------------------------------
\* The controller's surroundings.
PowerLoss ==
    /\ Halt
    /\ UNCHANGED <<env, fit, flags, local>>

\* An orderly reboot of the running system, which writes everything back.
Reboot ==
    /\ pc = "idle"
    /\ disk' = view
    /\ Boot
    /\ UNCHANGED <<view, env, fit, flags, local>>

Script ==
    \/ CheckFit \/ DeterminePart \/ ReadActual \/ Probe \/ CheckRelease
    \/ Clean \/ Extract \/ Certs \/ Postinst
    \/ SwitchPart \/ SetUpgradeAvailable \/ FinishUpdate \/ FinalReboot

Next == ProvideFit \/ StartUpdate \/ Script \/ PowerLoss \/ Reboot

Spec == Init /\ [][Next]_vars

\* A started script is a process the kernel keeps scheduling.
FairSpec == Spec /\ WF_vars(Script)
-----------------------------------------------------------------------------
Writing == {"probe", "release", "clean", "extract", "certs", "postinst",
            "switch"}

\* With /dev/root the script never formats, cleans or fills the partition the
\* controller runs from (from the initramfs: the one it would boot), even when
\* an earlier update flipped mmcpart and was not followed by a reboot.  Only
\* a partition guessed in the initramfs escapes.
TargetIsInactive ==
    DevRoot /\ pc \in Writing /\ ~guessed => part # Active

\* The commands and flags with which install_update.sh does guarantee that the
\* switch happens after a complete, synced tree, and that a reboot follows it.
Dependable ==
    /\ MayFail \cap {"extract", "hiddenfs", "printenv", "setenv", "umount"} = {}
    /\ AllowedFlags \cap {"no-certificates", "no-reboot"} = {}

\* Whenever power is lost, U-Boot finds a complete rootfs where mmcpart points.
BootAlwaysComplete == disk[mmcpart].tree \in Complete

\* A bullseye controller is never overwritten with stretch without a factory
\* reset, wherever the script was started from.
RollbackNeedsFactoryReset ==
    /\ pc \in {"clean", "extract", "certs", "postinst", "switch"}
    /\ ~guessed
    /\ IsRollback(view[Active].rel, fit.rel)
    => "factoryreset" \in flags

\* The abstract update: a tree that is not complete is no release at all, and
\* what the kernel has not written back does not count.
Promise == INSTANCE ABUpdate WITH
    None <- NoRelease,
    boot <- IF disk[mmcpart].tree \in Complete THEN disk[mmcpart].rel
                                               ELSE NoRelease,
    running <- RunningRel,
    offered <- fit.rel,
    consent <- "factoryreset" \in flags

\* All the stages, retries and power losses of install_update.sh amount to
\* one atomic change of the release to boot, guarded and followed by a restart
\* as ABUpdate says.
ImplementsABUpdate == Promise!Spec
=============================================================================
