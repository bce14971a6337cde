-------------------------- MODULE MCTwoControllers --------------------------
(***************************************************************************)
(* FirmwareUpdate on two controllers.  The first (the constants of the     *)
(* .cfg) has the failures and flags for which install_update.sh keeps its  *)
(* promise; on the second every command may fail, and the certificates,    *)
(* the postinst and the reboot may be left out.  A behaviour follows one   *)
(* of them and leaves the other alone.                                     *)
(***************************************************************************)
EXTENDS FirmwareUpdate

VARIABLES
    degraded,       \* the second controller is followed
    disk2, view2, mmcpart2, upgradeAvail2, booted2, fit2, pc2, flags2, part2,
    partNow2, actualRel2, guessed2

vars2 == <<disk2, view2, mmcpart2, upgradeAvail2, booted2, fit2, pc2, flags2,
           part2, partNow2, actualRel2, guessed2>>

Second == INSTANCE FirmwareUpdate WITH
    AllowedFlags <- {"from-initramfs", "no-certificates", "no-postinst", "no-reboot"},
    MayFail <- Failures,
    disk <- disk2, view <- view2, mmcpart <- mmcpart2,
    upgradeAvail <- upgradeAvail2, booted <- booted2, fit <- fit2, pc <- pc2,
    flags <- flags2, part <- part2, partNow <- partNow2,
    actualRel <- actualRel2, guessed <- guessed2

\* The one that is not followed is as it came from the factory.
AsShipped(d, m) == m = 2 /\ d = [p \in Parts |-> [tree |-> "post", rel |-> "stretch"]]

BothInit ==
    /\ degraded \in BOOLEAN
    /\ Init /\ Second!Init
    /\ degraded => AsShipped(disk, mmcpart)
    /\ ~degraded => AsShipped(disk2, mmcpart2)

BothNext ==
    /\ UNCHANGED degraded
    /\ \/ ~degraded /\ Next /\ UNCHANGED vars2
       \/ degraded /\ Second!Next /\ UNCHANGED vars

BothSpec ==
    /\ BothInit /\ [][BothNext]_<<vars, vars2, degraded>>
    /\ WF_vars(Script)

\* PART and PART_NOW are root partitions and the other variables have their
\* types, whatever fails.
DegradedTypeOK == Second!TypeOK

\* Whatever fails: with /dev/root install_update.sh never formats, cleans or
\* fills the partition the controller runs from, even when mmcpart is stale
\* after no-reboot, a failed umount or a failed fw_setenv.
DegradedTargetIsInactive == Second!TargetIsInactive
=============================================================================
