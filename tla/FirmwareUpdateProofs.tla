------------------------ MODULE FirmwareUpdateProofs ------------------------
(***************************************************************************)
(* Proofs about FirmwareUpdate, for every set of flags, failing commands   *)
(* and releases.                                                           *)
(***************************************************************************)
EXTENDS FirmwareUpdate, TLAPS

USE DEF Goto, Exit

\* Booting picks the partition mmcpart names, or the initramfs.
LEMMA BootResult ==
    ASSUME Boot
    PROVE  booted' \in {mmcpart, 0} /\ pc' = "idle"
BY DEF Boot

\* After a halt each partition holds what was on disk or what was in memory.
LEMMA HaltResult ==
    ASSUME TypeOK, Halt
    PROVE  /\ disk' \in [Parts -> Content]
           /\ view' = disk'
           /\ \A p \in Parts : disk'[p] \in {disk[p], view[p]}
           /\ booted' \in {mmcpart, 0}
           /\ pc' = "idle"
BY BootResult DEF TypeOK, Halt, Survives, Parts

\* The state of the update script and of the partitions is always well typed:
\* in particular PART and PART_NOW are 2 or 3 whatever fw_printenv returns.
THEOREM TypeCorrect == Spec => []TypeOK
<1>1. Init => TypeOK
  <2> SUFFICES ASSUME Init PROVE TypeOK
    OBVIOUS
  <2>1. PICK p \in Parts, r \in Releases, c \in Content :
           /\ disk = [q \in Parts |->
                        IF q = p THEN [tree |-> "post", rel |-> r] ELSE c]
           /\ mmcpart = p
           /\ booted = p
    BY DEF Init
  <2>2. [tree |-> "post", rel |-> r] \in Content
    BY DEF Content, Trees
  <2>3. disk \in [Parts -> Content]
    BY <2>1, <2>2
  <2>4. guessed \in BOOLEAN /\ flags \subseteq AllowedFlags
    BY DEF Init
  <2> QED
    BY <2>1, <2>3, <2>4 DEF Init, TypeOK, Stages, Parts
<1>2. TypeOK /\ [Next]_vars => TypeOK'
  <2> SUFFICES ASSUME TypeOK, [Next]_vars PROVE TypeOK'
    OBVIOUS
  <2> USE DEF Stages, store, env, local
  <2>1. CASE ProvideFit
    BY <2>1 DEF ProvideFit, TypeOK
  <2>2. CASE StartUpdate
    BY <2>2 DEF StartUpdate, TypeOK
  <2>3. CASE CheckFit
    BY <2>3 DEF CheckFit, TypeOK
  <2>4. CASE DeterminePart
    <3>1. \A p \in Parts : Other(p) \in Parts
      BY DEF Parts, Other
    <3>2. part' \in Parts /\ partNow' \in Parts
      BY <2>4, <3>1 DEF DeterminePart, TypeOK, Parts
    <3>3. guessed' \in BOOLEAN
      BY <2>4 DEF DeterminePart, TypeOK
    <3>4. pc' \in Stages
      BY <2>4 DEF DeterminePart
    <3> QED
      BY <2>4, <3>2, <3>3, <3>4 DEF DeterminePart, TypeOK
  <2>5. CASE ReadActual
    <3>1. view[partNow].rel \in Releases \cup {NoRelease}
      BY DEF TypeOK, Content
    <3> QED
      BY <2>5, <3>1 DEF ReadActual, TypeOK
  <2>6. CASE Probe
    <3>1. [tree |-> "empty", rel |-> NoRelease] \in Content
      BY DEF Content, Trees
    <3>2. view' \in [Parts -> Content]
      BY <2>6, <3>1 DEF Probe, Write, TypeOK
    <3> QED
      BY <2>6, <3>2 DEF Probe, TypeOK
  <2>7. CASE CheckRelease
    <3>1. actualRel' \in Releases \cup {NoRelease}
      BY <2>7 DEF CheckRelease, ActualRelease, RunningRel, TypeOK, Content
    <3>2. disk' \in [Parts -> Content] /\ view' \in [Parts -> Content]
          /\ booted' \in Parts \cup {0} /\ pc' \in Stages
      BY <2>7, HaltResult DEF CheckRelease, TypeOK
    <3> QED
      BY <2>7, <3>1, <3>2 DEF CheckRelease, TypeOK
  <2>8. CASE Clean
    BY <2>8 DEF Clean, Write, Torn, TypeOK, Content, Trees
  <2>9. CASE Extract
    <3>1. fit.rel \in Releases \cup {NoRelease}
      BY DEF TypeOK, Fits, NoFit
    <3> QED
      BY <2>9, <3>1 DEF Extract, Write, Torn, TypeOK, Content, Trees
  <2>10. CASE Certs
    BY <2>10 DEF Certs, TypeOK
  <2>11. CASE Postinst
    <3>1. view[part] \in Content /\ [view[part] EXCEPT !.tree = "post"] \in Content
      BY DEF TypeOK, Content, Trees
    <3> QED
      BY <2>11, <3>1 DEF Postinst, Write, TypeOK
  <2>12. CASE SwitchPart
    BY <2>12 DEF SwitchPart, TypeOK
  <2>13. CASE SetUpgradeAvailable
    BY <2>13 DEF SetUpgradeAvailable, TypeOK
  <2>14. CASE FinishUpdate
    BY <2>14 DEF FinishUpdate, TypeOK
  <2>15. CASE FinalReboot
    BY <2>15, BootResult DEF FinalReboot, TypeOK
  <2>16. CASE PowerLoss
    BY <2>16, HaltResult DEF PowerLoss, TypeOK
  <2>17. CASE Reboot
    BY <2>17, BootResult DEF Reboot, TypeOK
  <2>18. CASE UNCHANGED vars
    BY <2>18 DEF vars, TypeOK
  <2> QED
    BY <2>1, <2>2, <2>3, <2>4, <2>5, <2>6, <2>7, <2>8, <2>9, <2>10, <2>11,
       <2>12, <2>13, <2>14, <2>15, <2>16, <2>17, <2>18 DEF Next, Script
<1> QED
  BY <1>1, <1>2, PTL DEF Spec
-----------------------------------------------------------------------------
\* TargetIsInactive from the moment PART is determined.
InactiveInv ==
    DevRoot /\ pc \in Writing \cup {"actual"} /\ ~guessed => part # Active

\* With /dev/root, no run of the script ever writes the partition the
\* controller depends on, whatever fails and whichever flags are given.
THEOREM TargetInactive == Spec => []TargetIsInactive
<1>1. Init => InactiveInv
  BY DEF Init, InactiveInv, Writing
<1>2. TypeOK /\ InactiveInv /\ [Next]_vars => InactiveInv'
  <2> SUFFICES ASSUME TypeOK, InactiveInv, [Next]_vars PROVE InactiveInv'
    OBVIOUS
  <2> USE DEF InactiveInv, Active, Writing, store, env, local
  <2>1. CASE ProvideFit \/ StartUpdate \/ CheckFit
    BY <2>1 DEF ProvideFit, StartUpdate, CheckFit
  <2>2. CASE DeterminePart
    BY <2>2 DEF DeterminePart, PartRead, Other, Parts, TypeOK
  <2>3. CASE ReadActual \/ Probe
    BY <2>3 DEF ReadActual, Probe
  <2>4. CASE CheckRelease
    BY <2>4, HaltResult DEF CheckRelease
  <2>5. CASE Clean \/ Extract \/ Certs \/ Postinst
    BY <2>5 DEF Clean, Extract, Certs, Postinst
  <2>6. CASE SwitchPart \/ SetUpgradeAvailable \/ FinishUpdate
    BY <2>6 DEF SwitchPart, SetUpgradeAvailable, FinishUpdate
  <2>7. CASE FinalReboot
    BY <2>7, BootResult DEF FinalReboot
  <2>8. CASE PowerLoss \/ Reboot
    BY <2>8, HaltResult, BootResult DEF PowerLoss, Reboot
  <2>9. CASE UNCHANGED vars
    BY <2>9 DEF vars
  <2> QED
    BY <2>1, <2>2, <2>3, <2>4, <2>5, <2>6, <2>7, <2>8, <2>9 DEF Next, Script
<1>3. InactiveInv => TargetIsInactive
  BY DEF InactiveInv, TargetIsInactive
<1> QED
  BY <1>1, <1>2, <1>3, TypeCorrect, PTL DEF Spec
-----------------------------------------------------------------------------
AfterSwitch == {"flag", "done", "reboot"}

\* The inductive strengthening of BootAlwaysComplete: the selected tree is
\* complete on disk and in memory, the script works on the other partition,
\* and what it is about to select is complete, and synced once past Certs.
BootInv ==
    /\ disk[mmcpart].tree \in Complete
    /\ view[mmcpart].tree \in Complete
    /\ pc \notin AfterSwitch => booted \in {0, mmcpart}
    /\ pc \in Writing \cup {"actual"} => part # mmcpart
    /\ pc \in {"certs", "postinst", "switch"} => view[part].tree \in Complete
    /\ pc \in {"postinst", "switch"} => disk[part].tree \in Complete

LEMMA BootInvariant == Dependable => (Spec => []BootInv)
<1> SUFFICES ASSUME Dependable PROVE Spec => []BootInv
  OBVIOUS
<1>0. /\ ~Can("extract") /\ ~Can("hiddenfs") /\ ~Can("printenv")
      /\ ~Can("setenv") /\ ~Can("umount")
  BY DEF Dependable, Can
<1>1. Init => BootInv
  BY DEF Init, BootInv, Writing, AfterSwitch, Parts, Complete
<1>2. TypeOK /\ BootInv /\ [Next]_vars => BootInv'
  <2> SUFFICES ASSUME TypeOK, BootInv, [Next]_vars PROVE BootInv'
    OBVIOUS
  <2>0. "no-certificates" \notin flags /\ "no-reboot" \notin flags
    BY DEF Dependable, TypeOK
  <2> USE DEF BootInv, Writing, AfterSwitch, store, env, local
  <2>1. CASE ProvideFit \/ StartUpdate \/ CheckFit
    BY <2>1 DEF ProvideFit, StartUpdate, CheckFit
  <2>2. CASE DeterminePart
    BY <1>0, <2>2 DEF DeterminePart, PartRead, Other, Parts, TypeOK
  <2>3. CASE ReadActual
    BY <2>3 DEF ReadActual
  <2>4. CASE Probe
    BY <2>4 DEF Probe, Write, TypeOK
  <2>5. CASE CheckRelease
    BY <2>5, HaltResult DEF CheckRelease, TypeOK
  <2>6. CASE Clean
    BY <2>6 DEF Clean, Write, TypeOK
  <2>7. CASE Extract
    BY <1>0, <2>7 DEF Extract, Write, Complete, TypeOK
  <2>8. CASE Certs
    BY <1>0, <2>0, <2>8 DEF Certs, TypeOK
  <2>9. CASE Postinst
    BY <2>9 DEF Postinst, Write, Complete, TypeOK, Content
  <2>10. CASE SwitchPart
    BY <1>0, <2>10 DEF SwitchPart
  <2>11. CASE SetUpgradeAvailable \/ FinishUpdate
    BY <1>0, <2>11 DEF SetUpgradeAvailable, FinishUpdate
  <2>12. CASE FinalReboot
    BY <1>0, <2>0, <2>12, BootResult DEF FinalReboot
  <2>13. CASE PowerLoss
    BY <2>13, HaltResult DEF PowerLoss, TypeOK
  <2>14. CASE Reboot
    BY <2>14, BootResult DEF Reboot
  <2>15. CASE UNCHANGED vars
    BY <2>15 DEF vars
  <2> QED
    BY <2>1, <2>2, <2>3, <2>4, <2>5, <2>6, <2>7, <2>8, <2>9, <2>10, <2>11,
       <2>12, <2>13, <2>14, <2>15 DEF Next, Script
<1> QED
  BY <1>1, <1>2, TypeCorrect, PTL DEF Spec

\* When extraction, the hidden partition, fw_setenv and umount work, and
\* neither no-certificates nor no-reboot is given, U-Boot always finds a
\* complete rootfs, whenever power is lost.
THEOREM BootComplete == Dependable => (Spec => []BootAlwaysComplete)
<1>1. BootInv => BootAlwaysComplete
  BY DEF BootInv, BootAlwaysComplete
<1> QED
  BY <1>1, BootInvariant, PTL
-----------------------------------------------------------------------------
Running == {"check", "part", "actual", "probe", "release", "clean", "extract",
            "certs", "postinst", "switch"}

\* The inductive strengthening of RollbackNeedsFactoryReset: how the release
\* compared in CheckRelease comes to be the one of the active rootfs.  In the
\* initramfs it is read from the partition mmcpart names, elsewhere it is left
\* empty until the os-release of the running system is taken; and a partition
\* that does not mount because it holds no file system has no release.
RollbackInv ==
    /\ \A p \in Parts : view[p].tree = "raw" => view[p].rel = NoRelease
    /\ \A p \in Parts : disk[p].tree = "raw" => disk[p].rel = NoRelease
    /\ pc \in Running => ("from-initramfs" \in flags <=> booted = 0)
    /\ pc \in {"check", "part", "actual"} => actualRel = NoRelease
    /\ /\ pc = "actual"
       /\ "from-initramfs" \in flags /\ ~guessed
       => partNow = mmcpart
    /\ /\ pc \in {"probe", "release"}
       /\ "from-initramfs" \in flags /\ ~guessed
       => view[mmcpart].rel \in {actualRel, NoRelease}
    /\ /\ pc \in {"probe", "release"}
       /\ "from-initramfs" \notin flags
       => actualRel = NoRelease
    /\ RollbackNeedsFactoryReset

\* The post-install scripts complete a tree and keep its release.
LEMMA PostinstResult ==
    ASSUME TypeOK, Postinst
    PROVE  \A p \in Parts : /\ view'[p].rel = view[p].rel
                            /\ view'[p].tree \in {view[p].tree, "post"}
<1>1. view[part] \in [tree : Trees, rel : Releases \cup {NoRelease}]
  BY DEF TypeOK, Content
<1> QED
  BY <1>1 DEF TypeOK, Postinst, Write

LEMMA RollbackInvariant == ~Can("mount") => (Spec => []RollbackInv)
<1> SUFFICES ASSUME ~Can("mount") PROVE Spec => []RollbackInv
  OBVIOUS
<1> USE DEF Running, Active, RollbackNeedsFactoryReset, IsRollback, NoRelease
<1>1. Init => RollbackInv
  BY DEF Init, RollbackInv, Sane
<1>2. TypeOK /\ RollbackInv /\ [Next]_vars => RollbackInv'
  <2> SUFFICES ASSUME TypeOK, RollbackInv, [Next]_vars PROVE RollbackInv'
    OBVIOUS
  <2> USE DEF RollbackInv, store, env, local
  <2>1. CASE ProvideFit
    BY <2>1 DEF ProvideFit
  <2>2. CASE StartUpdate
    BY <2>2 DEF StartUpdate
  <2>3. CASE CheckFit
    BY <2>3 DEF CheckFit
  <2>4. CASE DeterminePart
    BY <2>4 DEF DeterminePart, PartRead, Parts
  <2>5. CASE ReadActual
    BY <2>5 DEF ReadActual, TypeOK
  <2>6. CASE Probe
    BY <2>6 DEF Probe, Write, TypeOK
  <2>7. CASE CheckRelease
    <3>1. CASE pc' = "clean"
      <4>1. ~Halt
        BY <3>1, HaltResult
      <4>2. /\ pc = "release"
            /\ UNCHANGED <<store, booted, env, fit, flags, guessed>>
            /\ ~IsRollback(ActualRelease, fit.rel) \/ "factoryreset" \in flags
        BY <2>7, <3>1, <4>1 DEF CheckRelease
      <4>3. ~guessed => view[Active].rel \in {ActualRelease, NoRelease}
        <5>1. CASE "from-initramfs" \in flags
          BY <4>2, <5>1 DEF ActualRelease, RunningRel, Parts
        <5>2. CASE "from-initramfs" \notin flags
          <6>1. actualRel = NoRelease /\ booted \in Parts
            BY <4>2, <5>2 DEF TypeOK
          <6> QED
            BY <6>1 DEF ActualRelease, RunningRel
        <5> QED
          BY <5>1, <5>2
      <4>4. RollbackNeedsFactoryReset'
        BY <4>2, <4>3
      <4> QED
        BY <3>1, <4>2, <4>4
    <3>2. CASE pc' # "clean"
      BY <2>7, <3>2, HaltResult DEF CheckRelease
    <3> QED
      BY <3>1, <3>2
  <2>8. CASE Clean
    BY <2>8 DEF Clean, Write, Torn, TypeOK
  <2>9. CASE Extract
    BY <2>9 DEF Extract, Write, Torn, TypeOK
  <2>10. CASE Certs
    BY <2>10 DEF Certs
  <2>11. CASE Postinst
    BY <2>11, PostinstResult DEF Postinst, TypeOK, Parts
  <2>12. CASE SwitchPart \/ SetUpgradeAvailable \/ FinishUpdate
    BY <2>12 DEF SwitchPart, SetUpgradeAvailable, FinishUpdate
  <2>13. CASE FinalReboot
    BY <2>13, BootResult DEF FinalReboot
  <2>14. CASE PowerLoss
    BY <2>14, HaltResult DEF PowerLoss
  <2>15. CASE Reboot
    BY <2>15, BootResult DEF Reboot
  <2>16. CASE UNCHANGED vars
    BY <2>16 DEF vars
  <2> QED
    BY <2>1, <2>2, <2>3, <2>4, <2>5, <2>6, <2>7, <2>8, <2>9, <2>10, <2>11,
       <2>12, <2>13, <2>14, <2>15, <2>16 DEF Next, Script
<1> QED
  BY <1>1, <1>2, TypeCorrect, PTL DEF Spec

\* As long as the active rootfs mounts when it has a file system, no run of
\* the script, from the running system or from the initramfs, and with or
\* without /dev/root, puts stretch over a bullseye controller unless a factory
\* reset was asked for.
THEOREM RollbackChecked ==
    ~Can("mount") => (Spec => []RollbackNeedsFactoryReset)
<1>1. RollbackInv => RollbackNeedsFactoryReset
  BY DEF RollbackInv
<1> QED
  BY <1>1, RollbackInvariant, PTL
-----------------------------------------------------------------------------
Reliable == Dependable /\ ~Can("mount")

\* What the refinement needs beyond BootInv and RollbackInv: how the release
\* of the .fit travels through the stages, into memory with Extract, to disk
\* with Certs and under mmcpart with SwitchPart, while the release to boot is
\* the same in memory and on disk.
ReleaseInv ==
    /\ ~guessed
    /\ view[mmcpart].rel = disk[mmcpart].rel
    /\ pc \in Running \cup {"flag", "done"} => fit # NoFit
    /\ pc \in {"certs", "postinst", "switch"} => view[part].rel = fit.rel
    /\ pc \in {"postinst", "switch"} => disk[part].rel = fit.rel
    /\ pc \in {"flag", "done"} => disk[mmcpart].rel = fit.rel

\* A waiting .fit carries a release, and that is how it is told from none.
LEMMA FitRelease ==
    ASSUME TypeOK
    PROVE  fit # NoFit <=> fit.rel \in Releases
BY UpdateAssumption DEF TypeOK, Fits, NoFit

LEMMA ReleaseInvariant == Reliable => (Spec => []ReleaseInv)
<1> SUFFICES ASSUME Reliable PROVE Spec => []ReleaseInv
  OBVIOUS
<1>0. /\ Dependable
      /\ ~Can("extract") /\ ~Can("hiddenfs") /\ ~Can("printenv")
      /\ ~Can("setenv") /\ ~Can("umount")
  BY DEF Reliable, Dependable, Can
<1>1. Init => ReleaseInv
  BY DEF Init, ReleaseInv, Running
<1>2. TypeOK /\ BootInv /\ ReleaseInv /\ [Next]_vars => ReleaseInv'
  <2> SUFFICES ASSUME TypeOK, BootInv, ReleaseInv, [Next]_vars
               PROVE  ReleaseInv'
    OBVIOUS
  <2>0. "no-certificates" \notin flags
    BY <1>0 DEF Dependable, TypeOK
  <2> USE DEF ReleaseInv, Running, store, env, local
  <2>1. CASE ProvideFit \/ StartUpdate \/ CheckFit
    BY <2>1 DEF ProvideFit, StartUpdate, CheckFit
  <2>2. CASE DeterminePart
    BY <1>0, <2>2 DEF DeterminePart, PartRead, Parts, TypeOK
  <2>3. CASE ReadActual
    BY <2>3 DEF ReadActual
  <2>4. CASE Probe
    BY <2>4 DEF Probe, Write, BootInv, Writing, TypeOK
  <2>5. CASE CheckRelease
    BY <2>5, HaltResult DEF CheckRelease, TypeOK
  <2>6. CASE Clean
    BY <2>6 DEF Clean, Write, BootInv, Writing, TypeOK
  <2>7. CASE Extract
    BY <1>0, <2>7 DEF Extract, Write, BootInv, Writing, TypeOK
  <2>8. CASE Certs
    BY <1>0, <2>0, <2>8 DEF Certs
  <2>9. CASE Postinst
    BY <2>9, PostinstResult DEF Postinst, TypeOK
  <2>10. CASE SwitchPart
    BY <1>0, <2>10 DEF SwitchPart
  <2>11. CASE SetUpgradeAvailable \/ FinishUpdate
    BY <1>0, <2>11 DEF SetUpgradeAvailable, FinishUpdate
  <2>12. CASE FinalReboot \/ Reboot
    BY <2>12, BootResult DEF FinalReboot, Reboot
  <2>13. CASE PowerLoss
    BY <2>13, HaltResult DEF PowerLoss, TypeOK
  <2>14. CASE UNCHANGED vars
    BY <2>14 DEF vars
  <2> QED
    BY <2>1, <2>2, <2>3, <2>4, <2>5, <2>6, <2>7, <2>8, <2>9, <2>10, <2>11,
       <2>12, <2>13, <2>14 DEF Next, Script
<1> QED
  BY <1>0, <1>1, <1>2, TypeCorrect, BootInvariant, PTL DEF Spec

\* The stages that touch neither the selected partition nor the environment
\* are invisible in ABUpdate.
LEMMA Invisible ==
    ASSUME TypeOK, BootInv, BootInv', ReleaseInv, ReleaseInv',
           pc \in Writing \cup {"check", "part", "actual"},
           UNCHANGED <<mmcpart, booted, fit, flags>>,
           view'[mmcpart].rel = view[mmcpart].rel
    PROVE  UNCHANGED Promise!vars
<1>1. booted \in {0, mmcpart}
  BY DEF BootInv, Writing, AfterSwitch
<1>2. UNCHANGED disk[mmcpart].rel
  BY DEF ReleaseInv
<1>3. UNCHANGED RunningRel
  <2>1. CASE booted = 0
    BY <2>1 DEF RunningRel, Parts
  <2>2. CASE booted = mmcpart
    BY <2>2 DEF RunningRel
  <2> QED
    BY <1>1, <2>1, <2>2
<1> QED
  BY <1>2, <1>3 DEF Promise!vars, BootInv

\* A start of the controller, orderly or not, is a start in ABUpdate.
LEMMA Restart ==
    ASSUME TypeOK, BootInv, BootInv', ReleaseInv, ReleaseInv', Boot,
           disk'[mmcpart] \in {disk[mmcpart], view[mmcpart]},
           UNCHANGED <<env, fit, flags>>
    PROVE  Promise!Next
<1>1. /\ disk[mmcpart].tree \in Complete /\ (disk[mmcpart].tree \in Complete)'
      /\ UNCHANGED <<mmcpart, fit, flags>>
  BY DEF BootInv, env
<1>2. UNCHANGED disk[mmcpart].rel
  BY <1>1 DEF ReleaseInv
<1>3. CASE booted' = mmcpart
  <2>1. RunningRel' = disk[mmcpart].rel
    BY <1>1, <1>2, <1>3 DEF RunningRel, ReleaseInv, TypeOK
  <2> QED
    BY <1>1, <1>2, <2>1 DEF Promise!Next, Promise!Enter
<1>4. CASE booted' # mmcpart
  <2>1. booted' = 0 /\ fit # NoFit
    BY <1>4 DEF Boot
  <2>2. RunningRel' = NoRelease /\ fit.rel # NoRelease
    BY <2>1, FitRelease, UpdateAssumption DEF RunningRel, Parts
  <2> QED
    BY <1>1, <1>2, <2>2 DEF Promise!Next, Promise!EnterInitramfs
<1> QED
  BY <1>3, <1>4

\* Where the commands that matter work and neither no-certificates nor
\* no-reboot is given, install_update.sh with all its stages, retries, restarts
\* and power losses implements the safety part of ABUpdate: the release to boot
\* changes in one step, to the offered one, with consent when it goes back.
THEOREM UpdateIsAtomic == Reliable => (Spec => Promise!SafetySpec)
<1> SUFFICES ASSUME Reliable PROVE Spec => Promise!SafetySpec
  OBVIOUS
<1>0. /\ Dependable /\ ~Can("mount")
      /\ ~Can("setenv") /\ ~Can("umount")
  BY DEF Reliable, Dependable, Can
<1> DEFINE Inv == TypeOK /\ BootInv /\ RollbackInv /\ ReleaseInv
<1>1. Init => Promise!Init
  BY DEF Init, Promise!Init, RunningRel, NoFit, Complete
<1>2. Inv /\ Inv' /\ [Next]_vars => [Promise!Next]_Promise!vars
  <2> SUFFICES ASSUME Inv, Inv', [Next]_vars
               PROVE  [Promise!Next]_Promise!vars
    OBVIOUS
  <2>0. "no-reboot" \notin flags
    BY <1>0 DEF Dependable, TypeOK
  <2> USE DEF store, env, local
  <2>1. CASE ProvideFit
    <3>1. fit.rel = NoRelease /\ fit'.rel \in Releases
      BY <2>1 DEF ProvideFit, NoFit, Fits
    <3> QED
      BY <2>1, <3>1 DEF ProvideFit, RunningRel, Promise!Next, Promise!Offer
  <2>2. CASE StartUpdate
    <3>1. fit.rel # NoRelease
      BY <2>2, FitRelease, UpdateAssumption DEF StartUpdate
    <3> QED
      BY <2>2, <3>1 DEF StartUpdate, RunningRel, Promise!Next, Promise!Ask
  <2>3. CASE CheckFit \/ DeterminePart \/ ReadActual
    BY <2>3, Invisible DEF CheckFit, DeterminePart, ReadActual, Writing
  <2>4. CASE Probe \/ Clean \/ Extract
    <3>1. pc \in Writing /\ part # mmcpart
      BY <2>4 DEF Probe, Clean, Extract, Writing, BootInv
    <3>2. UNCHANGED view[mmcpart] /\ UNCHANGED <<mmcpart, booted, fit, flags>>
      BY <2>4, <3>1 DEF Probe, Clean, Extract, Write, TypeOK
    <3> QED
      BY <3>1, <3>2, Invisible
  <2>5. CASE CheckRelease
    <3>1. CASE Halt
      BY <2>5, <3>1, HaltResult, Restart DEF CheckRelease, Halt, TypeOK
    <3>2. CASE ~Halt
      BY <2>5, <3>2, Invisible DEF CheckRelease, Writing
    <3> QED
      BY <3>1, <3>2
  <2>6. CASE Certs
    BY <2>6, Invisible DEF Certs, Writing
  <2>7. CASE Postinst
    <3>1. pc \in Writing /\ UNCHANGED <<mmcpart, booted, fit, flags>>
      BY <2>7 DEF Postinst, Writing
    <3>2. view'[mmcpart].rel = view[mmcpart].rel
      BY <2>7, PostinstResult DEF TypeOK
    <3> QED
      BY <3>1, <3>2, Invisible
  <2>8. CASE SwitchPart
    <3>1. /\ pc = "switch" /\ mmcpart' = part
          /\ UNCHANGED <<disk, view, booted, fit, flags>>
      BY <1>0, <2>8 DEF SwitchPart
    <3>2. fit.rel # NoRelease
      BY <3>1, FitRelease, UpdateAssumption DEF ReleaseInv, Running
    <3>3. disk[mmcpart].tree \in Complete /\ disk[part].tree \in Complete
      BY <3>1 DEF BootInv
    <3>4. disk[part].rel = fit.rel
      BY <3>1 DEF ReleaseInv
    <3>5. IsRollback(disk[mmcpart].rel, fit.rel) => "factoryreset" \in flags
      <4>1. Active = mmcpart
        BY <3>1 DEF Active, BootInv, AfterSwitch, Parts
      <4> QED
        BY <3>1, <4>1 DEF RollbackInv, RollbackNeedsFactoryReset, ReleaseInv
    <3>6. Promise!Install
      BY <3>1, <3>2, <3>3, <3>4, <3>5 DEF Promise!Install, RunningRel
    <3> QED
      BY <3>6 DEF Promise!Next
  <2>9. CASE SetUpgradeAvailable
    BY <2>9 DEF SetUpgradeAvailable, RunningRel, Promise!vars
  <2>10. CASE FinishUpdate
    <3>1. disk[mmcpart].tree \in Complete /\ disk[mmcpart].rel = fit.rel
      BY <2>10 DEF FinishUpdate, BootInv, ReleaseInv
    <3> QED
      BY <2>10, <3>1 DEF FinishUpdate, NoFit, RunningRel, Promise!Next,
                         Promise!Withdraw
  <2>11. CASE FinalReboot
    BY <1>0, <2>0, <2>11, Restart DEF FinalReboot
  <2>12. CASE PowerLoss
    BY <2>12, HaltResult, Restart DEF PowerLoss, Halt, TypeOK
  <2>13. CASE Reboot
    BY <2>13, Restart DEF Reboot
  <2>14. CASE UNCHANGED vars
    BY <2>14 DEF vars, RunningRel, Promise!vars
  <2> QED
    BY <2>1, <2>2, <2>3, <2>4, <2>5, <2>6, <2>7, <2>8, <2>9, <2>10, <2>11,
       <2>12, <2>13, <2>14 DEF Next, Script
<1>3. Spec => []Inv
  BY <1>0, TypeCorrect, BootInvariant, RollbackInvariant, ReleaseInvariant, PTL
<1> QED
  BY <1>1, <1>2, <1>3, PTL DEF Spec, Promise!SafetySpec
=============================================================================
