------------------------------ MODULE ABUpdate ------------------------------
(***************************************************************************)
(* What an A/B firmware update promises, without partitions, stages or     *)
(* caches: the release a controller starts with changes in one step, from  *)
(* one complete release to the offered one, and only with consent when the *)
(* change goes back a Debian release.  install_update.sh is shown to       *)
(* implement this module (FirmwareUpdate!ImplementsABUpdate).              *)
(***************************************************************************)
CONSTANTS
    Releases,       \* Debian releases
    None,           \* no release: nothing running, nothing offered
    IsRollback(_, _)

VARIABLES
    boot,           \* the release U-Boot would start now
    running,        \* the release in use, None in the update initramfs
    offered,        \* the release of the waiting .fit
    consent         \* a factory reset was asked for

vars == <<boot, running, offered, consent>>

Init ==
    /\ boot \in Releases
    /\ running = boot
    /\ offered = None
    /\ consent = FALSE

\* A .fit is put where the controller looks for it.
Offer ==
    /\ offered = None
    /\ offered' \in Releases
    /\ UNCHANGED <<boot, running, consent>>

\* Someone starts the update, with or without asking for a factory reset.
Ask ==
    /\ offered # None
    /\ consent' \in BOOLEAN
    /\ UNCHANGED <<boot, running, offered>>

\* The one step that changes what is booted; old and new are both complete.
Install ==
    /\ offered # None
    /\ IsRollback(boot, offered) => consent
    /\ boot' = offered
    /\ UNCHANGED <<running, offered, consent>>

\* The .fit goes once it is what the controller boots.
Withdraw ==
    /\ boot = offered
    /\ offered' = None
    /\ UNCHANGED <<boot, running, consent>>

\* The controller starts again: with the release to boot or, while a .fit
\* waits, in the initramfs.
Enter ==
    /\ running' = boot
    /\ UNCHANGED <<boot, offered, consent>>

EnterInitramfs ==
    /\ offered # None
    /\ running' = None
    /\ UNCHANGED <<boot, offered, consent>>

Next == Offer \/ Ask \/ Install \/ Withdraw \/ Enter \/ EnterInitramfs

\* The part of the promise that says what never happens.
SafetySpec == Init /\ [][Next]_vars

\* An installed release does not wait for someone to restart the controller.
LeaveOld == running # None /\ Enter

Spec == SafetySpec /\ WF_vars(LeaveOld)
=============================================================================
