----------------------------- MODULE ImageBuild -----------------------------
(***************************************************************************)
(* Building a firmware image: rootfs/create_rootfs.sh makes the root file  *)
(* system of a board, image/create_images.sh packs it into an SD image     *)
(* (create_image.sh) and an update (create_update.sh).                     *)
(*                                                                         *)
(* Builds of different boards run side by side in one checkout.  They      *)
(* share output/, and there the tarball of the base system, which any      *)
(* build with the same repositories reuses.  Every command may fail        *)
(* (`set -e' ends the script, the EXIT trap cleans up) and a build may be  *)
(* killed, in which case nothing cleans up.                                *)
(***************************************************************************)
EXTENDS Naturals, FiniteSets

CONSTANTS
    Boards,         \* boards/<board>.sh
    Keys,           \* values of ROOTFS_BASE_SUFFIX
    KeyOf,          \* board -> its ROOTFS_BASE_SUFFIX
    VendorBoards,   \* boards that include board_S.sh
    Experimental,   \* keys that stand for additional repositories
    Hosts,          \* host names of the machines that share output/
    Faults,         \* what may happen to a build
    MaxBuilds       \* bound on the builds started

ASSUME BuildAssumption ==
    /\ KeyOf \in [Boards -> Keys]
    /\ VendorBoards \subseteq Boards
    /\ Experimental \subseteq Keys
    /\ Hosts # {}
    /\ Faults \subseteq {"fail", "kill"}
    /\ MaxBuilds \in Nat

\* Packages of a root file system.
Packages == {"debian", "base", "essential", "board"}

\* What a build puts in for itself, besides the host's name in /etc/hosts.
Chroot == {"policy-rc.d", "resolv.conf"}
Apt == {"sources.list", "wb-install-tmp", "wb-additional-tmp"}
Marks == Chroot \cup Apt

\* A root file system, or the copy of one in a tarball, an image or a .fit.
Trees == [pkgs : SUBSET Packages, marks : SUBSET Marks, names : SUBSET Hosts,
          vendor : BOOLEAN, version : BOOLEAN]
EmptyTree == [pkgs |-> {}, marks |-> {}, names |-> {},
              vendor |-> FALSE, version |-> FALSE]

\* A file: its tree, whether it was written to the end, and whether two
\* builds were writing it at once.
NoFile == [there |-> FALSE, whole |-> FALSE, mixed |-> FALSE, tree |-> EmptyTree]
Torn(mixed) == [NoFile EXCEPT !.there = TRUE, !.mixed = mixed]
Whole(t) == [there |-> TRUE, whole |-> TRUE, mixed |-> FALSE, tree |-> t]
Files == [there : BOOLEAN, whole : BOOLEAN, mixed : BOOLEAN, tree : Trees]

Stages == {"idle", "base", "prepare", "system", "archive", "archiving",
           "upgrade", "essential", "board", "finish", "done", "img", "fit",
           "fitting"}

VARIABLES
    tarball,        \* key -> ROOTFS_BASE_TARBALL
    exists,         \* board -> the directory $OUTPUT exists
    root,           \* board -> what is in it
    pc,             \* board -> next stage of its build
    host,           \* board -> machine the build runs on
    cached,         \* board -> the base came from the tarball
    trapped,        \* board -> `trap cleanup_chroot EXIT' is in force
    img,            \* board -> the SD image
    fit,            \* board -> the .fit
    builds          \* builds started so far

vars == <<tarball, exists, root, pc, host, cached, trapped, img, fit, builds>>
dirs == <<exists, root>>
outputs == <<img, fit>>
context == <<host, cached, builds>>

TypeOK ==
    /\ tarball \in [Keys -> Files]
    /\ exists \in [Boards -> BOOLEAN]
    /\ root \in [Boards -> Trees]
    /\ pc \in [Boards -> Stages]
    /\ host \in [Boards -> Hosts]
    /\ cached \in [Boards -> BOOLEAN]
    /\ trapped \in [Boards -> BOOLEAN]
    /\ img \in [Boards -> Files]
    /\ fit \in [Boards -> Files]
    /\ builds \in 0..MaxBuilds

Init ==
    /\ tarball = [k \in Keys |-> NoFile]
    /\ exists = [b \in Boards |-> FALSE]
    /\ root = [b \in Boards |-> EmptyTree]
    /\ pc = [b \in Boards |-> "idle"]
    /\ host \in [Boards -> Hosts]
    /\ cached = [b \in Boards |-> FALSE]
    /\ trapped = [b \in Boards |-> FALSE]
    /\ img = [b \in Boards |-> NoFile]
    /\ fit = [b \in Boards |-> NoFile]
    /\ builds = 0
-----------------------------------------------------------------------------
Goto(b, stage) == pc' = [pc EXCEPT ![b] = stage]
Becomes(b, t) == root' = [root EXCEPT ![b] = t]
With(t, m) == [t EXCEPT !.marks = @ \cup m]
Without(t, m) == [t EXCEPT !.marks = @ \ m]
Installed(t, p) == [t EXCEPT !.pkgs = @ \cup {p}]

\* services_enable and the last lines of cleanup_chroot.  The mounts live in
\* the mount namespace of the build and go with it.
cleanup_chroot(t) == Without(t, Chroot)

\* The script ends early: with the EXIT trap, or before it was set.
Abort(b) ==
    /\ Becomes(b, IF trapped[b] THEN cleanup_chroot(root[b]) ELSE root[b])
    /\ trapped' = [trapped EXCEPT ![b] = FALSE]
    /\ Goto(b, "idle")

\* An existing output directory is refused.  The additional repositories are
\* looked up after it was made.
StartBuild(b) ==
    /\ pc[b] = "idle" /\ builds < MaxBuilds
    /\ ~exists[b]
    /\ builds' = builds + 1
    /\ exists' = [exists EXCEPT ![b] = TRUE]
    /\ Becomes(b, EmptyTree)
    /\ host' \in {[host EXCEPT ![b] = h] : h \in Hosts}
    /\ Goto(b, "base")
    /\ UNCHANGED <<tarball, cached, trapped, outputs>>

\* Mutant: tar's exit status is not looked at.
UseTarballAnyhow(b) ==
    /\ pc[b] = "base" /\ tarball[KeyOf[b]].there
    /\ Becomes(b, tarball[KeyOf[b]].tree)
    /\ cached' = [cached EXCEPT ![b] = TRUE]
    /\ Goto(b, "prepare")
    /\ UNCHANGED <<tarball, exists, host, trapped, outputs, builds>>

\* `tar xpf': a tarball that is not whole ends the build.
UseTarball(b) ==
    /\ pc[b] = "base" /\ tarball[KeyOf[b]].there
    /\ \/ /\ tarball[KeyOf[b]].whole
          /\ Becomes(b, tarball[KeyOf[b]].tree)
          /\ cached' = [cached EXCEPT ![b] = TRUE]
          /\ Goto(b, "prepare")
          /\ UNCHANGED trapped
       \/ /\ ~tarball[KeyOf[b]].whole
          /\ Abort(b)
          /\ UNCHANGED cached
    /\ UNCHANGED <<tarball, exists, host, outputs, builds>>

\* Both debootstrap stages; the host's name goes into /etc/hosts.
Debootstrap(b) ==
    /\ pc[b] = "base" /\ ~tarball[KeyOf[b]].there
    /\ Becomes(b, [Installed(root[b], "debian") EXCEPT !.names = @ \cup {host[b]}])
    /\ cached' = [cached EXCEPT ![b] = FALSE]
    /\ Goto(b, "prepare")
    /\ UNCHANGED <<tarball, exists, host, trapped, outputs, builds>>

\* prepare_chroot, services_disable.
PrepareChroot(b) ==
    /\ pc[b] = "prepare"
    /\ Becomes(b, With(root[b], Chroot))
    /\ trapped' = [trapped EXCEPT ![b] = TRUE]
    /\ Goto(b, IF cached[b] THEN "upgrade" ELSE "system")
    /\ UNCHANGED <<tarball, exists, context, outputs>>

\* Mutant: wb-essential is installed before the tarball is made.
BaseSystemEssential(b) ==
    /\ pc[b] = "system"
    /\ Becomes(b, [With(Installed(Installed(root[b], "base"), "essential"), Apt)
                      EXCEPT !.vendor = @ \/ b \in VendorBoards])
    /\ Goto(b, "archive")
    /\ UNCHANGED <<tarball, exists, context, trapped, outputs>>

\* The repositories, temporary pinning, board_override_repos, the locales and
\* task-wb-base-system.
BaseSystem(b) ==
    /\ pc[b] = "system"
    /\ Becomes(b, [With(Installed(root[b], "base"), Apt)
                      EXCEPT !.vendor = @ \/ b \in VendorBoards])
    /\ Goto(b, "archive")
    /\ UNCHANGED <<tarball, exists, context, trapped, outputs>>

\* Others that have the tarball of this key open for writing.
Writers(b) == {c \in Boards \ {b} : KeyOf[c] = KeyOf[b] /\ pc[c] = "archiving"}

\* `tar czpf' opens the tarball under its final name ...
OpenTarball(b) ==
    /\ pc[b] = "archive"
    /\ tarball' = [tarball EXCEPT ![KeyOf[b]] = Torn(Writers(b) # {})]
    /\ Goto(b, "archiving")
    /\ UNCHANGED <<dirs, context, trapped, outputs>>

\* ... and writes it.  What two writers leave behind may be anything.
CloseTarball(b) ==
    /\ pc[b] = "archiving"
    /\ \/ tarball' = [tarball EXCEPT ![KeyOf[b]] = Whole(root[b])]
       \/ /\ tarball[KeyOf[b]].mixed \/ Writers(b) # {}
          /\ tarball' = [tarball EXCEPT ![KeyOf[b]] = Torn(TRUE)]
    /\ Goto(b, "essential")
    /\ UNCHANGED <<dirs, context, trapped, outputs>>

\* With a cached base: additional repositories, then an upgrade.
UpgradeBase(b) ==
    /\ pc[b] = "upgrade"
    /\ Becomes(b, With(root[b], IF KeyOf[b] \in Experimental
                                  THEN {"wb-additional-tmp"} ELSE {}))
    /\ Goto(b, "essential")
    /\ UNCHANGED <<tarball, exists, context, trapped, outputs>>

\* Kernel, wb-essential, full-upgrade; wb-fw-version.
InstallEssential(b) ==
    /\ pc[b] = "essential"
    /\ Becomes(b, [Installed(root[b], "essential") EXCEPT !.version = TRUE])
    /\ Goto(b, "board")
    /\ UNCHANGED <<tarball, exists, context, trapped, outputs>>

\* BOARD_PACKAGES and board_install; a vendor's packages come from the
\* vendor's repository.
InstallBoard(b) ==
    /\ pc[b] = "board"
    /\ \/ /\ b \in VendorBoards => root[b].vendor
          /\ Becomes(b, Installed(root[b], "board"))
          /\ Goto(b, "finish")
          /\ UNCHANGED trapped
       \/ /\ b \in VendorBoards /\ ~root[b].vendor
          /\ Abort(b)
    /\ UNCHANGED <<tarball, exists, context, outputs>>

\* The installation's repositories and pins are removed and the line with
\* this machine's name is deleted from /etc/hosts; then the EXIT trap.
FinishBuild(b) ==
    /\ pc[b] = "finish"
    /\ Becomes(b, [cleanup_chroot(Without(root[b], Apt))
                      EXCEPT !.names = @ \ {host[b]}])
    /\ trapped' = [trapped EXCEPT ![b] = FALSE]
    /\ Goto(b, "done")
    /\ UNCHANGED <<tarball, exists, context, outputs>>
-----------------------------------------------------------------------------
\* create_images.sh needs the version and the release files of the rootfs.
\* That the build is done is its caller's doing: ci/image_from_releases_yaml.sh
\* runs it after create_rootfs.sh has succeeded.  The script itself does not
\* check it.
CreateImages(b) ==
    /\ pc[b] = "done"
    /\ root[b].version /\ "essential" \in root[b].pkgs
    /\ Goto(b, "img")
    /\ UNCHANGED <<tarball, dirs, context, trapped, outputs>>

\* MAKE_IMG: the old image is removed, the rootfs is tidied and copied into a
\* new one.
CreateImg(b) ==
    /\ pc[b] = "img"
    /\ \/ /\ Becomes(b, Without(root[b], {"policy-rc.d"}))
          /\ img' = [img EXCEPT ![b] = Whole(root'[b])]
       \/ UNCHANGED <<root, img>>
    /\ Goto(b, "fit")
    /\ UNCHANGED <<tarball, exists, context, trapped, fit>>

\* create_update.sh packs in a temporary directory; the result is written
\* under its final name by fit-aligner or by mv.
OpenFit(b) ==
    /\ pc[b] = "fit"
    /\ fit' = [fit EXCEPT ![b] = Torn(FALSE)]
    /\ Goto(b, "fitting")
    /\ UNCHANGED <<tarball, dirs, context, trapped, img>>

CloseFit(b) ==
    /\ pc[b] = "fitting"
    /\ fit' = [fit EXCEPT ![b] = Whole(root[b])]
    /\ Goto(b, "idle")
    /\ UNCHANGED <<tarball, dirs, context, trapped, img>>

\* What is left of an SD image that was being made, if one was.
BreakImg(b) ==
    \/ UNCHANGED img
    \/ pc[b] = "img" /\ img' = [img EXCEPT ![b] = Torn(FALSE)]

\* A command fails.
Fail(b) ==
    /\ "fail" \in Faults
    /\ pc[b] \notin {"idle", "done"}
    /\ Abort(b)
    /\ BreakImg(b)
    /\ UNCHANGED <<tarball, exists, context, fit>>

\* The machine goes down or the build is killed; no trap runs.
Kill(b) ==
    /\ "kill" \in Faults
    /\ pc[b] # "idle"
    /\ trapped' = [trapped EXCEPT ![b] = FALSE]
    /\ Goto(b, "idle")
    /\ BreakImg(b)
    /\ UNCHANGED <<tarball, dirs, context, fit>>

\* Someone removes the output directory, to build again.
RemoveOutput(b) ==
    /\ pc[b] = "idle" /\ exists[b]
    /\ exists' = [exists EXCEPT ![b] = FALSE]
    /\ Becomes(b, EmptyTree)
    /\ UNCHANGED <<tarball, pc, context, trapped, outputs>>

Step(b) ==
    \/ UseTarball(b) \/ Debootstrap(b) \/ PrepareChroot(b) \/ BaseSystem(b)
    \/ OpenTarball(b) \/ CloseTarball(b) \/ UpgradeBase(b)
    \/ InstallEssential(b) \/ InstallBoard(b) \/ FinishBuild(b)
    \/ CreateImages(b) \/ CreateImg(b) \/ OpenFit(b) \/ CloseFit(b)

Next ==
    \E b \in Boards :
        StartBuild(b) \/ Step(b) \/ Fail(b) \/ Kill(b) \/ RemoveOutput(b)

Spec == Init /\ [][Next]_vars
-----------------------------------------------------------------------------
\* Whatever happened to this and to earlier builds that share output/, an
\* image or update that is whole has every package set and none of the things
\* the build put there for itself; a vendor's one knows the vendor's
\* repository although the base may be another board's.
ImagesFinished ==
    \A b \in Boards : \A f \in {fit[b], img[b]} :
        f.whole => /\ f.tree.pkgs = Packages
                   /\ f.tree.marks = {} /\ f.tree.names = {}
                   /\ f.tree.version
                   /\ b \in VendorBoards => f.tree.vendor

\* A tarball that tar accepts is a complete base system of one build,
\* whatever happened to this and to other builds while it was made: no
\* package set beyond the base and no version.  Of its maker it has the
\* repositories and pins of the installation, policy-rc.d and resolv.conf, all
\* of which the build that unpacks it removes or replaces, one machine's name,
\* and the vendor's repository only if a vendor's board with this key made it
\* (create_rootfs.sh:328).
TarballIsBase ==
    \A k \in Keys : tarball[k].whole =>
        LET t == tarball[k].tree
        IN  /\ t.pkgs = {"debian", "base"} /\ ~t.version
            /\ t.marks = Marks
            /\ \E h \in Hosts : t.names = {h}
            /\ t.vendor => \E b \in VendorBoards : KeyOf[b] = k
=============================================================================
