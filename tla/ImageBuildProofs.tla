-------------------------- MODULE ImageBuildProofs --------------------------
(***************************************************************************)
(* Proofs about ImageBuild, for every set of boards, keys and machines,    *)
(* any number of builds side by side, and any failure.                     *)
(***************************************************************************)
EXTENDS ImageBuild, TLAPS

-----------------------------------------------------------------------------
\* The steps of a build are made of these changes of a tree.
LEMMA TreeOps ==
    ASSUME NEW t \in Trees, NEW m \in SUBSET Marks, NEW p \in Packages
    PROVE  /\ With(t, m) \in Trees
           /\ Without(t, m) \in Trees
           /\ Installed(t, p) \in Trees
           /\ cleanup_chroot(t) \in Trees
BY DEF Trees, With, Without, Installed, cleanup_chroot, Chroot, Marks

LEMMA TreeFields ==
    ASSUME NEW t \in Trees,
           NEW n \in SUBSET Hosts, NEW v \in BOOLEAN
    PROVE  /\ [t EXCEPT !.names = n] \in Trees
           /\ [t EXCEPT !.vendor = v] \in Trees
           /\ [t EXCEPT !.version = v] \in Trees
BY DEF Trees

LEMMA EmptyTreeType == EmptyTree \in Trees
BY DEF EmptyTree, Trees

\* A file is missing, cut short, or a copy of a tree.
LEMMA FileTypes ==
    ASSUME NEW t \in Trees, NEW m \in BOOLEAN
    PROVE  NoFile \in Files /\ Torn(m) \in Files /\ Whole(t) \in Files
BY EmptyTreeType DEF NoFile, Torn, Whole, Files

\* The EXIT trap leaves a tree.
LEMMA AbortType ==
    ASSUME TypeOK, NEW b \in Boards, Abort(b)
    PROVE  /\ root' \in [Boards -> Trees]
           /\ trapped' \in [Boards -> BOOLEAN]
           /\ pc' \in [Boards -> Stages]
<1>1. root[b] \in Trees /\ cleanup_chroot(root[b]) \in Trees
  BY TreeOps DEF TypeOK, Marks, Packages
<1> QED
  BY <1>1 DEF Abort, Becomes, Goto, TypeOK, Stages

LEMMA BreakImgType ==
    ASSUME TypeOK, NEW b \in Boards, BreakImg(b)
    PROVE  img' \in [Boards -> Files]
BY FileTypes, EmptyTreeType DEF BreakImg, TypeOK

\* The state of all builds is always well typed, in particular what a tarball,
\* an image and an update contain is a tree that some build has made.
THEOREM TypeCorrect == Spec => []TypeOK
<1>1. Init => TypeOK
  <2>1. NoFile \in Files /\ 0 \in 0..MaxBuilds
    BY EmptyTreeType, BuildAssumption DEF NoFile, Files
  <2> QED
    BY <2>1, EmptyTreeType DEF Init, TypeOK, Stages
<1>2. TypeOK /\ [Next]_vars => TypeOK'
  <2> SUFFICES ASSUME TypeOK, [Next]_vars PROVE TypeOK'
    OBVIOUS
  <2>1. CASE UNCHANGED vars
    BY <2>1 DEF vars, TypeOK
  <2>2. ASSUME NEW b \in Boards, StartBuild(b) PROVE TypeOK'
    BY <2>2, EmptyTreeType, BuildAssumption
       DEF StartBuild, Becomes, Goto, outputs, TypeOK, Stages
  <2>3. ASSUME NEW b \in Boards, UseTarball(b) PROVE TypeOK'
    <3>1. KeyOf[b] \in Keys /\ tarball[KeyOf[b]].tree \in Trees
      BY BuildAssumption DEF TypeOK, Files
    <3> QED
      BY <2>3, <3>1, AbortType
         DEF UseTarball, Becomes, Goto, outputs, TypeOK, Stages
  <2>4. ASSUME NEW b \in Boards, Debootstrap(b) PROVE TypeOK'
    <3>1. Installed(root[b], "debian") \in Trees
      BY TreeOps DEF TypeOK, Packages
    <3>2. [Installed(root[b], "debian") EXCEPT !.names = @ \cup {host[b]}] \in Trees
      BY <3>1, ZenonT(60) DEF Trees, TypeOK
    <3> QED
      BY <2>4, <3>2 DEF Debootstrap, Becomes, Goto, outputs, TypeOK, Stages
  <2>5. ASSUME NEW b \in Boards, PrepareChroot(b) PROVE TypeOK'
    <3>1. With(root[b], Chroot) \in Trees
      BY TreeOps DEF TypeOK, Marks, Packages
    <3> QED
      BY <2>5, <3>1
         DEF PrepareChroot, Becomes, Goto, outputs, context, TypeOK, Stages
  <2>6. ASSUME NEW b \in Boards, BaseSystem(b) PROVE TypeOK'
    <3>1. Installed(root[b], "base") \in Trees
      BY TreeOps DEF TypeOK, Packages
    <3>2. With(Installed(root[b], "base"), Apt) \in Trees
      BY <3>1, TreeOps DEF Marks, Packages
    <3>3. [With(Installed(root[b], "base"), Apt)
              EXCEPT !.vendor = @ \/ b \in VendorBoards] \in Trees
      BY <3>2 DEF Trees
    <3> QED
      BY <2>6, <3>3
         DEF BaseSystem, Becomes, Goto, outputs, context, TypeOK, Stages
  <2>7. ASSUME NEW b \in Boards, OpenTarball(b) \/ CloseTarball(b) PROVE TypeOK'
    <3>1. Whole(root[b]) \in Files /\ Torn(TRUE) \in Files
      BY FileTypes DEF TypeOK
    <3>2. Torn(Writers(b) # {}) \in Files
      BY FileTypes, EmptyTreeType
    <3>3. tarball' \in [Keys -> Files]
      BY <2>7, <3>1, <3>2 DEF OpenTarball, CloseTarball, TypeOK
    <3> QED
      BY <2>7, <3>3
         DEF OpenTarball, CloseTarball, Goto, dirs, outputs, context, TypeOK, Stages
  <2>8. ASSUME NEW b \in Boards, UpgradeBase(b) PROVE TypeOK'
    <3>1. With(root[b], {"wb-additional-tmp"}) \in Trees /\ With(root[b], {}) \in Trees
      BY TreeOps DEF TypeOK, Marks, Apt, Packages
    <3> QED
      BY <2>8, <3>1
         DEF UpgradeBase, Becomes, Goto, outputs, context, TypeOK, Stages
  <2>9. ASSUME NEW b \in Boards, InstallEssential(b) PROVE TypeOK'
    <3>1. [Installed(root[b], "essential") EXCEPT !.version = TRUE] \in Trees
      BY TreeOps, TreeFields DEF TypeOK, Packages
    <3> QED
      BY <2>9, <3>1
         DEF InstallEssential, Becomes, Goto, outputs, context, TypeOK, Stages
  <2>10. ASSUME NEW b \in Boards, InstallBoard(b) PROVE TypeOK'
    <3>1. Installed(root[b], "board") \in Trees
      BY TreeOps DEF TypeOK, Packages
    <3> QED
      BY <2>10, <3>1, AbortType
         DEF InstallBoard, Becomes, Goto, outputs, context, TypeOK, Stages
  <2>11. ASSUME NEW b \in Boards, FinishBuild(b) PROVE TypeOK'
    <3>1. Without(root[b], Apt) \in Trees
      BY TreeOps DEF TypeOK, Marks, Packages
    <3>2. cleanup_chroot(Without(root[b], Apt)) \in Trees
      BY <3>1, TreeOps DEF Packages
    <3>3. [cleanup_chroot(Without(root[b], Apt)) EXCEPT !.names = @ \ {host[b]}] \in Trees
      BY <3>2 DEF Trees
    <3> QED
      BY <2>11, <3>3
         DEF FinishBuild, Becomes, Goto, outputs, context, TypeOK, Stages
  <2>12. ASSUME NEW b \in Boards, CreateImages(b) PROVE TypeOK'
    BY <2>12 DEF CreateImages, Goto, dirs, outputs, context, TypeOK, Stages
  <2>13. ASSUME NEW b \in Boards, CreateImg(b) PROVE TypeOK'
    <3>1. Without(root[b], {"policy-rc.d"}) \in Trees
      BY TreeOps DEF TypeOK, Marks, Chroot, Packages
    <3>2. root' \in [Boards -> Trees]
      BY <2>13, <3>1 DEF CreateImg, Becomes, TypeOK
    <3>3. img' \in [Boards -> Files]
      BY <2>13, <3>2, FileTypes DEF CreateImg, TypeOK
    <3> QED
      BY <2>13, <3>2, <3>3 DEF CreateImg, Goto, context, TypeOK, Stages
  <2>14. ASSUME NEW b \in Boards, OpenFit(b) \/ CloseFit(b) PROVE TypeOK'
    <3>1. Torn(FALSE) \in Files /\ Whole(root[b]) \in Files
      BY FileTypes DEF TypeOK
    <3> QED
      BY <2>14, <3>1, ZenonT(60) DEF OpenFit, CloseFit, Goto, dirs, context, TypeOK, Stages
  <2>15. ASSUME NEW b \in Boards, Fail(b) PROVE TypeOK'
    BY <2>15, AbortType, BreakImgType DEF Fail, context, TypeOK
  <2>16. ASSUME NEW b \in Boards, Kill(b) PROVE TypeOK'
    BY <2>16, BreakImgType DEF Kill, Goto, dirs, context, TypeOK, Stages
  <2>17. ASSUME NEW b \in Boards, RemoveOutput(b) PROVE TypeOK'
    BY <2>17, EmptyTreeType DEF RemoveOutput, Becomes, outputs, context, TypeOK
  <2> QED
    BY <2>1, <2>2, <2>3, <2>4, <2>5, <2>6, <2>7, <2>8, <2>9, <2>10, <2>11,
       <2>12, <2>13, <2>14, <2>15, <2>16, <2>17 DEF Next, Step
<1> QED
  BY <1>1, <1>2, PTL DEF Spec
-----------------------------------------------------------------------------
\* All builds run on machines of one name.  Otherwise the name of the machine
\* that made the tarball stays in /etc/hosts: FinishBuild deletes its own.
OneHost == \A g, h \in Hosts : g = h

\* A tree that may be handed out, as ImagesFinished says of what is whole.
Finished(b, t) ==
    /\ t.pkgs = Packages
    /\ t.marks = {} /\ (OneHost => t.names = {})
    /\ t.version
    /\ b \in VendorBoards => t.vendor

BaseOnly == {"debian", "base"}
WithEssential == {"debian", "base", "essential"}

\* A tree that debootstrap made on one machine, without a repository yet.
Fresh(t, pkgs, marks) ==
    /\ t.pkgs = pkgs /\ t.marks = marks /\ ~t.version /\ ~t.vendor
    /\ \E h \in Hosts : t.names = {h}

\* A tree that board b may pack into the tarball of its key.
Base(b, t) ==
    /\ t.pkgs = BaseOnly /\ t.marks = Marks /\ ~t.version
    /\ \E h \in Hosts : t.names = {h}
    /\ t.vendor => b \in VendorBoards

\* What the root file system of a board has at the stages of its build.  A
\* build that starts from the tarball and one that does not have the same
\* packages from "essential" on.
TreeAt(b) ==
    /\ pc[b] = "base" => root[b] = EmptyTree
    /\ pc[b] = "prepare" =>
          /\ cached[b] => root[b].pkgs = BaseOnly /\ ~root[b].version
          /\ ~cached[b] => Fresh(root[b], {"debian"}, {})
    /\ pc[b] = "system" => Fresh(root[b], {"debian"}, Chroot)
    /\ pc[b] \in {"archive", "archiving"} => Base(b, root[b])
    /\ pc[b] = "upgrade" => root[b].pkgs = BaseOnly /\ ~root[b].version
    /\ pc[b] = "essential" => root[b].pkgs = BaseOnly
    /\ pc[b] = "board" => root[b].pkgs = WithEssential /\ root[b].version
    /\ pc[b] = "finish" => /\ root[b].pkgs = Packages /\ root[b].version
                           /\ b \in VendorBoards => root[b].vendor
    /\ pc[b] \in {"done", "img", "fit", "fitting"} => Finished(b, root[b])

StageInv == \A b \in Boards : TreeAt(b)

WholeIsFinished ==
    \A b \in Boards : /\ fit[b].whole => Finished(b, fit[b].tree)
                      /\ img[b].whole => Finished(b, img[b].tree)

BuildInv == StageInv /\ TarballIsBase /\ WholeIsFinished

\* A step of one build leaves the trees of the others alone.
LEMMA OtherBoards ==
    ASSUME StageInv, NEW b \in Boards, TreeAt(b)',
           \A c \in Boards \ {b} : /\ root'[c] = root[c] /\ pc'[c] = pc[c]
                                   /\ cached'[c] = cached[c]
    PROVE  StageInv'
BY DEF StageInv, TreeAt

\* A build that ends early has no tree that anything is said about.
LEMMA AbortKeeps ==
    ASSUME TypeOK, StageInv, NEW b \in Boards, Abort(b), UNCHANGED cached
    PROVE  StageInv'
<1>1. pc'[b] = "idle"
  BY DEF Abort, Goto, TypeOK
<1>2. TreeAt(b)'
  BY <1>1 DEF TreeAt
<1> QED
  BY <1>2, OtherBoards DEF Abort, Becomes, Goto, TypeOK

\* An SD image that was being made is not whole.
LEMMA BreakImgKeeps ==
    ASSUME TypeOK, WholeIsFinished, NEW b \in Boards, BreakImg(b), UNCHANGED fit
    PROVE  WholeIsFinished'
<1>1. \A c \in Boards : img'[c] = img[c] \/ ~img'[c].whole
  BY DEF BreakImg, Torn, NoFile, TypeOK
<1> QED
  BY <1>1 DEF WholeIsFinished, Finished

LEMMA BuildInvInit == Init => BuildInv
BY BuildAssumption
   DEF Init, BuildInv, StageInv, TreeAt, TarballIsBase, WholeIsFinished, NoFile

LEMMA BuildInvNext == TypeOK /\ BuildInv /\ [Next]_vars => BuildInv'
<1> SUFFICES ASSUME TypeOK, BuildInv, [Next]_vars PROVE BuildInv'
  OBVIOUS
<1>0. StageInv /\ TarballIsBase /\ WholeIsFinished
  BY DEF BuildInv
<1> USE DEF Goto, Becomes, dirs, outputs, context
<1>1. CASE UNCHANGED vars
  BY <1>0, <1>1 DEF vars, BuildInv, StageInv, TreeAt, TarballIsBase,
                    WholeIsFinished
<1>2. ASSUME NEW b \in Boards, StartBuild(b) PROVE BuildInv'
  <2>1. TreeAt(b)'
    BY <1>2 DEF StartBuild, TreeAt, EmptyTree, TypeOK
  <2> QED
    BY <1>0, <1>2, <2>1, OtherBoards
       DEF StartBuild, BuildInv, TarballIsBase, WholeIsFinished, TypeOK
<1>3. ASSUME NEW b \in Boards, UseTarball(b) PROVE BuildInv'
  <2>1. TarballIsBase' /\ WholeIsFinished'
    BY <1>0, <1>3 DEF UseTarball, TarballIsBase, WholeIsFinished
  <2>2. CASE tarball[KeyOf[b]].whole
    <3>1. LET t == tarball[KeyOf[b]].tree IN t.pkgs = BaseOnly /\ ~t.version
      BY <1>0, <2>2, BuildAssumption DEF TarballIsBase, BaseOnly
    <3>2. /\ root'[b] = tarball[KeyOf[b]].tree
          /\ pc'[b] = "prepare" /\ cached'[b] = TRUE
      BY <1>3, <2>2 DEF UseTarball, TypeOK
    <3>3. TreeAt(b)'
      BY <3>1, <3>2 DEF TreeAt
    <3> QED
      BY <1>0, <1>3, <2>1, <2>2, <3>3, OtherBoards DEF UseTarball, BuildInv, TypeOK
  <2>3. CASE ~tarball[KeyOf[b]].whole
    BY <1>0, <1>3, <2>1, <2>3, AbortKeeps DEF UseTarball, BuildInv
  <2> QED
    BY <2>2, <2>3
<1>4. ASSUME NEW b \in Boards, Debootstrap(b) PROVE BuildInv'
  <2>1. TreeAt(b)'
    <3>1. root[b] = EmptyTree
      BY <1>0, <1>4 DEF Debootstrap, StageInv, TreeAt
    <3>2. /\ root'[b] = [Installed(EmptyTree, "debian") EXCEPT !.names = @ \cup {host[b]}]
          /\ pc'[b] = "prepare" /\ cached'[b] = FALSE
      BY <1>4, <3>1 DEF Debootstrap, TypeOK
    <3>3. host[b] \in Hosts
      BY DEF TypeOK
    <3>4. Fresh(root'[b], {"debian"}, {})
      BY <3>2, <3>3 DEF Fresh, Installed, EmptyTree
    <3> QED
      BY <3>2, <3>4 DEF TreeAt
  <2> QED
    BY <1>0, <1>4, <2>1, OtherBoards
       DEF Debootstrap, BuildInv, TarballIsBase, WholeIsFinished, TypeOK
<1>5. ASSUME NEW b \in Boards, PrepareChroot(b) PROVE BuildInv'
  <2>1. TreeAt(b)'
    <3>1. /\ root'[b] = With(root[b], Chroot)
          /\ pc'[b] = IF cached[b] THEN "upgrade" ELSE "system"
      BY <1>5 DEF PrepareChroot, TypeOK
    <3>2. CASE cached[b]
      BY <1>0, <1>5, <3>1, <3>2
         DEF PrepareChroot, StageInv, TreeAt, With, BaseOnly, Trees, TypeOK
    <3>3. CASE ~cached[b]
      <4>1. Fresh(root[b], {"debian"}, {}) /\ root[b] \in Trees
        BY <1>0, <1>5, <3>3 DEF PrepareChroot, StageInv, TreeAt, TypeOK
      <4>2. Fresh(root'[b], {"debian"}, Chroot)
        BY <3>1, <4>1 DEF Fresh, With, Trees
      <4> QED
        BY <3>1, <3>3, <4>2 DEF TreeAt
    <3> QED
      BY <3>2, <3>3
  <2> QED
    BY <1>0, <1>5, <2>1, OtherBoards
       DEF PrepareChroot, BuildInv, TarballIsBase, WholeIsFinished, TypeOK
<1>6. ASSUME NEW b \in Boards, BaseSystem(b) PROVE BuildInv'
  <2>1. TreeAt(b)'
    <3>1. Fresh(root[b], {"debian"}, Chroot) /\ root[b] \in Trees
      BY <1>0, <1>6 DEF BaseSystem, StageInv, TreeAt, TypeOK
    <3>2. /\ root'[b] = [With(Installed(root[b], "base"), Apt)
                            EXCEPT !.vendor = @ \/ b \in VendorBoards]
          /\ pc'[b] = "archive"
      BY <1>6 DEF BaseSystem, TypeOK
    <3>3. Base(b, root'[b])
      BY <3>1, <3>2 DEF Base, Fresh, With, Installed, BaseOnly, Marks, Trees
    <3> QED
      BY <3>2, <3>3 DEF TreeAt
  <2> QED
    BY <1>0, <1>6, <2>1, OtherBoards
       DEF BaseSystem, BuildInv, TarballIsBase, WholeIsFinished, TypeOK
<1>7. ASSUME NEW b \in Boards, OpenTarball(b) PROVE BuildInv'
  <2>1. TreeAt(b)'
    BY <1>0, <1>7 DEF OpenTarball, StageInv, TreeAt, TypeOK
  <2>2. TarballIsBase'
    BY <1>0, <1>7 DEF OpenTarball, TarballIsBase, Torn, NoFile, TypeOK
  <2> QED
    BY <1>0, <1>7, <2>1, <2>2, OtherBoards
       DEF OpenTarball, BuildInv, WholeIsFinished, TypeOK
<1>8. ASSUME NEW b \in Boards, CloseTarball(b) PROVE BuildInv'
  <2>1. TreeAt(b)'
    BY <1>0, <1>8 DEF CloseTarball, StageInv, TreeAt, Base, TypeOK
  <2>2. TarballIsBase'
    <3>1. Base(b, root[b])
      BY <1>0, <1>8 DEF CloseTarball, StageInv, TreeAt
    <3>2. \A k \in Keys : \/ tarball'[k] = tarball[k]
                          \/ k = KeyOf[b] /\ tarball'[k] = Whole(root[b])
                          \/ tarball'[k] = Torn(TRUE)
      BY <1>8 DEF CloseTarball, TypeOK
    <3>3. Whole(root[b]).tree = root[b] /\ ~Torn(TRUE).whole
      BY DEF Whole, Torn, NoFile
    <3>4. ASSUME NEW k \in Keys, tarball'[k].whole
          PROVE  /\ tarball'[k].tree.pkgs = {"debian", "base"}
                 /\ ~tarball'[k].tree.version
                 /\ tarball'[k].tree.marks = Marks
                 /\ \E h \in Hosts : tarball'[k].tree.names = {h}
                 /\ tarball'[k].tree.vendor => \E c \in VendorBoards : KeyOf[c] = k
      <4>1. CASE tarball'[k] = tarball[k]
        BY <1>0, <3>4, <4>1 DEF TarballIsBase
      <4>2. CASE k = KeyOf[b] /\ tarball'[k] = Whole(root[b])
        BY <3>1, <3>3, <4>2 DEF Base, BaseOnly
      <4> QED
        BY <3>2, <3>3, <3>4, <4>1, <4>2
    <3> QED
      BY <3>4 DEF TarballIsBase
  <2> QED
    BY <1>0, <1>8, <2>1, <2>2, OtherBoards
       DEF CloseTarball, BuildInv, WholeIsFinished, TypeOK
<1>9. ASSUME NEW b \in Boards, UpgradeBase(b) PROVE BuildInv'
  <2>1. TreeAt(b)'
    BY <1>0, <1>9 DEF UpgradeBase, StageInv, TreeAt, With, Trees, TypeOK
  <2> QED
    BY <1>0, <1>9, <2>1, OtherBoards
       DEF UpgradeBase, BuildInv, TarballIsBase, WholeIsFinished, TypeOK
<1>10. ASSUME NEW b \in Boards, InstallEssential(b) PROVE BuildInv'
  <2>1. TreeAt(b)'
    BY <1>0, <1>10 DEF InstallEssential, StageInv, TreeAt, Installed, BaseOnly,
                       WithEssential, Trees, TypeOK
  <2> QED
    BY <1>0, <1>10, <2>1, OtherBoards
       DEF InstallEssential, BuildInv, TarballIsBase, WholeIsFinished, TypeOK
<1>11. ASSUME NEW b \in Boards, InstallBoard(b) PROVE BuildInv'
  <2>1. TarballIsBase' /\ WholeIsFinished'
    BY <1>0, <1>11 DEF InstallBoard, TarballIsBase, WholeIsFinished
  <2>2. CASE b \in VendorBoards => root[b].vendor
    <3>1. TreeAt(b)'
      BY <1>0, <1>11, <2>2, SMTT(60)
         DEF InstallBoard, StageInv, TreeAt, Installed, WithEssential, Packages, Trees, TypeOK
    <3> QED
      BY <1>0, <1>11, <2>1, <2>2, <3>1, OtherBoards DEF InstallBoard, BuildInv, TypeOK
  <2>3. CASE ~(b \in VendorBoards => root[b].vendor)
    BY <1>0, <1>11, <2>1, <2>3, AbortKeeps DEF InstallBoard, BuildInv
  <2> QED
    BY <2>2, <2>3
<1>12. ASSUME NEW b \in Boards, FinishBuild(b) PROVE BuildInv'
  <2>1. Finished(b, root'[b])
    BY <1>0, <1>12 DEF FinishBuild, StageInv, TreeAt, Finished, Without, OneHost,
                       cleanup_chroot, Marks, Packages, Trees, TypeOK
  <2>2. TreeAt(b)'
    BY <1>12, <2>1 DEF FinishBuild, TreeAt, TypeOK
  <2> QED
    BY <1>0, <1>12, <2>2, OtherBoards
       DEF FinishBuild, BuildInv, TarballIsBase, WholeIsFinished, TypeOK
<1>13. ASSUME NEW b \in Boards, CreateImages(b) PROVE BuildInv'
  <2>1. TreeAt(b)'
    BY <1>0, <1>13 DEF CreateImages, StageInv, TreeAt, TypeOK
  <2> QED
    BY <1>0, <1>13, <2>1, OtherBoards
       DEF CreateImages, BuildInv, TarballIsBase, WholeIsFinished, TypeOK
<1>14. ASSUME NEW b \in Boards, CreateImg(b) PROVE BuildInv'
  <2>1. Finished(b, root'[b])
    BY <1>0, <1>14, SMTT(60) DEF CreateImg, StageInv, TreeAt, Finished, Without, Trees, TypeOK
  <2>2. TreeAt(b)'
    BY <1>14, <2>1 DEF CreateImg, TreeAt, TypeOK
  <2>3. WholeIsFinished'
    BY <1>0, <1>14, <2>1 DEF CreateImg, WholeIsFinished, Whole, Finished, TypeOK
  <2> QED
    BY <1>0, <1>14, <2>2, <2>3, OtherBoards
       DEF CreateImg, BuildInv, TarballIsBase, TypeOK
<1>15. ASSUME NEW b \in Boards, OpenFit(b) PROVE BuildInv'
  <2>1. TreeAt(b)'
    BY <1>0, <1>15 DEF OpenFit, StageInv, TreeAt, TypeOK
  <2>2. WholeIsFinished'
    BY <1>0, <1>15 DEF OpenFit, WholeIsFinished, Torn, NoFile, Finished, TypeOK
  <2> QED
    BY <1>0, <1>15, <2>1, <2>2, OtherBoards
       DEF OpenFit, BuildInv, TarballIsBase, TypeOK
<1>16. ASSUME NEW b \in Boards, CloseFit(b) PROVE BuildInv'
  <2>1. Finished(b, root[b])
    BY <1>0, <1>16 DEF CloseFit, StageInv, TreeAt
  <2>2. TreeAt(b)'
    BY <1>16 DEF CloseFit, TreeAt, TypeOK
  <2>3. WholeIsFinished'
    <3>1. fit'[b].tree = root[b]
      BY <1>16 DEF CloseFit, Whole, TypeOK
    <3>2. \A c \in Boards \ {b} : fit'[c] = fit[c]
      BY <1>16 DEF CloseFit, TypeOK
    <3> QED
      BY <1>0, <1>16, <2>1, <3>1, <3>2 DEF CloseFit, WholeIsFinished, Finished
  <2> QED
    BY <1>0, <1>16, <2>2, <2>3, OtherBoards
       DEF CloseFit, BuildInv, TarballIsBase, TypeOK
<1>17. ASSUME NEW b \in Boards, Fail(b) PROVE BuildInv'
  BY <1>0, <1>17, AbortKeeps, BreakImgKeeps DEF Fail, BuildInv, TarballIsBase
<1>18. ASSUME NEW b \in Boards, Kill(b) PROVE BuildInv'
  <2>1. TreeAt(b)'
    BY <1>18 DEF Kill, TreeAt, TypeOK
  <2> QED
    BY <1>0, <1>18, <2>1, OtherBoards, BreakImgKeeps
       DEF Kill, BuildInv, TarballIsBase, TypeOK
<1>19. ASSUME NEW b \in Boards, RemoveOutput(b) PROVE BuildInv'
  <2>1. TreeAt(b)'
    BY <1>19 DEF RemoveOutput, TreeAt, TypeOK
  <2> QED
    BY <1>0, <1>19, <2>1, OtherBoards
       DEF RemoveOutput, BuildInv, TarballIsBase, WholeIsFinished, TypeOK
<1> QED
  BY <1>1, <1>2, <1>3, <1>4, <1>5, <1>6, <1>7, <1>8, <1>9, <1>10, <1>11,
     <1>12, <1>13, <1>14, <1>15, <1>16, <1>17, <1>18, <1>19 DEF Next, Step

\* A base tarball that tar accepts is the complete base system of one build,
\* whatever was killed or failed while it was written: no later package set,
\* no version, all marks of the build, the name of one machine, and a vendor's
\* repository only if one of the vendor's boards has this key.
THEOREM TarballAlwaysBase == Spec => []TarballIsBase
<1>1. BuildInv => TarballIsBase
  BY DEF BuildInv
<1> QED
  BY <1>1, BuildInvInit, BuildInvNext, TypeCorrect, PTL DEF Spec

\* On machines of one name, every image and update that is whole is finished:
\* it has all packages and nothing the build put in for itself, through
\* failures, kills, cached bases and builds side by side.
THEOREM ImagesAlwaysFinished == OneHost => (Spec => []ImagesFinished)
<1> SUFFICES ASSUME OneHost PROVE Spec => []ImagesFinished
  OBVIOUS
<1>1. BuildInv => ImagesFinished
  <2> SUFFICES ASSUME WholeIsFinished, NEW b \in Boards, NEW f \in {fit[b], img[b]},
                      f.whole
               PROVE  Finished(b, f.tree)
    BY DEF BuildInv, Finished, ImagesFinished
  <2>1. CASE f = fit[b]
    BY <2>1 DEF WholeIsFinished
  <2>2. CASE f = img[b]
    BY <2>2 DEF WholeIsFinished
  <2> QED
    BY <2>1, <2>2
<1> QED
  BY <1>1, BuildInvInit, BuildInvNext, TypeCorrect, PTL DEF Spec
=============================================================================
