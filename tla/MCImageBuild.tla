----------------------------- MODULE MCImageBuild -----------------------------
(***************************************************************************)
(* An instance of ImageBuild for TLC: three i.MX28 boards, one of them a   *)
(* vendor's, with the same repositories and so with the same base tarball. *)
(***************************************************************************)
EXTENDS ImageBuild

MCBoards == {"55", "58", "55-S"}
MCKeys == {"wb5"}
MCKeyOf == [b \in MCBoards |-> "wb5"]
=============================================================================
