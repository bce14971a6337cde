-------------------------- MODULE MCClientNetwork --------------------------
(***************************************************************************)
(* Instances of ClientNetwork for TLC.  With Radix 2 the remaining length  *)
(* takes one byte up to 1, two up to 3, three up to 7 and four up to 15.   *)
(***************************************************************************)
EXTENDS ClientNetwork

MCBodies == {[i \in 1..15 |-> i % 4], <<0>>, [i \in 1..16 |-> 2]}
MCHello == <<1, 2>>
=============================================================================
