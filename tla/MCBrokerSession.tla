-------------------------- MODULE MCBrokerSession --------------------------
(***************************************************************************)
(* Instances of BrokerSession for TLC.                                     *)
(***************************************************************************)
EXTENDS BrokerSession
=============================================================================
