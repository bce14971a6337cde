--------------------------- MODULE MCPersistence ---------------------------
(***************************************************************************)
(* Instances of Persistence for TLC.                                       *)
(***************************************************************************)
EXTENDS Persistence, TLC

\* Published messages are retained or clear a topic; wills are neither.
MCKinds == [retain : {TRUE}, payload : BOOLEAN]

\* Client ids are interchangeable.
Perms == Permutations(Clients)
=============================================================================
