-------------------------- MODULE MCRuntimeSupervisor --------------------------
(***************************************************************************)
(* A small instance of RuntimeSupervisor.                                  *)
(***************************************************************************)
EXTENDS RuntimeSupervisor

MCAttempts == [q \in Queue |-> IF q = "INBOX" THEN 1 ELSE 2]
===============================================================================
