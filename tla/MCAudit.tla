------------------------------- MODULE MCAudit -------------------------------
(***************************************************************************)
(* A small instance of AuditReceipts: the gateway and the consumer append  *)
(* to one log, and the consumer reads a topic of two messages in three     *)
(* sessions.                                                               *)
(***************************************************************************)
EXTENDS AuditReceipts

CONSTANTS gateway, consumer, d1, d2, call
==============================================================================
