----------------------------- MODULE MCAuditLog -----------------------------
(* An instance of AuditLog. *)
EXTENDS AuditLog, TLC

CONSTANTS x, y   \* payloads
=============================================================================
