----------------------------- MODULE MCAuditLog -----------------------------
(* A small instance of AuditLog for TLC. *)
EXTENDS AuditLog

CONSTANTS e1, e2, e3
=============================================================================
