---------------------------- MODULE MCAuditLog ----------------------------
(* Three requests: a row to damage, one before it and one after it.        *)
EXTENDS AuditLog

CONSTANTS r1, r2, r3
MCRequests == {r1, r2, r3}
=============================================================================
