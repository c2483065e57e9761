--------------------------- MODULE MCHealthAudit ---------------------------
(* Small instances of HealthAudit for TLC. *)
EXTENDS HealthAudit
=============================================================================
