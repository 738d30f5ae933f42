--------------------------- MODULE MCAuditStream ---------------------------
(* AuditStream for TLC: two drainers, and sinks that are numbers (they have  *)
(* an order).                                                                *)
EXTENDS AuditStream

CONSTANTS t1, t2
============================================================================
