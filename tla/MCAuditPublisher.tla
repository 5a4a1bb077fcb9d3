-------------------------- MODULE MCAuditPublisher --------------------------
(* The file and the URL receiver of cmd/server, with short queues.  Progress  *)
(* is checked as well, so the requests are not taken for interchangeable.     *)
EXTENDS AuditPublisher
=============================================================================
