------------------------------- MODULE MCScan -------------------------------
(* Scan on a small clock; the configurations give every constant a value.  *)
EXTENDS Scan
=============================================================================
