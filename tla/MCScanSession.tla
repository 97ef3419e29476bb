---------------------------- MODULE MCScanSession ---------------------------
(* Instances of ScanSession for TLC: every flow against every device.        *)
EXTENDS ScanSession

=============================================================================
