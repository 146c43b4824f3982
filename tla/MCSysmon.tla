------------------------------ MODULE MCSysmon ------------------------------
(* Instances of the process for TLC. *)
EXTENDS Sysmon
=============================================================================
