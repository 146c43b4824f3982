----------------------------- MODULE MCCpuUsage -----------------------------
(* Instances of the CPU section for TLC. *)
EXTENDS CpuUsage
=============================================================================
