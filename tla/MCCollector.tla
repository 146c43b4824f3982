---------------------------- MODULE MCCollector ----------------------------
(* Instances of the collector for TLC. *)
EXTENDS Collector

CONSTANTS r1, r2, r3

\* All requests go to one device.  r1 and r2 differ in the high bits of their
\* sector only, so pack_key gives them one key; r3 has a key of its own.
MCdev    == [r \in Requests |-> 0]
MCsector == [r \in Requests |-> IF r = r1 THEN 0 ELSE IF r = r2 THEN 2 ELSE 1]
=============================================================================
