--------------------------- MODULE MCBlockLatency ---------------------------
(* Instances of the kernel half for TLC. *)
EXTENDS BlockLatency

CONSTANTS r1, r2, r3

\* All requests go to one device.  r1 and r2 differ in the high bits of their
\* sector only, so pack_key gives them one key; r3 has a key of its own.
MCdev    == [r \in Requests |-> 0]
MCsector == [r \in Requests |-> IF r = r1 THEN 0 ELSE IF r = r2 THEN 2 ELSE 1]

\* Every request is issued under an attached issue program, so that a start
\* stored for it can only be lost to another store.
IssuesTraced ==
  \A r \in Requests : st[r] = "new" /\ st'[r] # "new" => IssueOn
TracedSpec == Init /\ [][Next /\ IssuesTraced]_kernelVars
=============================================================================
