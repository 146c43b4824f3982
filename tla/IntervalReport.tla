--------------------------- MODULE IntervalReport ---------------------------
(***************************************************************************)
(* What the block latency collector promises its user, whatever happens    *)
(* underneath: items are recorded at any time; each round drains what is   *)
(* held and reports it; what is due when a round begins, or becomes due    *)
(* while it drains, is reported by that round.  Items that a round does    *)
(* not report may be dropped by its draining.  A round whose reading fails *)
(* reports nothing; after a reset that failed, an item may be reported     *)
(* again.  A stop drops the round, and nothing is reported any more.       *)
(*                                                                         *)
(* Collector implements this specification.                                *)
(***************************************************************************)
EXTENDS Integers

CONSTANT Items

VARIABLES
  mode,      \* "off", "idle", "draining", "ready" to report, or "stopped"
  recorded,  \* the items recorded so far
  held,      \* those that may still be reported
  due,       \* those that the current round is going to report
  faults,    \* the faults so far, of reading and of resetting
  reports    \* how often each item was reported, 2 for "2 or more"

vars == <<mode, recorded, held, due, faults, reports>>

Init ==
  /\ mode = "off"
  /\ recorded = {}
  /\ held = {}
  /\ due = {}
  /\ faults = {}
  /\ reports = [i \in Items |-> 0]

Start ==
  /\ mode = "off"
  /\ mode' = "idle"
  /\ UNCHANGED <<recorded, held, due, faults, reports>>

\* An item is recorded once.  Recorded during a round, it may still make it
\* into that round.
Record(i) ==
  /\ i \notin recorded
  /\ recorded' = recorded \cup {i}
  /\ held' = held \cup {i}
  /\ due' = due \/ (mode = "draining" /\ due' = due \cup {i})
  /\ UNCHANGED <<mode, faults, reports>>

Begin ==
  /\ mode = "idle"
  /\ mode' = "draining"
  /\ due' = held
  /\ UNCHANGED <<recorded, held, faults, reports>>

\* Draining may drop what is not due.
Drain ==
  /\ mode = "draining"
  /\ mode' \in {"draining", "ready"}
  /\ due \subseteq held' /\ held' \subseteq held
  /\ UNCHANGED <<recorded, due, faults, reports>>

ReadFault ==
  /\ mode = "draining"
  /\ faults' = faults \cup {"read"}
  /\ due' = {}
  /\ held' \subseteq held
  /\ UNCHANGED <<mode, recorded, reports>>

ResetFault ==
  /\ mode = "draining"
  /\ mode' = "ready"
  /\ faults' = faults \cup {"reset"}
  /\ UNCHANGED <<recorded, held, due, reports>>

Report ==
  /\ mode = "ready"
  /\ mode' = "idle"
  /\ reports' = [i \in Items |->
       IF i \in due /\ reports[i] < 2 THEN reports[i] + 1 ELSE reports[i]]
  /\ due' = {}
  /\ held \ due \subseteq held' /\ held' \subseteq held
  /\ "reset" \notin faults => held' = held \ due
  /\ UNCHANGED <<recorded, faults>>

\* Only what is due is dropped.
Stop ==
  /\ mode # "stopped"
  /\ mode' = "stopped"
  /\ due' = {}
  /\ held \ due \subseteq held' /\ held' \subseteq held
  /\ UNCHANGED <<recorded, faults, reports>>

Next ==
  \/ Start \/ Begin \/ Drain \/ ReadFault \/ ResetFault \/ Report \/ Stop
  \/ \E i \in Items : Record(i)

Spec == Init /\ [][Next]_vars
=============================================================================
