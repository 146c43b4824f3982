----------------------------- MODULE Collector -----------------------------
(***************************************************************************)
(* The user half of the block latency collector (internal/ebpf/loader.go)  *)
(* as the main loop of cmd/sysmon/main.go drives it, composed with the     *)
(* kernel half: NewCollector, then one ReadHistogram, ResetHistogram and   *)
(* render per tick, then Close.                                            *)
(*                                                                         *)
(* A map operation of user space on one bucket is one step; probes run     *)
(* between any two of them.                                                *)
(***************************************************************************)
EXTENDS BlockLatency

VARIABLES
  coll,      \* where the collector's caller is
  objs,      \* whether the BPF objects are loaded
  bucket,    \* the loop variable i of ReadHistogram and ResetHistogram
  buckets,   \* latencyBuckets: what this tick has read, by bucket
  failed,    \* history: operations whose error the main loop has dropped
  unseen,    \* history: requests that a tick has counted too late to read, or
             \* failed to read, before it resets their bucket
  again,     \* history: requests of a frame that a failed reset has left in the
             \* histogram
  shown      \* history: in how many frames r was shown, 2 for "2 or more"

userVars == <<coll, objs, bucket, buckets, failed, unseen, again, shown>>
vars == <<kernelVars, userVars>>

Phases == {"start", "attachIssue", "attachComplete", "wait", "read", "reset",
           "render", "closing", "closed"}
NoBuckets == [b \in Buckets |-> {}]

CollectorInit ==
  /\ Init
  /\ coll = "start"
  /\ objs = FALSE
  /\ bucket = 0
  /\ buckets = NoBuckets
  /\ failed = {}
  /\ unseen = {}
  /\ again = {}
  /\ shown = [r \in Requests |-> 0]

-----------------------------------------------------------------------------
(* NewCollector *)

\* No BTF, or the kernel refuses the objects: nothing was acquired.
LoadFails ==
  /\ coll = "start"
  /\ coll' = "closed"
  /\ UNCHANGED <<kernelVars, objs, bucket, buckets, failed, unseen, again,
                 shown>>

LoadObjects ==
  /\ coll = "start"
  /\ coll' = "attachIssue"
  /\ objs' = TRUE
  /\ UNCHANGED <<kernelVars, bucket, buckets, failed, unseen, again, shown>>

\* The two link.Tracepoint calls, issue before complete.
AttachLink ==
  /\ \/ coll = "attachIssue" /\ coll' = "attachComplete"
     \/ coll = "attachComplete" /\ coll' = "wait"
  /\ Attach
  /\ UNCHANGED <<objs, bucket, buckets, failed, unseen, again, shown>>

\* Mutant: the error path of an attach forgets what was acquired.
AttachLeaks ==
  /\ coll \in {"attachIssue", "attachComplete"}
  /\ coll' = "closed"
  /\ UNCHANGED <<kernelVars, objs, bucket, buckets, failed, unseen, again,
                 shown>>

\* One of them fails: what was acquired so far is released as in Close.
AttachFails ==
  /\ coll \in {"attachIssue", "attachComplete"}
  /\ coll' = "closing"
  /\ UNCHANGED <<kernelVars, objs, bucket, buckets, failed, unseen, again,
                 shown>>

-----------------------------------------------------------------------------
(* One tick of the main loop. *)

InFrame(r) == \E b \in Buckets : r \in buckets[b]
InHist(r)  == \E b \in Buckets : r \in hist[b]

BeginRead ==
  /\ coll = "wait"
  /\ coll' = "read"
  /\ bucket' = 0
  /\ buckets' = NoBuckets
  /\ UNCHANGED <<kernelVars, objs, failed, unseen, again, shown>>

\* Mutants of the loop condition: one bucket too many, one too few.
NextBucketOver(after) ==
  IF bucket < HIST_BUCKETS
  THEN bucket' = bucket + 1 /\ UNCHANGED coll
  ELSE bucket' = 0 /\ coll' = after
NextBucketUnder(after) ==
  IF bucket + 2 < HIST_BUCKETS
  THEN bucket' = bucket + 1 /\ UNCHANGED coll
  ELSE bucket' = 0 /\ coll' = after

\* To the next bucket of a loop over all of them, or past the loop.
NextBucket(after) ==
  IF bucket + 1 < HIST_BUCKETS
  THEN bucket' = bucket + 1 /\ UNCHANGED coll
  ELSE bucket' = 0 /\ coll' = after

\* Mutants: buckets stored in reverse; the reset left out of the tick.
ReadReversed ==
  /\ coll = "read"
  /\ buckets' = [buckets EXCEPT ![HIST_BUCKETS - 1 - bucket] = hist[bucket]]
  /\ NextBucket("reset")
  /\ UNCHANGED <<kernelVars, objs, failed, unseen, again, shown>>
ReadWithoutReset ==
  /\ coll = "read"
  /\ buckets' = [buckets EXCEPT ![bucket] = hist[bucket]]
  /\ NextBucket("render")
  /\ UNCHANGED <<kernelVars, objs, failed, unseen, again, shown>>

\* histBuckets = HIST_BUCKETS, so no lookup misses and no put is refused for
\* its index.
ReadBucket ==
  /\ coll = "read"
  /\ buckets' = [buckets EXCEPT ![bucket] = hist[bucket]]
  /\ NextBucket("reset")
  /\ UNCHANGED <<kernelVars, objs, failed, unseen, again, shown>>

\* ReadHistogram returns nil and an error; main.go drops the error and goes
\* on to reset the histogram, so that what is in it will not be seen.
ReadFails ==
  /\ coll = "read"
  /\ coll' = "reset"
  /\ bucket' = 0
  /\ buckets' = NoBuckets
  /\ failed' = failed \cup {"read"}
  /\ unseen' = unseen \cup {r \in Requests : InHist(r)}
  /\ UNCHANGED <<kernelVars, objs, again, shown>>

ResetBucket ==
  /\ coll = "reset"
  /\ PutZero(bucket)
  /\ NextBucket("render")
  /\ UNCHANGED <<objs, buckets, failed, unseen, again, shown>>

\* Mutant: a failed reset drops the frame that was read.
ResetFailsDropping ==
  /\ coll = "reset"
  /\ coll' = "wait"
  /\ bucket' = 0
  /\ buckets' = NoBuckets
  /\ failed' = failed \cup {"reset"}
  /\ unseen' = {r \in unseen : ~InHist(r)}
  /\ again' = again \cup {r \in Requests : InFrame(r) /\ InHist(r)}
  /\ UNCHANGED <<kernelVars, objs, shown>>

\* ResetHistogram gives up at the first error, which main.go drops: what it did
\* not wipe is there to be read by the next tick, for the second time if it is
\* in this tick's frame.
ResetFails ==
  /\ coll = "reset"
  /\ coll' = "render"
  /\ bucket' = 0
  /\ failed' = failed \cup {"reset"}
  /\ unseen' = {r \in unseen : ~InHist(r)}
  /\ again' = again \cup {r \in Requests : InFrame(r) /\ InHist(r)}
  /\ UNCHANGED <<kernelVars, objs, buckets, shown>>

Render ==
  /\ coll = "render"
  /\ coll' = "wait"
  /\ shown' = [r \in Requests |->
       IF InFrame(r) /\ shown[r] < 2 THEN shown[r] + 1 ELSE shown[r]]
  /\ buckets' = NoBuckets
  /\ UNCHANGED <<kernelVars, objs, bucket, failed, unseen, again>>

-----------------------------------------------------------------------------
(* The ends: Close, deferred by run, and the exit of the process. *)

\* run returns because another sample of a tick failed.
BeginClose ==
  /\ coll = "wait"
  /\ coll' = "closing"
  /\ UNCHANGED <<kernelVars, objs, bucket, buckets, failed, unseen, again,
                 shown>>

\* The signal goroutine calls os.Exit, in the middle of anything: the frame is
\* never shown, and the kernel closes what the process had open, in order.
Exit ==
  /\ coll \notin {"closing", "closed"}
  /\ coll' = "closing"
  /\ buckets' = NoBuckets
  /\ UNCHANGED <<kernelVars, objs, bucket, failed, unseen, again, shown>>

\* Mutant: the links are closed in reverse order.
CloseReversed ==
  /\ coll = "closing"
  /\ IssueOn \/ CompleteOn
  /\ links' = IF links = "both" THEN "issue" ELSE "detached"
  /\ UNCHANGED <<clock, start_times, hist, st, issuedAt, start, val, now,
                 aliased, userVars>>

\* The links in the order they were appended, then the objects.
CloseLink ==
  /\ coll = "closing"
  /\ Detach
  /\ UNCHANGED userVars

CloseObjects ==
  /\ coll = "closing"
  /\ ~IssueOn /\ ~CompleteOn
  /\ objs' = FALSE
  /\ coll' = "closed"
  /\ UNCHANGED <<kernelVars, bucket, buckets, failed, unseen, again, shown>>

-----------------------------------------------------------------------------
\* The buckets that this tick has read and not yet zeroed.
Window ==
  CASE coll = "read"  -> 0 .. bucket - 1
    [] coll = "reset" -> bucket .. HIST_BUCKETS - 1
    [] OTHER -> {}

\* A step of the kernel; a request counted in the window comes too late.
KernelStep ==
  /\ KernelNext
  /\ unseen' = unseen \cup UNION {hist'[b] \ hist[b] : b \in Window}
  /\ UNCHANGED <<coll, objs, bucket, buckets, failed, again, shown>>

LoopStep == BeginRead \/ ReadBucket \/ ResetBucket \/ Render

UserStep ==
  \/ LoadFails \/ LoadObjects \/ AttachLink \/ AttachFails
  \/ LoopStep \/ ReadFails \/ ResetFails
  \/ BeginClose \/ Exit \/ CloseLink \/ CloseObjects

CollectorNext == KernelStep \/ UserStep

\* The ticker keeps firing and the main goroutine keeps being scheduled.
CollectorSpec ==
  CollectorInit /\ [][CollectorNext]_vars /\ WF_vars(LoopStep)

-----------------------------------------------------------------------------
\* Types of all variables; the loop index stays within the histogram.
CollectorTypeOK ==
  /\ TypeOK
  /\ coll \in Phases
  /\ objs \in BOOLEAN
  /\ bucket \in Buckets
  /\ buckets \in [Buckets -> SUBSET Requests]
  /\ failed \in SUBSET {"read", "reset"}
  /\ unseen \in SUBSET Requests
  /\ again \in SUBSET Requests
  /\ shown \in [Requests -> 0 .. 2]

\* The frame that is about to be rendered shows every request with a key of
\* its own in the bucket of its own latency, although nothing shown was
\* checked when it was counted and probes ran on while the buckets were read
\* (loader.go:80-99, block_latency.c:116-129).
FrameExact ==
  coll = "render" => \A b \in Buckets : \A r \in buckets[b] :
    Clean(r) => b = BucketOf(now[r], issuedAt[r])

\* And the row says what is true of it: the time from its issue to its
\* completion, in whole microseconds, lies between the two ends of the label, or
\* beyond the whole scale in the last row, where the code prints an upper end
\* that is false of it; that time is never the wrapped difference of a start
\* later than the completion (block_latency.c:64-96, 121-125,
\* loader.go:156-165).
LabelsTrue ==
  coll = "render" => \A b \in Buckets : \A r \in buckets[b] :
    Clean(r) => RowSays(b, (now[r] - issuedAt[r]) \div NsPerUs)

\* No request is shown in two frames, but for those that a failed reset has
\* left in the histogram with their frame already read; what that reset had
\* wiped before, what it left unread and every later tick are as if it had not
\* failed (main.go:123-128, the reset after each read; loader.go:103-111).
ShownOnce == \A r \in Requests \ again : shown[r] < 2

Running == coll \notin {"closing", "closed"}

\* While the monitor runs, the only counted requests that are not shown and
\* will not be are those counted between the read of their bucket and its
\* reset, and those that a tick whose own read failed had in the histogram; no
\* failure of one tick costs a request of another (main.go:127-128).
LostOnlyInWindow ==
  Running => \A r \in Requests :
    st[r] = "counted" => shown[r] > 0 \/ InFrame(r) \/ InHist(r) \/ r \in unseen

\* NewCollector's error paths and Close release everything: no program stays
\* attached and no object loaded, and no link outlives the objects
\* (loader.go:48, 57-60, 115-120).
Released ==
  /\ IssueOn \/ CompleteOn => objs
  /\ coll = "closed" => ~objs

\* A request in the histogram while the main loop waits for its tick is shown,
\* unless the read of a tick that wipes it fails or the collector is closed
\* (main.go:95-136).
SampleShown ==
  \A r \in Requests :
    (coll = "wait" /\ InHist(r)) ~> (shown[r] > 0 \/ r \in unseen \/ ~Running)

-----------------------------------------------------------------------------
(* The inductive invariant behind these properties, beside KernelInv. *)

Ticking == {"wait", "read", "reset", "render"}

\* Which links and objects the collector holds where.
Holds ==
  /\ coll = "start" => links = "unattached" /\ ~objs
  /\ coll = "attachIssue" => links = "unattached" /\ objs
  /\ coll = "attachComplete" => links = "issue" /\ objs
  /\ coll \in Ticking => links = "both" /\ objs
  /\ coll = "closed" => links \in {"unattached", "detached"}

\* What has been read and not shown yet.  Buckets not yet read are empty, and
\* those read are wiped only after the last one is read.
FrameKnown ==
  /\ coll \notin {"read", "reset", "render"} => buckets = NoBuckets
  /\ coll = "read" => \A b \in Buckets :
       IF b < bucket THEN buckets[b] \subseteq hist[b] ELSE buckets[b] = {}
  /\ \A b \in Buckets : \A r \in buckets[b] :
       st[r] = "counted" /\ (Clean(r) => b = BucketOf(now[r], issuedAt[r]))

\* A request is counted in one bucket, and shown only after it was counted.
CountedOnce ==
  /\ \A b, c \in Buckets : b # c => hist[b] \cap hist[c] = {}
  /\ \A r \in Requests : shown[r] > 0 => st[r] = "counted"

\* What was read is no longer in the histogram, but for the buckets still to be
\* reset, and what was shown is in neither, unless a failed reset left it there.
ReadOnce ==
  /\ "reset" \notin failed => again = {}
  /\ \A r \in Requests \ again :
       /\ shown[r] > 0 => ~InFrame(r) /\ ~InHist(r)
       /\ InFrame(r) => \A b \in Buckets : r \in hist[b] => b \in Window

\* What a reset will wipe was read, or is known not to have been.
WipesKnown == \A b \in Window : hist[b] \subseteq buckets[b] \cup unseen

CollectorInv ==
  /\ Holds
  /\ FrameKnown
  /\ CountedOnce
  /\ ReadOnce
  /\ WipesKnown
  /\ ShownOnce
  /\ LostOnlyInWindow
  /\ Released

-----------------------------------------------------------------------------
(* What the collector promises, in terms of its state. *)

Recorded == {r \in Requests : st[r] = "counted"}
Held     == {r \in Requests : InFrame(r) \/ InHist(r)}

\* What this tick is going to show: what it has read, and what it will still
\* read.
Due == {r \in Requests :
          \/ InFrame(r)
          \/ coll = "read" /\ \E b \in Buckets : b >= bucket /\ r \in hist[b]}

Mode ==
  CASE coll \in {"start", "attachIssue", "attachComplete"} -> "off"
    [] coll = "wait"               -> "idle"
    [] coll \in {"read", "reset"}  -> "draining"
    [] coll = "render"             -> "ready"
    [] coll \in {"closing", "closed"} -> "stopped"

R == INSTANCE IntervalReport WITH
       Items    <- Requests,
       mode     <- Mode,
       recorded <- Recorded,
       held     <- Held,
       due      <- Due,
       faults   <- failed,
       reports  <- shown

\* The bucket by bucket read and reset, with probes counting in between, is one
\* round of the abstract report: what is in the histogram when a tick begins is
\* shown in its frame; only what was counted during the tick is wiped unseen;
\* and what was shown is gone, as long as no map operation fails and the program
\* is not ended (main.go:123-128, loader.go:80-111).
ReportsIntervals == R!Spec

-----------------------------------------------------------------------------
\* What README.md:119-122 says: the latency of every request is measured and
\* the distribution of each interval is shown.  So while no map operation
\* fails, every counted request is shown or still to be shown.  TLC refutes it.
EverySampleShown ==
  Running /\ failed = {} => \A r \in Requests :
    st[r] # "counted" \/ shown[r] > 0 \/ InFrame(r) \/ InHist(r)
=============================================================================
