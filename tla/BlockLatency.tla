---------------------------- MODULE BlockLatency ----------------------------
(***************************************************************************)
(* The kernel half of the block latency collector: the two BPF programs of *)
(* internal/ebpf/block_latency.c and the two BPF maps they share.          *)
(*                                                                         *)
(* Each block request carries the local state of the probe that is running *)
(* for it, so that probes of different requests interleave statement by    *)
(* statement as they do on different CPUs.  NumCPUs bounds how many probes *)
(* run at once; the programs keep no other per-CPU state.                  *)
(*                                                                         *)
(* A histogram bucket is modelled by the set of requests counted in it     *)
(* since it was last zeroed: the code's counter is the cardinality of that *)
(* set, since a request is completed once.                                 *)
(***************************************************************************)
EXTENDS Integers, Sequences, FiniteSetsExt

CONSTANTS
  Requests,      \* the block requests of a behaviour
  dev,           \* dev[r], sector[r]: device and first sector of request r
  sector,
  SectorSpan,    \* 2^32: pack_key keeps the low 32 bits of the sector
  NumCPUs,       \* CPUs on which probes can run at the same time
  MaxEntries,    \* max_entries of start_times (10240)
  HIST_BUCKETS,  \* number of histogram buckets (24); the ladder of thresholds
                 \* in the code serves any number up to that
  NsPerUs,       \* nanoseconds per microsecond (1000)
  ClockSpan,     \* 2^64: timestamps are u64
  MaxClock       \* bound of the model: the clock stops here

ASSUME BlockLatencyAssumption ==
  /\ dev \in [Requests -> Nat]
  /\ sector \in [Requests -> Nat]
  /\ SectorSpan \in Nat \ {0}
  /\ NumCPUs \in Nat \ {0}
  /\ MaxEntries \in Nat \ {0}
  /\ HIST_BUCKETS \in 1 .. 24
  /\ NsPerUs \in Nat \ {0}
  /\ MaxClock \in Nat
  /\ ClockSpan \in Nat
  /\ MaxClock < ClockSpan

VARIABLES
  clock,        \* bpf_ktime_get_ns
  links,        \* which tracepoints have their program attached
  start_times,  \* the hash map: its elements, by memory slot
  hist,         \* io_latency_hist
  st,           \* st[r]: where request r, and the probe running for it, is
  issuedAt,     \* issuedAt[r]: when block_rq_issue fired for r (its ts)
  start,        \* start[r]: the pointer the lookup returned, NULL if none
  val,          \* val[r]: the value loaded through start[r]
  now,          \* now[r]: the clock as the completion probe of r read it
  aliased       \* history: keys that two live requests have had at once

kernelVars == <<clock, links, start_times, hist, st, issuedAt, start, val,
                now, aliased>>

-----------------------------------------------------------------------------
\* The stages the two links go through; user space attaches the issue program
\* first and detaches it first.
Links == {"unattached", "issue", "both", "complete", "detached"}
IssueOn    == links \in {"issue", "both"}
CompleteOn == links \in {"both", "complete"}

Time    == 0 .. MaxClock
Buckets == 0 .. HIST_BUCKETS - 1

\* The hash map is preallocated: max_entries elements plus a spare one per
\* CPU, used when an existing key is replaced.  A deleted or replaced element
\* keeps its bytes until it is reused, which may be at once.
Slots == 1 .. MaxEntries + NumCPUs
NULL  == 0
NoKey == -1

\* Of a request: "new" not issued; "updating" in the issue probe; "inflight"
\* with the device and timed; "untimed" with the device, no start recorded;
\* "looked" .. "deleted" in the completion probe; "counted" in the histogram;
\* "missed" the completion probe found no start; "untraced" completed while
\* no completion probe was attached.
Probing == {"updating", "looked", "clocked", "loaded", "timed", "deleted"}
\* The states in which a request has its start recorded, and those in which it
\* owns its key: issued, start not yet deleted.
Timed   == {"inflight", "looked", "clocked", "loaded", "timed"}
Live    == {"updating", "untimed"} \cup Timed
States  == {"new", "counted", "missed", "untraced"} \cup Live \cup Probing

pack_key(d, s) == (d * SectorSpan) + (s % SectorSpan)
KeyOf(r) == pack_key(dev[r], sector[r])

\* The thresholds of the kernel's buckets 1, 2, ..., as they are written out.
Ladder == << 1, 2, 4, 8, 16, 32, 64, 128, 256, 512, 1024, 2048, 4096, 8192,
             16384, 32768, 65536, 131072, 262144, 524288, 1048576, 2097152,
             4194304 >>

Clamp(bucket) == IF bucket < HIST_BUCKETS THEN bucket ELSE HIST_BUCKETS - 1

\* Mutant: a latency at a threshold stays in the bucket below.
bucket_forBelow(us) ==
  Clamp(Max({0} \cup {i \in DOMAIN Ladder : us > Ladder[i]}))

\* The last threshold that us reaches names its bucket; none is bucket 0.
bucket_for(us) ==
  Clamp(Max({0} \cup {i \in DOMAIN Ladder : us >= Ladder[i]}))

\* User space's powers of two: 1 << i.
Shift[i \in Nat] == IF i = 0 THEN 1 ELSE 2 * Shift[i - 1]

\* Mutant: the label of the bucket above.
bucketLabelAbove(i) == [lo |-> Shift[i], hi |-> 2 * Shift[i]]

\* The range, in us, that user space prints for bucket i.
bucketLabel(i) ==
  IF i = 0 THEN [lo |-> 0, hi |-> 1]
  ELSE LET lo == Shift[i - 1] IN [lo |-> lo, hi |-> 2 * lo]

\* u64 subtraction, which wraps when the start is later than the clock.
Delta(t, s) == IF t >= s THEN t - s ELSE ClockSpan + t - s
BucketOf(t, s) == bucket_for(Delta(t, s) \div NsPerUs)

-----------------------------------------------------------------------------
(* The hash map, as the two programs use it. *)

Lookup(k) == {s \in Slots : start_times[s].key = k}
Used      == {s \in Slots : start_times[s].key # NoKey}

\* Mutants of the update: BPF_NOEXIST and BPF_EXIST in place of BPF_ANY.
UpdateNoExist(k, t) ==
  IF Lookup(k) # {} THEN UNCHANGED start_times
  ELSE \E s \in Slots \ Used :
         start_times' = [start_times EXCEPT ![s] = [key |-> k, ts |-> t]]
UpdateExist(k, t) ==
  start_times' = [e \in Slots |->
    IF e \in Lookup(k) THEN [key |-> k, ts |-> t] ELSE start_times[e]]

\* bpf_map_update_elem(..., BPF_ANY): fails only for a new key in a full map.
UpdateFails(k) == Lookup(k) = {} /\ Cardinality(Used) >= MaxEntries
Update(k, t) ==
  \E s \in Slots \ Used :
    start_times' = [e \in Slots |->
      IF e = s THEN [key |-> k, ts |-> t]
      ELSE IF e \in Lookup(k) THEN [key |-> NoKey, ts |-> start_times[e].ts]
      ELSE start_times[e]]

\* Mutant: the delete is forgotten.
DeleteNothing(k) == UNCHANGED start_times

Delete(k) ==
  start_times' = [e \in Slots |->
    IF e \in Lookup(k) THEN [key |-> NoKey, ts |-> start_times[e].ts]
    ELSE start_times[e]]

-----------------------------------------------------------------------------
Init ==
  /\ clock = 0
  /\ links = "unattached"
  /\ start_times = [s \in Slots |-> [key |-> NoKey, ts |-> 0]]
  /\ hist = [b \in Buckets |-> {}]
  /\ st = [r \in Requests |-> "new"]
  /\ issuedAt = [r \in Requests |-> 0]
  /\ start = [r \in Requests |-> NULL]
  /\ val = [r \in Requests |-> 0]
  /\ now = [r \in Requests |-> 0]
  /\ aliased = {}

Tick ==
  /\ clock < MaxClock
  /\ clock' = clock + 1
  /\ UNCHANGED <<links, start_times, hist, st, issuedAt, start, val, now,
                 aliased>>

CpuFree == Cardinality({r \in Requests : st[r] \in Probing}) < NumCPUs

\* The block layer issues r: its key is aliased if a live request has it.
Issued(r, state) ==
  /\ st[r] = "new"
  /\ st' = [st EXCEPT ![r] = state]
  /\ issuedAt' = [issuedAt EXCEPT ![r] = clock]
  /\ aliased' = IF \E q \in Requests : st[q] \in Live /\ KeyOf(q) = KeyOf(r)
                THEN aliased \cup {KeyOf(r)} ELSE aliased
  /\ UNCHANGED <<clock, links, start_times, hist, start, val, now>>

\* block_rq_issue fires with no program attached.
IssueUntraced(r) == ~IssueOn /\ Issued(r, "untimed")

\* block_rq_issue fires: trace_rq_issue reads the clock.
IssueProbe(r) == IssueOn /\ CpuFree /\ Issued(r, "updating")

\* trace_rq_issue stores the timestamp; a failure to store is not looked at.
StoreStart(r) ==
  /\ st[r] = "updating"
  /\ \/ /\ UpdateFails(KeyOf(r))
        /\ st' = [st EXCEPT ![r] = "untimed"]
        /\ UNCHANGED start_times
     \/ /\ ~UpdateFails(KeyOf(r))
        /\ st' = [st EXCEPT ![r] = "inflight"]
        /\ Update(KeyOf(r), issuedAt[r])
  /\ UNCHANGED <<clock, links, hist, issuedAt, start, val, now, aliased>>

\* block_rq_complete fires with no program attached.
CompleteUntraced(r) ==
  /\ ~CompleteOn
  /\ st[r] \in {"inflight", "untimed"}
  /\ st' = [st EXCEPT ![r] = "untraced"]
  /\ UNCHANGED <<clock, links, start_times, hist, issuedAt, start, val, now,
                 aliased>>

\* Mutant: the NULL check is forgotten.
LookupUnchecked(r) ==
  /\ CompleteOn /\ CpuFree
  /\ st[r] \in {"inflight", "untimed"}
  /\ st' = [st EXCEPT ![r] = "looked"]
  /\ \E s \in IF Lookup(KeyOf(r)) = {} THEN {NULL} ELSE Lookup(KeyOf(r)) :
       start' = [start EXCEPT ![r] = s]
  /\ UNCHANGED <<clock, links, start_times, hist, issuedAt, val, now, aliased>>

\* block_rq_complete fires: trace_rq_complete looks the start time up, and
\* returns if there is none.
LookupStart(r) ==
  /\ CompleteOn /\ CpuFree
  /\ st[r] \in {"inflight", "untimed"}
  /\ \/ /\ Lookup(KeyOf(r)) = {}
        /\ st' = [st EXCEPT ![r] = "missed"]
        /\ UNCHANGED start
     \/ \E s \in Lookup(KeyOf(r)) :
        /\ st' = [st EXCEPT ![r] = "looked"]
        /\ start' = [start EXCEPT ![r] = s]
  /\ UNCHANGED <<clock, links, start_times, hist, issuedAt, val, now, aliased>>

\* bpf_ktime_get_ns() - *start: C leaves the order of the two operands open.
ReadClock(r) ==
  /\ st[r] \in {"looked", "loaded"}
  /\ st' = [st EXCEPT ![r] = IF @ = "looked" THEN "clocked" ELSE "timed"]
  /\ now' = [now EXCEPT ![r] = clock]
  /\ UNCHANGED <<clock, links, start_times, hist, issuedAt, start, val,
                 aliased>>

LoadStart(r) ==
  /\ st[r] \in {"looked", "clocked"}
  /\ st' = [st EXCEPT ![r] = IF @ = "looked" THEN "loaded" ELSE "timed"]
  /\ val' = [val EXCEPT ![r] = start_times[start[r]].ts]
  /\ start' = [start EXCEPT ![r] = NULL]
  /\ UNCHANGED <<clock, links, start_times, hist, issuedAt, now, aliased>>

DeleteStart(r) ==
  /\ st[r] = "timed"
  /\ st' = [st EXCEPT ![r] = "deleted"]
  /\ Delete(KeyOf(r))
  /\ UNCHANGED <<clock, links, hist, issuedAt, start, val, now, aliased>>

\* __sync_fetch_and_add on the bucket of the measured latency.
Count(r) ==
  /\ st[r] = "deleted"
  /\ st' = [st EXCEPT ![r] = "counted"]
  /\ hist' = [hist EXCEPT ![BucketOf(now[r], val[r])] = @ \cup {r}]
  /\ val' = [val EXCEPT ![r] = 0]
  /\ UNCHANGED <<clock, links, start_times, issuedAt, start, now, aliased>>

ProbeStep(r) ==
  \/ IssueUntraced(r) \/ IssueProbe(r) \/ StoreStart(r)
  \/ CompleteUntraced(r) \/ LookupStart(r)
  \/ ReadClock(r) \/ LoadStart(r) \/ DeleteStart(r) \/ Count(r)

KernelNext == Tick \/ \E r \in Requests : ProbeStep(r)

-----------------------------------------------------------------------------
(* What user space does to the kernel half. *)

\* link.Tracepoint on block_rq_issue, then on block_rq_complete.
Attach ==
  /\ \/ links = "unattached" /\ links' = "issue"
     \/ links = "issue" /\ links' = "both"
  /\ UNCHANGED <<clock, start_times, hist, st, issuedAt, start, val, now,
                 aliased>>

\* Close of one link, in the order they were appended.
Detach ==
  /\ \/ links = "both" /\ links' = "complete"
     \/ links \in {"issue", "complete"} /\ links' = "detached"
  /\ UNCHANGED <<clock, start_times, hist, st, issuedAt, start, val, now,
                 aliased>>

\* IoLatencyHist.Put(b, 0).  An increment on another CPU comes before or after.
PutZero(b) ==
  /\ hist' = [hist EXCEPT ![b] = {}]
  /\ UNCHANGED <<clock, links, start_times, st, issuedAt, start, val, now,
                 aliased>>

UserNext == Attach \/ Detach \/ \E b \in Buckets : PutZero(b)

Next == KernelNext \/ UserNext
Spec == Init /\ [][Next]_kernelVars

-----------------------------------------------------------------------------
\* The types of the variables; the pointer that a completion probe is going to
\* read through is not NULL (block_latency.c:117-121).
TypeOK ==
  /\ clock \in Time
  /\ links \in Links
  /\ start_times \in [Slots -> [key : Int, ts : Time]]
  /\ hist \in [Buckets -> SUBSET Requests]
  /\ st \in [Requests -> States]
  /\ issuedAt \in [Requests -> Time]
  /\ start \in [Requests -> Slots \cup {NULL}]
  /\ val \in [Requests -> Time]
  /\ now \in [Requests -> Time]
  /\ aliased \in SUBSET Int
  /\ \A r \in Requests : st[r] \in {"looked", "clocked"} => start[r] \in Slots

\* Once the issue program is detached, a request can be issued unseen and
\* completed seen.
Open == links \notin {"complete", "detached"}

Clean(r) == KeyOf(r) \notin aliased

\* Every request in the histogram whose (device, sector) key no other live
\* request has shared is in the bucket of the time from its own issue to its
\* own completion: no other request's start, no leftover entry and no recycled
\* map element was used for it (block_latency.c:25-29, 116-129).
ExactSamples ==
  Open => \A b \in Buckets : \A r \in hist[b] :
    Clean(r) => b = BucketOf(now[r], issuedAt[r])

\* A request whose start was stored is found by its completion probe, and one
\* whose start was not stored (issued before the attach, or the map was full)
\* is never measured, unless its key was aliased (block_latency.c:116-119).
StartMatchesIssue ==
  [][\A r \in Requests : Open /\ Clean(r) =>
       /\ st[r] = "inflight" => st'[r] # "missed"
       /\ st[r] = "untimed" => st'[r] # "looked"]_kernelVars

\* start_times only keeps what it needs: an entry under a key that was never
\* aliased belongs to a request that will still look it up, or to one that
\* completed where no completion program was attached.  In particular measured
\* requests never use up the map (block_latency.c:28, 106, 122).
NoEntryLeft ==
  \A s \in Slots : start_times[s].key \notin {NoKey} \cup aliased =>
    \E r \in Requests :
      /\ KeyOf(r) = start_times[s].key
      /\ issuedAt[r] = start_times[s].ts
      /\ st[r] \in Timed \cup {"untraced"}

-----------------------------------------------------------------------------
(* The inductive invariant behind these properties. *)

\* The map has at most one element for a key.
OneEntry ==
  \A s, t \in Slots :
    start_times[s].key = start_times[t].key /\ start_times[s].key # NoKey => s = t

\* Two live requests of one key make the key aliased.
LiveAlone ==
  \A r, q \in Requests :
    r # q /\ {st[r], st[q]} \subseteq Live /\ KeyOf(r) = KeyOf(q) => ~Clean(r)

\* Before the first attach no probe has run.
NothingYet ==
  links = "unattached" =>
    /\ \A s \in Slots : start_times[s].key = NoKey
    /\ \A r \in Requests : st[r] \in {"new", "untimed", "untraced"}

\* The element that slot s has to hold for r.
EntryOf(r) == [key |-> KeyOf(r), ts |-> issuedAt[r]]

\* What is known of the start of a request with a key of its own: in the map
\* while it is in flight, under the pointer while its completion probe holds
\* one, then in the local variable; and in no element if it was not stored.
StartOf(r) ==
  /\ st[r] = "inflight" => \E s \in Slots : start_times[s] = EntryOf(r)
  /\ Open /\ st[r] = "untimed" => Lookup(KeyOf(r)) = {}
  /\ Open /\ st[r] \in {"looked", "clocked"} =>
       start_times[start[r]] = EntryOf(r)
  /\ Open /\ st[r] \in {"loaded", "timed", "deleted"} => val[r] = issuedAt[r]

StartKnown == \A r \in Requests : Clean(r) => StartOf(r)

\* Only measured requests are in the histogram.
OnlyCounted == \A b \in Buckets : \A r \in hist[b] : st[r] = "counted"

\* A completion probe reads the clock after its request was issued, whether it
\* loads the start before or after that.
ClockRead == {"clocked", "timed", "deleted", "counted"}
IssuedFirst ==
  \A r \in Requests :
    /\ issuedAt[r] <= clock
    /\ st[r] \in ClockRead => issuedAt[r] <= now[r]

KernelInv ==
  /\ IssuedFirst
  /\ OneEntry
  /\ LiveAlone
  /\ NothingYet
  /\ StartKnown
  /\ OnlyCounted

-----------------------------------------------------------------------------
\* Where the printed scale ends (about 8 s with 24 buckets).
ScaleEnd == bucketLabel(HIST_BUCKETS - 1).hi

\* What bucket b says of a latency counted in it: on the scale, that it lies in
\* the range of the label; beyond it, only that b is the last bucket, whose
\* printed upper end is then false.
RowSays(b, us) ==
  IF us < ScaleEnd THEN bucketLabel(b).lo <= us /\ us < bucketLabel(b).hi
  ELSE b = HIST_BUCKETS - 1

\* The kernel's ladder of thresholds and user space's shifted labels, which
\* nothing but a comment keeps together, agree: a request that is issued now
\* and completes us microseconds later is counted in the bucket whose label
\* has us between its two ends; one that takes longer than the scale reaches is
\* counted in the last bucket (block_latency.c:64-96, loader.go:156-165).
LabelsMatch ==
  \A us \in 0 .. 2 * ScaleEnd :
    RowSays(BucketOf(clock + us * NsPerUs, clock), us)

-----------------------------------------------------------------------------
(* What the comments of the source say of every sample; TLC refutes it. *)

\* Two live requests of one (device, sector) key cost a missed sample, and
\* never put a wrong latency into the histogram (block_latency.c:53-55).
AliasOnlyMisses ==
  Open => \A b \in Buckets : \A r \in hist[b] :
    b = BucketOf(now[r], issuedAt[r])
=============================================================================
