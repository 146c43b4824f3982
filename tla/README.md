# sysmon: a verification development

`sysmon` (github.com/AbdGhordlo/linux-system-monitor) is a terminal monitor for
one Linux machine. Every interval it samples CPU, memory, disk and network,
optionally reads a block I/O latency histogram that two BPF programs fill inside
the kernel, and redraws the screen. This directory holds TLA+ modules of the
program, TLC instances that check them, and TLAPS proofs about them.

Paths below are relative to `src/`.

## 1. Inventory

| Part | Source | State | Operations | Talks to |
|---|---|---|---|---|
| Block latency BPF programs | `internal/ebpf/block_latency.c` | `start_times` (hash map, 10240 entries), `io_latency_hist` (24 counters), locals of each running probe | `trace_rq_issue`, `trace_rq_complete`, `pack_key`, `bucket_for` | the block layer calls them on any CPU; the collector reads and zeroes the histogram |
| Block latency collector | `internal/ebpf/loader.go` | the BPF objects, the two links | `NewCollector`, `ReadHistogram`, `ResetHistogram`, `Close`; `RenderASCII`, `bucketLabel` (pure) | the kernel's BPF system calls; driven by the main loop |
| Collector stub | `internal/ebpf/stub.go` | none | the same names; `NewCollector` always fails | main loop |
| Process | `cmd/sysmon/main.go` | main goroutine, signal goroutine, deferred calls, signal channel, terminal | `main`, `run`, the handler, `render`; `bar`, `humanBytes`, `humanKB` (pure) | everything above and below, signals, stdout |
| Network | `internal/stats/net.go`, loop variables of `run` | previous sample and its time (kept by `run`) | `ReadNetIO`, `ParseNetIO`, `ComputeNetThroughput` | `/proc/net/dev` |
| CPU | `internal/stats/cpu.go`, loop variables of `run` | previous sample (kept by `run`) | `ReadCPUTimes`, `ParseCPUTimes`, `CPUPercent` | `/proc/stat` |
| Memory | `internal/stats/mem.go` | none | `ReadMemInfo`, `ParseMemInfo`, `UsedKB`, `UsedPercent`, `SwapUsedKB` | `/proc/meminfo` |
| Disk | `internal/stats/disk.go` | none | `ReadDiskUsage`, `UsedBytes`, `UsedPercent`; `ReadDiskIO`, `isWholeDisk` (no caller in the program) | `statfs`, `/proc/diskstats` |
| Generated code | `internal/ebpf/blocklatency_bpfe[lb].go`, `generate.go`, `vmlinux.h` | none of its own | loading the embedded objects | the collector |
| Packaging, CI | `snap/`, `debian/`, `.github/` | none | none | none |

### What is hard, and what makes each part correct

*BPF programs.* Probes run on several CPUs at once and a completion probe makes
three separate map accesses (lookup, read through the pointer, delete). The
pointer stays readable after another CPU has deleted the element, and the
element may be reused at once. Keys are truncated, so two live requests can share
one. The map can be full, and the program can be attached while requests are in
flight. Correct means: a sample is the request's own latency unless its key was
shared, an unrecorded request is not measured, and nothing is left in the map.

*Collector.* Reading and zeroing are loops over buckets while probes count on.
Each map operation can fail, the loop drops the errors, and the process can exit
in the middle. Correct means: frames are exact, no request is shown in two frames
unless a reset has failed under it, a loss is the window's or its own tick's failed
read, everything acquired is released.

*Process.* Two goroutines write to one terminal, a signal can come at any
moment, samples can hang, errors and one panic unwind the deferred calls.
Correct means: the cursor comes back, the collector is closed, the process ends.

*Network.* Counters wrap, interfaces vanish, come back at zero and take each
other's names between two samples; the time is read after the counters. Correct
means: no rate claims more than was transferred, steady interfaces are exact.

*CPU.* Idle counters may go back, so that unsigned differences wrap; guests are
counted twice by the kernel; cores go offline between two samples; an interval
may hold no jiffy at all. Correct means: every busy jiffy is shown once, none is
invented, and the bar can be drawn.

*Memory, disk, formatting.* Totals of zero, fields that are missing or do not fit
each other, products modulo 2^64, and lengths and indexes that make Go panic when
they are out of range. Correct means: no difference wraps, what is shown is what was
reported or differs from it by a known amount, every bar, row and size can be
printed, and I/O is listed for its disk, and once.

## 2. Modules

| Module | Models | Uses |
|---|---|---|
| `BlockLatency` | the two BPF programs, their maps, attach, detach, zeroing | |
| `Collector` | loader and main loop, composed with the kernel half | EXTENDS `BlockLatency` |
| `Sysmon` | the life of the process | |
| `IntervalReport` | what a collector owes its reader, round by round (abstract) | implemented by `Collector` |
| `Throughput` | network samples and rates | |
| `Format` | words of 64 bits, `bar`, `humanBytes` (pure) | |
| `CpuUsage` | CPU samples and percentages | EXTENDS `Format` |
| `Figures` | memory, disk, histogram rows, and the bars and sizes of a frame | EXTENDS `Format` |
| `BlockLatencyProofs`, `CollectorProofs`, `SysmonProofs`, `ThroughputProofs`, `CpuUsageProofs`, `FiguresProofs` | theorems | each EXTENDS its module |
| `ReportProofs` | `Collector` implements `IntervalReport` | EXTENDS `CollectorProofs` |
| `NatLemmas` | lemmas on natural numbers and recursive functions | used by `BlockLatencyProofs`, `FiguresProofs` |
| `MCBlockLatency`, `MCCollector`, `MCSysmon`, `MCThroughput`, `MCCpuUsage`, `MCFigures` | instances for TLC | each EXTENDS its module |

Operators named "Mutant" in a module are plausible bugs of the definition that
follows them. They are not part of any specification; replacing the definition by
its mutant makes the property that `PROJECT.json` pairs with it fail.

### BlockLatency

A request carries the local state of the probe that runs for it (`st`, `start`,
`val`, `now`), so probes interleave statement by statement. `NumCPUs` bounds the
probes running at once.

| Action | Code |
|---|---|
| `IssueProbe`, `IssueUntraced` | `block_rq_issue` with and without the program; reads the clock |
| `StoreStart` | `bpf_map_update_elem(.., BPF_ANY)`, whose failure is ignored |
| `LookupStart` | `bpf_map_lookup_elem` and the NULL return |
| `ReadClock`, `LoadStart` | the two operands of `bpf_ktime_get_ns() - *start`; C does not order them |
| `DeleteStart`, `Count` | `bpf_map_delete_elem`; the atomic increment of the bucket |
| `CompleteUntraced` | completion with no program attached |
| `Attach`, `Detach`, `PutZero` | what user space does: one link at a time, one bucket at a time |

The map is modelled by memory slots (`max_entries` plus one spare per CPU, as the
kernel preallocates). A removed or replaced element keeps its bytes until it is
reused, possibly at once: this is what a pointer held across another CPU's
update can see. `Ladder` holds the thresholds of `bucket_for` as they are written
out there; `bucketLabel` is user space's table of ranges, made of powers of two
(`Shift`), which has to fit it (`LabelsMatch`). A bucket holds the set of requests counted in it; the code's
counter is its cardinality.

### Collector

`coll` is where the caller of the collector is; `bucket` is the loop index,
`buckets` what this tick has read. Every bucket's lookup and put is a step of its
own. `LoadFails`, `AttachFails`, `ReadFails` and `ResetFails` are the error
paths: a failed read returns nil, its error is dropped and the reset still runs;
a failed reset leaves the remaining buckets. `Exit` is `os.Exit` in the signal
goroutine, after which the kernel closes what was open. Since `histBuckets`
equals `HIST_BUCKETS`, a lookup cannot miss and `isNotFound` never decides
anything; it is left out.

Two histories say what a failure may cost: `unseen` holds the requests that were
counted between the read of their bucket and its reset, or were in the
histogram of a tick whose own read failed; `again` those that a failed reset left in
the histogram after their frame had been read. Each applies to the requests of
that tick only, so a failure excuses nothing that happens later.

`Collector` is a refinement: each behaviour of `CollectorSpec` is one of
`BlockLatency`'s `Spec` (property `Spec`), so what is shown for the kernel half
with an arbitrary user holds with this one.

It is a refinement in a second sense. `IntervalReport` says what the bucket by
bucket work amounts to: rounds that begin with what is held at once, report all
that is due, and drop at most what was recorded while the round was draining; a
failed read voids the round, a failed reset allows repetition, a stop ends it.
The refinement mapping is at the end of `Collector`: an item is held while
it is in the histogram or in the frame, and due once it is in the frame or in a
bucket still to be read (`Due`); `Mode` maps the loop's phases.

### Sysmon

`pc` follows `run` statement by statement, `handler` the signal goroutine.
`deferred` is the set of deferred calls; the guards of `StopTicker`,
`CloseCollector` and `StartShow` give their order (last registered, first run).
A write to stdout takes two steps and holds the lock of `os.Stdout` between
them. `Fail` is every error return (`NewCollector`, the stub included, the first
samples, the four samples of a tick). `NewTicker` panics on an interval that is
not positive. `Signal` kills the process before `signal.Notify`; after it the
signal goes into a channel of one and is dropped if that is full. The flags are
free in the initial state.

### Throughput

`dev` is `/proc/net/dev`; the kernel's actions carry traffic (`Traffic`), add,
remove and rename interfaces. `FirstSample`, `Start`, `Sample` and `Frame` are the
loop's steps: the clock is read after the counters, with kernel steps in between.
`netRates` and `elapsed` are the loop's variables of these names; a rate is kept
as bytes, the division by `elapsed` is left to the display. `since` and `due` are
histories that record what really happened to each name.

### CpuUsage

`stat` holds the counters of `/proc/stat`; the kernel's actions spend a jiffy
(`Spend`), let an idle counter go back (`StepBack`) and take a core offline or
back (`Hotplug`). `FirstSample`, `Sample` and `Frame` are the loop's steps, with
kernel steps in between. The aggregate line has counters of its own, as the code
never relates it to the cores' lines. A percentage is the pair of part and whole
that it is computed from; `Float` is the conversion to float64, which is exact
below 2^53 and makes 2^64 of the last `MaxRounded` (1024) numbers below it, those
of differences that have wrapped; `CpuAssumption` keeps steps back within them. `since` and
`due` are histories of what each line really did.

### Figures and Format

`Format` has the unsigned operations modulo `Word`, and of each text the lengths
and indexes that can make Go panic: the filled part of `bar` (`Negative` stands
for what becomes of a NaN), the divisor and letter of `humanBytes`. `Figures`
reads memory, capacity and histogram in the order of the loop, each from all
reports the kernel can make within the bounds, and renders a frame. `ReadDiskIO`
is the listing of block devices, for which `under` says through which devices
the I/O to each one goes, `kind` what it is (a disk, a partition or neither), and
`name` what the filter can tell of its name. A counter of sectors is modelled by the set of sectors
counted in it, each named by the device that it was sent to, so that counting twice
is a sector in two counters.

## 3. Runs

| Run | Result | Question |
|---|---|---|
| `kernel` | passes | Are samples exact, starts matched, and the map kept clean, over all interleavings of three requests on two CPUs, two of them sharing a key, a map of one element, and attach or detach at any moment? Do the kernel's thresholds and user space's labels agree? |
| `alias` | violated | Does a shared key cost at most a missed sample (`block_latency.c:53-55`)? No: the later issue overwrites the earlier request's start, and if that request completes first it is measured from the later one's issue, into the wrong bucket. |
| `collector` | passes | Are frames exact, their rows labelled with ranges that cover the real latencies, requests shown once, losses confined to their own tick, resources released, with every error path and an exit at any moment? Is a sample that is there at a tick eventually shown? Is it a refinement of the kernel half and of `IntervalReport`? |
| `lost_sample` | violated | Is every request in some interval's distribution (`README.md:119-122`)? Not one counted between its bucket's read and reset. |
| `process` | passes | Do all exits after `signal.Notify` restore the cursor, all returns close the collector, is no caught signal lost, and do signals and failures end the process even if a sample hangs? |
| `early_signal` | violated | Is the cursor always restored (`main.go:52`)? Not if a signal comes between lines 53 and 58. |
| `network` | passes | Are rates never overstated, exact for steady interfaces, and taken over the time between their samples, over wraps, removals and renames? |
| `cpu` | passes | Is every busy jiffy shown once and none invented, and does the bar fit, while idle counters go back, guests run, cores go and return, and kernels have eight or ten columns? |
| `cpu_range` | violated | Is the percentage from 0 to 100 (`cpu_test.go:78-80`)? Not if an idle counter goes back: the difference wraps and the percentage is far below 0. `bar` draws it empty (`CpuBarFits`). |
| `figures` | passes | Does no difference wrap, is the memory in use off only for an estimate of zero and by no more than the fallback, can every bar, row and size be printed, and is each sector listed for its disk and, but for names the filter does not know, for nothing else? |
| `memory_zero` | violated | Is memory in use always `MemTotal - MemAvailable` (`README.md:200-202`, `mem.go:115-116`)? Not if `MemAvailable` is there and 0: it is taken for a missing field. |
| `disk_twice` | violated | Are only whole disks listed (`disk.go:48-49`, `README.md:207-209`)? Not `mmcblk0p1` or `md0`: the default branch of `isWholeDisk` takes every unknown prefix for a disk. |

A violated run checks one statement of the source's own comments or of its
README and shows that the code does otherwise; `PROJECT.json` quotes them.

### Bounds, and why they are enough

- `SectorSpan = 2` for 2^32 and sectors 0, 1, 2: sectors 0 and 2 get one key and 1
  another, which is all that truncation can do to two requests.
- Two CPUs: the races are between two probes. Three requests in `kernel` add a
  bystander that fills the map of `MaxEntries = 1` or reuses a freed slot.
- `MaxClock = 1` with `NsPerUs = 1` and two buckets: latencies 0 and 1 us fall into
  different buckets, so a wrong start changes the bucket. `kernel` has four
  buckets, since `LabelsMatch` looks at latencies up to and beyond the last one.
  In `collector` no latency reaches the end of the scale; that the rows are
  labelled rightly there is proved for all times (`FramesLabelled`).
- `ClockSpan` is larger than any clock value (the assumption `MaxClock <
  ClockSpan`): a machine does not run for 2^64 ns, so only the subtraction of a
  later start can wrap, and it does so in `Delta`.
- `shown` counts to 2, meaning two or more.
- `collector` runs two requests that share a key: in flight together they alias, one
  after the other they meet what is left in the map. `kernel` has a third one with
  its own key beside them.
- `Sysmon` has no bound: both flags range over both values and all loops are
  finite in state.
- `Throughput`: two names (a rename takes two), one counter (both counters go
  through the same comparison and nothing relates them), `CounterSpan = 3`, one
  unit of traffic per counter and interval (`MaxBytes`), initial counters
  arbitrary, so that the first unit may wrap; `MaxClock = 2` allows intervals of
  length zero, one and two. Names are interchangeable, hence the symmetry set.
- `CpuUsage`: one core beside the aggregate line (no property relates lines),
  `MaxUptime = 3` jiffies per behaviour, so that an interval can hold none, one or
  several kinds of time; `MaxBack = 1` jiffy back per line and interval, which is
  enough for both differences to wrap; `MaxRounded = 1`, the least that covers such
  a step; `Word = 128` in place of 2^64, larger than any sum of counters
  (assumption `CpuAssumption`).
- `Figures`: `Word = 128` and `Unit = 2` keep the relation of 2^64 to 1024 on which
  `humanBytes` depends (`Unit^6 < Word <= Unit^7`, assumption
  `FormatAssumption`); block counts of 64 and 127 with a block size of 2 make
  products wrap; memory has a zero, a small and a large value, so that free
  memory exceeds the total; three counts in two buckets. Ten block devices:
  three disks with a partition each, two named in the ways that the filter knows
  and one (`mmcblk0p1`) not; device-mapper, loop and ram devices, and a RAID device
  over two partitions. `DeviceAssumption` states how the kernel names devices of the
  prefixes the code knows, and nothing of any other.
- The theorems of section 5 hold for all values of these constants.

`CHECK_DEADLOCK FALSE` is set where the system really stops: all requests done at
the clock's bound, the collector closed, the process gone. `network`,
`cpu` and `figures` never stop and check deadlock.

## 4. Fairness

- `Collector`: `WF(LoopStep)`. The ticker keeps firing and the runtime keeps
  scheduling the main goroutine. No fairness for probes, errors or exits.
- `Sysmon`: weak fairness of `FinishPrint` (the terminal takes what is
  written), of `Unwind` (deferred calls and exits do not block), of `StartHandler`
  (nothing blocks between `signal.Notify` and `go`) and of `HandlerStep`; strong
  fairness of `StartRestore`, because the signal goroutine queues for the lock of
  stdout, which the main goroutine releases between frames. No fairness for
  samples, `NewCollector` or ticks: each may hang for ever.

## 5. What is proved

TLAPS proves, for every value of the constants:

| Theorem | Property |
|---|---|
| `BlockLatencyProofs`: `TypeCorrect`, `KernelInvariant`, `SamplesExact`, `StartsMatch`, `NothingLeft`, `LabelsAgree`, `BucketInRange` | `TypeOK`, `KernelInv`, `ExactSamples`, `StartMatchesIssue`, `NoEntryLeft`, `LabelsMatch`, range of `bucket_for` |
| `CollectorProofs`: `CollectorTypeCorrect`, `CollectorImplementsKernel`, `CollectorInvariant`, `FramesExact`, `FramesLabelled`, `NeverShownTwice`, `LossesBounded`, `AllReleased` | `CollectorTypeOK`, `Spec`, `CollectorInv`, `FrameExact`, `LabelsTrue`, `ShownOnce`, `LostOnlyInWindow`, `Released` |
| `ReportProofs`: `CollectorImplementsReport` | `ReportsIntervals` |
| `SysmonProofs`: `ProcessTypes`, `ProcessInvariant`, `CursorIsRestored`, `ReturnCloses`, `SignalsAreKept` | `TypeOK`, `ProcessInv`, `CursorRestored`, `ClosedOnReturn`, `SignalKept` |
| `ThroughputProofs`: `ThroughputTypeCorrect`, `NetworkInvariant`, `RatesNeverOverstated`, `SteadyRatesExact`, `GapIsMeasured` | `ThroughputTypeOK`, `NetworkInv`, `NeverOverstated`, `SteadyExact`, `GapMeasured` |
| `CpuUsageProofs`: `CpuTypeCorrect`, `CpuInvariant`, `SharesCounted`, `BusyIsReal`, `CpuBarsFit`, `SharesInRange` | `CpuTypeOK`, `CpuInv`, `ShareCounted`, `BusyNeverInvented`, `CpuBarFits`, and when a percentage is within 0 to 100 |
| `FiguresProofs`: `FiguresTypeCorrect`, `NothingWraps`, `AllBarsFit`, `MemoryErrorIsBounded`, `AllRowsFit`, `AllSizesReadable`, `DisksAreListed` | `FiguresTypeOK`, `UsedWithinTotal`, `BarsFit`, `MemoryErrorBounded`, `RowsFit`, `SizesReadable`, `DisksListed` |

With these, every invariant and action property that a passing run checks is
proved, and both refinements.

Assumptions are the named ASSUMEs of the modules: ranges of the constants, that
the clock does not reach its span, that sums of jiffies and of a machine's memory
in kB stay below 2^64, that idle counters go back by no more than float64 rounds
away, how the unit of sizes relates to the word, and how the kernel names devices
of known prefixes (`DeviceAssumption`, needed only by `DisksAreListed`).

*Kernel half.* `ExactSamples` is not inductive: it needs to know what each probe
holds. `StartKnown` says, for a request with a key of its own, where its
start is at each stage: in some element of the map, under the probe's pointer, or
in its local variable. That survives the other CPUs because a clean key has one
live owner (`LiveAlone`) and one element (`OneEntry`), so no other probe updates
or deletes it, and because a slot is reused only when no key is in it.
`NothingYet` starts the argument at the attach. `IssuedFirst` says that a clock
read by a completion probe is not before the issue, so that the exact difference
is a latency and not a wrapped one.

*Buckets and labels.* The two tables are written down separately: 23 literals in
the kernel, shifts in user space. `LadderIsShift` shows that they are the same
numbers; powers of two grow, so the last threshold that a latency reaches is the lower
end of its label (`LastReached`, `BucketByShift`). Of a latency beyond
the scale only the bucket is right: the last row prints an upper end that such a
latency is not below (`RowSays`). `LabelsMatch` follows for the pure tables;
with `IssuedFirst` and `FrameExact` it gives `LabelsTrue`: within the
scale, what a row says of an unaliased request is true of the time it really took.

*User half.* First, every step of the composition is a step of the kernel half
or leaves it alone (`CollectorImplementsKernel`), so `KernelInv` carries over.
`CollectorInv` adds which links and objects are held where (`Holds`), that a frame
keeps the buckets' exactness (`FrameKnown`), that a request is in one bucket
(`CountedOnce`), that what was read is still in the histogram only in buckets to
be reset or after a reset that failed (`ReadOnce`, `again`), and that what a reset
wipes was read or is in `unseen` (`WipesKnown`).

*Process.* A hidden cursor has its deferred `showCursor` (`HiddenIsDeferred`), an
open collector its deferred `Close` (`OpenIsDeferred`), and exit
statuses 1 and 2 are reached only with no deferred call left (`ExitsKnown`). The handler
exists only when the cursor will not be hidden again (`HandlerAfterHide`), which
is why its `showCursor` lasts until `os.Exit`. The type invariant, which also ties
the lock to its holder, is not inductive without `ProcessInv`: that the
handler starts once is only in the latter. `ShowIsLast` is needed for a similar
reason: nothing may still be deferred while the cursor is being shown. `SignalKept`
and `FailureUnwinds` are what is safety in the two liveness properties: a caught
signal stays in the channel or with the handler, and what has failed is not tried
again.

*Network.* `Explains` relates a history to two samples: the counter is at most
the old value plus the traffic unless the name was taken over, and exactly that
if the interface stayed and did not wrap. The clock kept with a sample was read
after it and before the next one, so the divisor misses the gap between the
samples by the two delays of reading the clock and no more (`GapMeasured`). Every kernel step keeps it between the
last sample and the current counters, and a sample turns that into a relation
between two samples, from which each property of the rates follows.

*Reports.* With `CollectorInv` every step of the composition is a step of
`IntervalReport` or a stutter: a count is a `Record`; a read moves a bucket from
"to be read" to "in the frame", which leaves what is due as it was; a reset
drops what is not in the frame; and a frame's items are no longer held once it
is shown, because `ReadOnce` says that they were reset.

*CPU.* `Follows` says that two samples of a line differ by what it did in between;
every kernel step keeps it between the last sample and the current counters.
The percentages then depend on the differences only: either none has wrapped, and
the share is the true one, or the idle difference has, and the share is not positive.
`SharesInRange` is the other side of the run `cpu_range`: a percentage leaves 0 to
100 only on a line whose idle counters went back by more than the line idled.

*Figures.* Memory, capacity and bars follow from the definitions, by cases on the
guards, in exact arithmetic with a remainder. A row fits because the maximum of a
finite set of numbers is one of them and no smaller than any (`MaxIsLargest`).
`SizesReadable` unfolds the recursive `Scale`: each round divides by the unit
once more, a 64-bit word allows six rounds, so the index stays below six and the
divisor has not wrapped (`ScaleRound`, `ScaleDiv`). The memory in use differs from
what the kernel reports only where the estimate is a reported zero, and then by no
more than free, buffers and cache (`MemoryErrorBounded`). `DisksListed` goes by the
prefix: where the filter knows it, the naming convention makes its answer the kind of
the device; where it does not, it lists the device, a disk or not (`WhatIsListed`).

*Induction without an induction theorem.* The library's induction theorems take an
operator as a parameter, which the provers cannot instantiate. `NatLemmas` goes
through well-foundedness instead: a set of natural numbers has a least
element, so an induction is a proof that there is no least counterexample.
`RecursionExists` shows in this way that a recursive function over the natural
numbers satisfies its equation, which `Shift` and `Scale` need.

## 6. What is only model-checked

Three properties, `SampleShown`, `SignalExits` and `FailureExits`: liveness under
fairness, for which steps have to be shown enabled, is beyond the prover. The
violated statements are shown by TLC's counterexamples.

## 7. Abstractions and what is left out

- The hash map's behaviour is the kernel's and is modelled from how the programs
  use it: a full map refuses new keys, replacement is atomic, freed elements may
  be reused at once. The recursion guard of BPF (a probe that interrupts a map
  operation on its own CPU is skipped), requeued requests and partial completions
  are not modelled.
- After the issue link is detached, a request can be issued unseen under a key
  that has a leftover entry and complete seen. The sample properties make no claim
  for this closing phase (`Open`); no frame shows what is counted then.
- A request that was issued between the two attaches and completed unseen leaves
  an entry for the life of the collector (`NoEntryLeft` allows exactly these).
- Signals other than SIGINT and SIGTERM are not modelled: the program catches no
  other, so SIGHUP or SIGKILL end it, and Ctrl+Z stops it, with the cursor as it is.
- `Sysmon` leaves out what samples contain; `Throughput` leaves out failing
  samples, which end the program, and reads `/proc/net/dev` in one step although
  the kernel prints it line by line: no property relates two interfaces.
- `CpuUsage` starts with counters at zero, reads `/proc/stat` in one step, and lets
  an idle counter go back by at most what float64 rounds away from 2^64 (1024
  jiffies). Lengths computed in float64 are taken for their exact floor.
- Memory in use is what is not available and disk space in use includes what is
  reserved for root, as the source says of both (`README.md:200-205`). A product of
  blocks and block size that exceeds 2^64 is not noticed by the code, and the
  total shown is then too small; only the differences are guarded.
- A name that another interface has taken over is compared with the old one's
  counters; `NeverOverstated` makes no claim for such an interval.

Where the source says more than the code does, besides the violated runs:

- The last row prints `4194304–8388608 µs` (`loader.go:162-164`), and
  `block_latency.c:12-14`, `20-22` and `37-38` give bucket 23 that range, but line 95
  clamps every longer latency into it.
- `loader.go:114` asks to "always call" `Close`. The ordinary way out, Ctrl+C, ends in
  `os.Exit` (`main.go:62`), which skips the deferred call of line 73; the kernel
  releases links and objects of a process that is gone, as `Exit` in `Collector`
  has it, so nothing stays attached (`Released`).
- `blog-post.md:55` calls the total the "sum of all columns"; its own listing (lines
  74-76) and `cpu.go:33-39` leave the guest columns out, since they are contained in
  user and nice time (`ShareCounted`).

Out of scope:

- Not modelled: text formats of `/proc` files, screen layout, command-line
  parsing (library), generated code (used through `LoadObjects` and
  `CloseObjects`), kernel type declarations, packaging.

## 8. Plan

In order of importance; the first seven are done.

1. `BlockLatency`, its runs and proofs.
2. `Collector`, composed with it, its refinement and proofs.
3. `Sysmon` and its proofs.
4. `Throughput` and its proofs.
5. `CpuUsage` and its proofs.
6. `Format` and `Figures` and their proofs.
7. `IntervalReport`, implemented by `Collector`, with the proof of the refinement.
8. `Sysmon` refined with the steps of `CpuUsage`, `Throughput` and `Collector` as
   the body of its tick, so that a frame's order (samples, time, histogram, text)
   is checked as one system. Until then, the order within a tick is in each
   of these modules for the part that it needs.
9. An abstract specification of the kernel half (each request measured at most once,
   with its own latency, between attach and detach) as a third refinement, beside
   the invariants that say so now.
