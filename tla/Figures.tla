------------------------------ MODULE Figures ------------------------------
(***************************************************************************)
(* The figures of a frame that keep no history: memory                     *)
(* (internal/stats/mem.go), the capacity of a mount point                  *)
(* (internal/stats/disk.go) and the histogram's rows (RenderASCII in       *)
(* internal/ebpf/loader.go), read in the order of the main loop            *)
(* (cmd/sysmon/main.go); and the disk counters, which package stats reads  *)
(* for callers other than the main loop (disk.go).                         *)
(*                                                                         *)
(* What the kernel reports is an input of each reading.  A reading that    *)
(* fails ends the program (Sysmon).                                        *)
(*                                                                         *)
(* A disk counter is modelled by the set of sectors counted in it, each    *)
(* named by the device that it was sent to.                                *)
(***************************************************************************)
EXTENDS Format, FiniteSetsExt

CONSTANTS
  MemKB,       \* bound: the values of memory, in kB,
  CacheKB,     \* those of buffers and cache,
  SwapKB,      \* and those of swap
  BlockCount,  \* bound: counts of blocks of a filesystem
  BlockSize,   \* its block sizes
  Count,       \* bound: counts of a bucket
  HIST_BUCKETS,  \* number of buckets (24)
  Device,      \* the block devices of /proc/diskstats
  name,        \* name[d]: what isWholeDisk can tell of the name of d
  kind,        \* kind[d]: what d is, whatever its name
  under        \* under[d]: the devices that the I/O of d goes through, d too

Names == [prefix : STRING, digit : BOOLEAN, p : BOOLEAN]

\* "other" is what is no part of a disk: devices without hardware of their own,
\* and those that the code leaves out as noise (ram disks, optical drives).
Kinds == {"disk", "partition", "other"}

\* The prefixes that the code knows.
Lettered == {"sd", "vd", "xvd"}
Virtual  == {"loop", "ram", "dm-", "sr"}
Known    == Lettered \cup Virtual \cup {"nvme"}

ASSUME FiguresAssumption ==
  /\ MemKB \cup CacheKB \cup SwapKB \subseteq Words
  /\ \A m \in MemKB, b, c \in CacheKB : m + b + c < Word
  /\ BlockCount \cup BlockSize \subseteq Words
  /\ Count \subseteq Nat
  /\ HIST_BUCKETS \in Nat
  /\ name \in [Device -> Names]
  /\ kind \in [Device -> Kinds]
  /\ under \in [Device -> SUBSET Device]
  /\ \A d \in Device : d \in under[d]

\* How the kernel names the devices of these prefixes.  Of a device of another
\* prefix (mmcblk0p1, md0) nothing is assumed.
ASSUME DeviceAssumption ==
  \A d \in Device :
    LET n == name[d]
    IN  /\ n.prefix \in Virtual => kind[d] = "other"
        /\ n.prefix \in Lettered =>
             kind[d] = IF n.digit THEN "partition" ELSE "disk"
        /\ n.prefix = "nvme" => kind[d] = IF n.p THEN "partition" ELSE "disk"

VARIABLES
  pc,       \* what was read last: "wait" (nothing), "mem", "disk", "frame" (all
            \* of a frame), or "io"
  meminfo,  \* /proc/meminfo
  statfs,   \* the answer of statfs
  latencyBuckets,  \* the counts that ReadHistogram returned
  io        \* the devices that a sector was sent to, when /proc/diskstats is read

vars == <<pc, meminfo, statfs, latencyBuckets, io>>

None == <<>>

\* /proc/meminfo.  Kernels before 3.14 have no MemAvailable.
Missing == -1
MemFile == [MemTotal : MemKB, MemFree : MemKB, MemAvailable : MemKB \cup {Missing},
            Buffers : CacheKB, Cached : CacheKB,
            SwapTotal : SwapKB, SwapFree : SwapKB]

\* A filesystem keeps some free blocks for root.
Statfs == {s \in [Bsize : BlockSize, Blocks : BlockCount, Bfree : BlockCount,
                  Bavail : BlockCount] :
             s.Bavail <= s.Bfree /\ s.Bfree <= s.Blocks}

Init ==
  /\ pc = "wait"
  /\ meminfo = None
  /\ statfs = None
  /\ latencyBuckets = None
  /\ io = None

-----------------------------------------------------------------------------
(* mem.go *)

\* Mutant: the sum replaces a MemAvailable that is there.
ParseMemInfoOld(file) ==
  [TotalKB     |-> file.MemTotal,
   AvailableKB |-> Plus(Plus(file.MemFree, file.Buffers), file.Cached),
   SwapTotalKB |-> file.SwapTotal,
   SwapFreeKB  |-> file.SwapFree]

\* A missing field is left at zero; an AvailableKB of zero is taken for one.
ParseMemInfo(file) ==
  LET available == IF file.MemAvailable = Missing THEN 0 ELSE file.MemAvailable
  IN  [TotalKB     |-> file.MemTotal,
       AvailableKB |->
         IF available = 0
         THEN Plus(Plus(file.MemFree, file.Buffers), file.Cached)
         ELSE available,
       SwapTotalKB |-> file.SwapTotal,
       SwapFreeKB  |-> file.SwapFree]

\* Mutant: the difference without its guard.
UsedUnguarded(total, free) == Minus(total, free)

\* What UsedKB, SwapUsedKB and UsedBytes compute.
Used(total, free) == IF free > total THEN 0 ELSE Minus(total, free)

UsedKB(m)     == Used(m.TotalKB, m.AvailableKB)
SwapUsedKB(m) == Used(m.SwapTotalKB, m.SwapFreeKB)

\* Mutant: a total of zero is no exception.
UsedPercentUnguarded(used, total) == Percent(used, total)

\* Both functions UsedPercent.
UsedPercent(used, total) ==
  IF total = 0 THEN Percent(0, 1) ELSE Percent(used, total)

-----------------------------------------------------------------------------
(* disk.go *)

DiskUsage(s) == [TotalBytes |-> Times(s.Blocks, s.Bsize),
                 FreeBytes  |-> Times(s.Bavail, s.Bsize)]

UsedBytes(u) == Used(u.TotalBytes, u.FreeBytes)

\* Mutant: nvme names are told apart by their last character.
isWholeDiskByDigit(n) ==
  CASE n.prefix \in Virtual               -> FALSE
    [] n.prefix \in Lettered \cup {"nvme"} -> ~n.digit
    [] OTHER                              -> TRUE

\* From the start of a name, whether it ends in a digit and contains a "p".
isWholeDisk(n) ==
  CASE n.prefix \in Virtual  -> FALSE
    [] n.prefix = "nvme"     -> ~n.p
    [] n.prefix \in Lettered -> ~n.digit
    [] OTHER                 -> TRUE

\* The devices that are listed, with the sectors each has counted: its own I/O
\* and that of the devices on it.
ParseDiskIO ==
  [d \in {e \in Device : isWholeDisk(name[e])} |-> {e \in io : d \in under[e]}]

-----------------------------------------------------------------------------
(* loader.go: RenderASCII *)

\* Mutant: rows are scaled to the first bucket that has one.
RenderToFirst(counts) ==
  LET some == {i \in DOMAIN counts : counts[i] > 0}
  IN  [i \in some |-> (counts[i] * barWidth) \div counts[Min(some)]]

\* The filled part of the row of every bucket that is not empty.
RenderASCII(counts) ==
  LET some == {i \in DOMAIN counts : counts[i] > 0}
      max  == Max({counts[i] : i \in some})
  IN  [i \in some |-> (counts[i] * barWidth) \div max]

-----------------------------------------------------------------------------
(* The readings *)

ReadMemInfo ==
  /\ pc = "wait"
  /\ pc' = "mem"
  /\ meminfo' \in MemFile
  /\ UNCHANGED <<statfs, latencyBuckets, io>>

ReadDiskUsage ==
  /\ pc = "mem"
  /\ pc' = "disk"
  /\ statfs' \in Statfs
  /\ UNCHANGED <<meminfo, latencyBuckets, io>>

\* No buckets without a collector, or if it fails.
ReadHistogram ==
  /\ pc = "disk"
  /\ pc' = "frame"
  /\ latencyBuckets' \in {None} \cup [0 .. HIST_BUCKETS - 1 -> Count]
  /\ UNCHANGED <<meminfo, statfs, io>>

\* The figures of the frame.
mem  == ParseMemInfo(meminfo)
disk == DiskUsage(statfs)

\* Mutant: swap is displayed even if there is none.
barsWithSwap ==
  {bar(UsedPercent(UsedKB(mem), mem.TotalKB)),
   bar(UsedPercent(UsedBytes(disk), disk.TotalBytes)),
   bar(Percent(SwapUsedKB(mem), mem.SwapTotalKB))}

\* Its bars, the sizes in bytes it prints, and its rows.
bars ==
  {bar(UsedPercent(UsedKB(mem), mem.TotalKB)),
   bar(UsedPercent(UsedBytes(disk), disk.TotalBytes))}
  \cup IF mem.SwapTotalKB > 0
       THEN {bar(Percent(SwapUsedKB(mem), mem.SwapTotalKB))}
       ELSE {}

sizes ==
  {humanKB(UsedKB(mem)), humanKB(mem.TotalKB),
   humanKB(SwapUsedKB(mem)), humanKB(mem.SwapTotalKB),
   UsedBytes(disk), disk.TotalBytes}

rows == RenderASCII(latencyBuckets)

\* Mutant: the buckets of the last tick are kept.
RenderKeeping ==
  /\ pc = "frame"
  /\ pc' = "wait"
  /\ meminfo' = None
  /\ statfs' = None
  /\ UNCHANGED <<latencyBuckets, io>>

Render ==
  /\ pc = "frame"
  /\ pc' = "wait"
  /\ meminfo' = None
  /\ statfs' = None
  /\ latencyBuckets' = None
  /\ UNCHANGED io

ReadDiskIO ==
  /\ pc = "wait"
  /\ pc' = "io"
  /\ io' \in SUBSET Device
  /\ UNCHANGED <<meminfo, statfs, latencyBuckets>>

\* ReadDiskIO returns.
ReturnDiskIO ==
  /\ pc = "io"
  /\ pc' = "wait"
  /\ io' = None
  /\ UNCHANGED <<meminfo, statfs, latencyBuckets>>

-----------------------------------------------------------------------------
Next ==
  \/ ReadMemInfo \/ ReadDiskUsage \/ ReadHistogram \/ Render
  \/ ReadDiskIO \/ ReturnDiskIO

Spec == Init /\ [][Next]_vars

-----------------------------------------------------------------------------
\* What has been read where, and the types of it.
FiguresTypeOK ==
  /\ pc \in {"wait", "mem", "disk", "frame", "io"}
  /\ meminfo \in (IF pc \in {"mem", "disk", "frame"} THEN MemFile ELSE {None})
  /\ statfs \in (IF pc \in {"disk", "frame"} THEN Statfs ELSE {None})
  /\ latencyBuckets \in (IF pc = "frame"
                         THEN {None} \cup [0 .. HIST_BUCKETS - 1 -> Count]
                         ELSE {None})
  /\ io \in (IF pc = "io" THEN SUBSET Device ELSE {None})

\* No figure in use is more than the whole, whatever the kernel (or a container's
\* stand-in for it) reports: none of the unsigned differences wraps
\* (mem.go:40-61, disk.go:141-146).
UsedWithinTotal ==
  pc = "frame" =>
    /\ UsedKB(mem) <= mem.TotalKB
    /\ SwapUsedKB(mem) <= mem.SwapTotalKB
    /\ UsedBytes(disk) <= disk.TotalBytes

\* The memory in use by the kernel's estimate of what is available, or, on
\* kernels that report none, by the sum that stands for it.
UsedByEstimate(f) ==
  LET free == IF f.MemAvailable = Missing
              THEN f.MemFree + f.Buffers + f.Cached
              ELSE f.MemAvailable
  IN  IF free > f.MemTotal THEN 0 ELSE f.MemTotal - free

\* The memory shown as in use is that, but for an estimate of zero, which the
\* code takes for a missing one; there it shows less, and by no more than the
\* sum it puts in the place of the zero (mem.go:36-45, 115-119).
MemoryErrorBounded ==
  pc = "frame" =>
    LET f     == meminfo
        error == UsedByEstimate(f) - UsedKB(mem)
    IN  /\ error >= 0
        /\ error <= IF f.MemAvailable = 0
                    THEN f.MemFree + f.Buffers + f.Cached ELSE 0

\* A frame has no bar whose length is negative or beyond its width: no total of
\* zero and no wrapped difference makes strings.Repeat panic, which would end the
\* program (main.go:158-178, 204-217, mem.go:48-53, disk.go:149-154).
BarsFit == pc = "frame" => bars \subseteq 0 .. width

\* The same for the histogram's rows, of which the largest is full
\* (loader.go:124-152).
RowsFit ==
  pc = "frame" =>
    /\ \A i \in DOMAIN rows : rows[i] \in 0 .. barWidth
    /\ rows # None => \E i \in DOMAIN rows : rows[i] = barWidth

\* Every 64-bit size is printed with a letter of "KMGTPE", and as a number from
\* 1 to below 1024 of that unit (main.go:225-239).
SizesReadable ==
  pc = "frame" =>
    \A b \in sizes :
      LET h == humanBytes(b)
      IN  /\ h.exp \in NoLetter .. 5
          /\ b < h.div * Unit
          /\ h.exp # NoLetter => h.div <= b

\* The listed counters that sector e, sent to the device of its name, is in.
CountersOf(e) == {d \in DOMAIN ParseDiskIO : e \in ParseDiskIO[d]}

\* Each sector that reaches a disk is in the listed counters of that disk,
\* whatever the prefix of its name and however many devices the sector went
\* through; if it is in any other listed counter, too, that is of a device whose
\* prefix the code does not know (disk.go:105-127).
DisksListed ==
  pc = "io" =>
    \A e \in io :
      /\ {d \in under[e] : kind[d] = "disk"} \subseteq CountersOf(e)
      /\ \A d \in CountersOf(e) :
           kind[d] = "disk" \/ name[d].prefix \notin Known

-----------------------------------------------------------------------------
(* What the repository says of these figures; TLC refutes both. *)

\* README.md:200-202 and mem.go:36-39: used is MemTotal - MemAvailable; the sum
\* is for kernels that do not expose MemAvailable (mem.go:115-116).
MemoryAsReported == pc = "frame" => UsedKB(mem) = UsedByEstimate(meminfo)

\* README.md:207-209 and disk.go:48-49, 105-106: only whole disks are listed, so
\* that I/O which flows through several devices is not counted twice.
EachSectorOnce ==
  pc = "io" =>
    \A e \in io : CountersOf(e) = {d \in under[e] : kind[d] = "disk"}
=============================================================================
