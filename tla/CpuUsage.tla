------------------------------ MODULE CpuUsage ------------------------------
(***************************************************************************)
(* The CPU section of the display: the counters of /proc/stat, the samples *)
(* the main loop keeps of them (cmd/sysmon/main.go) and the busy           *)
(* percentages computed from two samples (internal/stats/cpu.go).          *)
(*                                                                         *)
(* CPUs spend their time one jiffy (scheduler tick) after another, go      *)
(* offline and return while the loop runs; their idle counters may go      *)
(* back.  A sample is taken in one step.  A failing sample ends the        *)
(* program (Sysmon).                                                       *)
(***************************************************************************)
EXTENDS Format

CONSTANTS
  Core,       \* the lines cpu0, cpu1, ... of /proc/stat
  cpu,        \* the line of all of them together, the one that is shown
  Activity,   \* what the CPUs of the instance spend their time on
  Columns,    \* how many columns kernels may have
  MaxUptime,  \* bound: jiffies that are counted
  MaxBack,    \* bound: jiffies by which a line goes back in an interval
  MaxRounded  \* how far below 2^64 a number still rounds to it (1024)

Field == {"User", "Nice", "System", "Idle", "IOWait", "IRQ", "SoftIRQ",
          "Steal", "Guest", "GuestNice"}

\* The order of the columns.
Position == [User |-> 1, Nice |-> 2, System |-> 3, Idle |-> 4, IOWait |-> 5,
             IRQ |-> 6, SoftIRQ |-> 7, Steal |-> 8, Guest |-> 9,
             GuestNice |-> 10]

\* The jiffies of one line, ten counters of at most MaxUptime, are far from
\* 2^64, so sums of them do not wrap; and no line goes back further in an
\* interval than a float64 rounds away.
ASSUME CpuAssumption ==
  /\ cpu \notin Core
  /\ Activity \subseteq Field
  /\ Columns \subseteq Nat
  /\ MaxUptime \in Nat
  /\ MaxRounded \in Nat
  /\ MaxBack \in 0 .. MaxRounded
  /\ 20 * MaxUptime + MaxRounded < Word

VARIABLES
  stat,     \* the kernel's counters of every line
  online,   \* the cores that have a line
  columns,  \* how many columns this kernel prints
  uptime,   \* how many jiffies have been counted, for the bound
  pc,       \* what the loop does next: "first", "sample", "frame"
  prevCPU,  \* the previous sample
  curCPU,   \* the current sample
  since,    \* history: what each line has done since the last sample
  due       \* history: what it had done when curCPU was taken

kernelVars == <<stat, online, columns, uptime>>
vars == <<stat, online, columns, uptime, pc, prevCPU, curCPU, since, due>>

Line  == Core \cup {cpu}
Lines == online \cup {cpu}

Counters == [Field -> 0 .. MaxUptime]

\* Counters of some lines.
IsTable(f) == DOMAIN f \subseteq Line /\ \A l \in DOMAIN f : f[l] \in Counters

NoTable == [l \in {} |-> 0]

\* The jiffies a line was busy and idle, and those its idle counters lost.
Work == [busy : Nat, idle : Nat, back : 0 .. MaxBack]
NoWork == [l \in Line |-> [busy |-> 0, idle |-> 0, back |-> 0]]

Init ==
  /\ stat = [l \in Line |-> [f \in Field |-> 0]]
  /\ online \in SUBSET Core
  /\ columns \in Columns
  /\ uptime = 0
  /\ pc = "first"
  /\ prevCPU = NoTable
  /\ curCPU = NoTable
  /\ since = NoWork
  /\ due = NoTable

-----------------------------------------------------------------------------
(* The kernel *)

IdleField == {"Idle", "IOWait"}

\* A guest's time is counted as its host's time as well.
Charged(a) ==
  CASE a = "Guest"     -> {"User", "Guest"}
    [] a = "GuestNice" -> {"Nice", "GuestNice"}
    [] OTHER           -> {a}

\* A line spends one jiffy on a.  A kernel without the column of steal does not
\* know of that time; one without those of guests counts it as the host's.
Spend(l, a) ==
  /\ uptime < MaxUptime
  /\ a = "Steal" => Position["Steal"] <= columns
  /\ stat' = [stat EXCEPT ![l] =
                [f \in Field |-> IF f \in Charged(a) THEN @[f] + 1 ELSE @[f]]]
  /\ uptime' = uptime + 1
  /\ since' = IF a \in IdleField THEN [since EXCEPT ![l].idle = @ + 1]
                                 ELSE [since EXCEPT ![l].busy = @ + 1]
  /\ UNCHANGED <<online, columns, pc, prevCPU, curCPU, due>>

\* iowait is not monotonic (proc(5)), nor is idle when a core comes back.
StepBack(l, f) ==
  /\ stat[l][f] > 0
  /\ since[l].back < MaxBack
  /\ stat' = [stat EXCEPT ![l][f] = @ - 1]
  /\ since' = [since EXCEPT ![l].back = @ + 1]
  /\ UNCHANGED <<online, columns, uptime, pc, prevCPU, curCPU, due>>

\* A core goes or returns; its counters are kept.
Hotplug(l) ==
  /\ online' = IF l \in online THEN online \ {l} ELSE online \cup {l}
  /\ UNCHANGED <<stat, columns, uptime, pc, prevCPU, curCPU, since, due>>

-----------------------------------------------------------------------------
(* cpu.go *)

\* Mutants: guests are counted twice; waiting for I/O is not idle.
TotalGuests(c) == c.User + c.Nice + c.System + c.Idle + c.IOWait
                  + c.IRQ + c.SoftIRQ + c.Steal + c.Guest + c.GuestNice
IdleOnly(c) == c.Idle

Total(c) == c.User + c.Nice + c.System + c.Idle + c.IOWait
            + c.IRQ + c.SoftIRQ + c.Steal

IdleTotal(c) == c.Idle + c.IOWait

\* What is read of a line: columns that are missing are zero.
Read(l) ==
  [f \in Field |-> IF Position[f] <= columns THEN stat[l][f] ELSE 0]

\* Lines of less than eight words are skipped.
ParseCPUTimes ==
  [l \in (IF 1 + columns < 8 THEN {} ELSE Lines) |-> Read(l)]

\* Conversion to a float64: of the numbers below 2^53, where jiffies are, and of
\* the last MaxRounded below 2^64, the only ones that occur.
Float(n) == IF n + MaxRounded >= Word THEN Word ELSE n

\* Mutant: an interval without jiffies is not an exception.
PercentUnguarded(p, c) ==
  LET totalDelta == Float(Minus(Total(c), Total(p)))
      idleDelta  == Float(Minus(IdleTotal(c), IdleTotal(p)))
  IN  Percent(totalDelta - idleDelta, totalDelta)

\* The share of one line, 0 if no jiffy was counted.
LinePercent(p, c) ==
  LET totalDelta == Float(Minus(Total(c), Total(p)))
      idleDelta  == Float(Minus(IdleTotal(c), IdleTotal(p)))
  IN  IF totalDelta <= 0 THEN Percent(0, 1)
      ELSE Percent(totalDelta - idleDelta, totalDelta)

\* The lines of both samples.
CPUPercent(prev, cur) ==
  [l \in DOMAIN prev \cap DOMAIN cur |-> LinePercent(prev[l], cur[l])]

-----------------------------------------------------------------------------
(* The main loop *)

FirstSample ==
  /\ pc = "first"
  /\ pc' = "sample"
  /\ prevCPU' = ParseCPUTimes
  /\ since' = NoWork
  /\ UNCHANGED <<kernelVars, curCPU, due>>

\* A tick's sample.
Sample ==
  /\ pc = "sample"
  /\ pc' = "frame"
  /\ curCPU' = ParseCPUTimes
  /\ due' = since
  /\ since' = NoWork
  /\ UNCHANGED <<kernelVars, prevCPU>>

cpuPct == CPUPercent(prevCPU, curCPU)

\* Mutant: the current sample does not become the previous one.
FrameKeeping ==
  /\ pc = "frame"
  /\ pc' = "sample"
  /\ curCPU' = NoTable
  /\ due' = NoTable
  /\ UNCHANGED <<kernelVars, prevCPU, since>>

\* The frame is rendered, then the current sample becomes the previous one.
Frame ==
  /\ pc = "frame"
  /\ pc' = "sample"
  /\ prevCPU' = curCPU
  /\ curCPU' = NoTable
  /\ due' = NoTable
  /\ UNCHANGED <<kernelVars, since>>

-----------------------------------------------------------------------------
KernelStep ==
  \/ \E l \in Line :
       \/ \E a \in Activity : Spend(l, a)
       \/ \E f \in IdleField : StepBack(l, f)
  \/ \E l \in Core : Hotplug(l)

LoopStep == FirstSample \/ Sample \/ Frame

Next == KernelStep \/ LoopStep

Spec == Init /\ [][Next]_vars

-----------------------------------------------------------------------------
\* The types of the variables, and of what a frame shows: every share is one of
\* at least a jiffy, so nothing is divided by zero (cpu.go:142-145).
CpuTypeOK ==
  /\ stat \in [Line -> Counters]
  /\ \A l \in Line, f \in Field : stat[l][f] <= uptime
  /\ online \in SUBSET Core
  /\ columns \in Columns
  /\ uptime \in 0 .. MaxUptime
  /\ pc \in {"first", "sample", "frame"}
  /\ IsTable(prevCPU)
  /\ IsTable(curCPU)
  /\ since \in [Line -> Work]
  /\ due \in (IF pc = "frame" THEN [Line -> Work] ELSE {NoTable})
  /\ pc = "frame" => \A l \in DOMAIN cpuPct :
       cpuPct[l].part \in Int /\ cpuPct[l].whole \in Nat \ {0}

\* What the idle counters of an interval show to have been idle.
NetIdle(w) == w.idle - w.back

\* A frame shows every busy jiffy of its interval once, out of all of them, a
\* guest's too, and for a core that was offline in between too, unless the
\* idle counters ended lower than they began (cpu.go:35-45, main.go:120, 135).
ShareCounted ==
  pc = "frame" =>
    \A l \in DOMAIN cpuPct :
      LET all == due[l].busy + NetIdle(due[l])
      IN  NetIdle(due[l]) >= 0 =>
            cpuPct[l] = IF all = 0 THEN Percent(0, 1)
                                   ELSE Percent(due[l].busy, all)

\* However the counters go back and the differences wrap, no frame counts a
\* busy jiffy that was none; a line that only idled is shown with an empty bar
\* (cpu.go:139-148).
BusyNeverInvented ==
  pc = "frame" =>
    \A l \in DOMAIN cpuPct :
      /\ cpuPct[l].part <= due[l].busy
      /\ due[l].busy = 0 => bar(cpuPct[l]) = 0

\* The bar of the CPU fits its width whatever the counters did: the lengths
\* given to strings.Repeat are never negative (main.go:204-217).
CpuBarFits ==
  pc = "frame" => \A l \in DOMAIN cpuPct : bar(cpuPct[l]) \in 0 .. width

-----------------------------------------------------------------------------
(* The inductive invariant behind them. *)

\* Work w explains the counters c that follow p.
Follows(w, p, c) ==
  /\ Total(c) = Total(p) + w.busy + NetIdle(w)
  /\ IdleTotal(c) = IdleTotal(p) + NetIdle(w)

CpuInv ==
  /\ columns < 7 => prevCPU = NoTable /\ curCPU = NoTable
  /\ pc = "sample" =>
       \A l \in DOMAIN prevCPU : Follows(since[l], prevCPU[l], Read(l))
  /\ pc = "frame" =>
       \A l \in DOMAIN curCPU : Follows(since[l], curCPU[l], Read(l))
  /\ pc = "frame" =>
       \A l \in DOMAIN prevCPU \cap DOMAIN curCPU :
         Follows(due[l], prevCPU[l], curCPU[l])

-----------------------------------------------------------------------------
\* What cpu_test.go:78 expects, a percentage from 0 to 100.  TLC refutes it.
PercentInRange ==
  pc = "frame" =>
    \A l \in DOMAIN cpuPct : cpuPct[l].part \in 0 .. cpuPct[l].whole
=============================================================================
