--------------------------- MODULE CpuUsageProofs ---------------------------
(***************************************************************************)
(* Proofs about the CPU section, for any cores and counters.               *)
(***************************************************************************)
EXTENDS CpuUsage, TLAPS

\* The types alone, without what follows from them.
Types ==
  /\ stat \in [Line -> Counters]
  /\ \A l \in Line, f \in Field : stat[l][f] <= uptime
  /\ online \in SUBSET Core
  /\ columns \in Columns
  /\ uptime \in 0 .. MaxUptime
  /\ pc \in {"first", "sample", "frame"}
  /\ IsTable(prevCPU)
  /\ IsTable(curCPU)
  /\ since \in [Line -> Work]
  /\ due \in (IF pc = "frame" THEN [Line -> Work] ELSE {NoTable})

-----------------------------------------------------------------------------
(* The arithmetic of a share. *)

LEMMA CountersField ==
  ASSUME NEW c \in Counters, NEW f \in Field
  PROVE  c[f] \in 0 .. MaxUptime
BY DEF Counters

\* Sums of counters do not come near the width of a word.
LEMMA SumsBounded ==
  ASSUME NEW c \in Counters
  PROVE  /\ Total(c) \in 0 .. 8 * MaxUptime
         /\ IdleTotal(c) \in 0 .. 8 * MaxUptime
<1>1. \A f \in Field : c[f] \in 0 .. MaxUptime
  BY CountersField
<1>2. /\ c.User \in 0 .. MaxUptime /\ c.Nice \in 0 .. MaxUptime
      /\ c.System \in 0 .. MaxUptime /\ c.Idle \in 0 .. MaxUptime
      /\ c.IOWait \in 0 .. MaxUptime /\ c.IRQ \in 0 .. MaxUptime
      /\ c.SoftIRQ \in 0 .. MaxUptime /\ c.Steal \in 0 .. MaxUptime
  BY <1>1 DEF Field
<1>. QED
  BY <1>2, CpuAssumption DEF Total, IdleTotal

\* A difference is exact, or 2^64 if it would be negative.
LEMMA DeltaExact ==
  ASSUME NEW a \in 0 .. 8 * MaxUptime, NEW b \in 0 .. 8 * MaxUptime,
         b - a <= MaxRounded
  PROVE  /\ a >= b => Float(Minus(a, b)) = a - b
         /\ a < b  => Float(Minus(a, b)) = Word
BY CpuAssumption, FormatAssumption DEF Float, Minus

\* The share of a line whose samples the work w explains.
LEMMA ShareOfWork ==
  ASSUME NEW p \in Counters, NEW c \in Counters, NEW w \in Work,
         Follows(w, p, c)
  PROVE  /\ NetIdle(w) >= 0 =>
              LinePercent(p, c) = IF w.busy + NetIdle(w) = 0
                                  THEN Percent(0, 1)
                                  ELSE Percent(w.busy, w.busy + NetIdle(w))
         /\ LinePercent(p, c).part \in Int
         /\ LinePercent(p, c).part <= w.busy
         /\ LinePercent(p, c).whole \in Nat \ {0}
<1>. DEFINE total == Float(Minus(Total(c), Total(p)))
            idle  == Float(Minus(IdleTotal(c), IdleTotal(p)))
            net   == NetIdle(w)
            busy  == w.busy
<1>1. busy \in Nat /\ net \in Int /\ -net <= MaxRounded
  BY CpuAssumption DEF Work, NetIdle
<1>2. /\ Total(c) \in 0 .. 8 * MaxUptime /\ Total(p) \in 0 .. 8 * MaxUptime
      /\ IdleTotal(c) \in 0 .. 8 * MaxUptime
      /\ IdleTotal(p) \in 0 .. 8 * MaxUptime
  BY SumsBounded
<1>3. /\ Total(c) = Total(p) + busy + net
      /\ IdleTotal(c) = IdleTotal(p) + net
  BY DEF Follows
<1>4. Word \in Nat /\ MaxUptime \in Nat /\ MaxRounded \in Nat
  BY FormatAssumption, CpuAssumption
<1>5. /\ busy + net >= 0 => total = busy + net
      /\ busy + net < 0 => total = Word
  <2>1. /\ Total(c) >= Total(p) => total = Total(c) - Total(p)
        /\ Total(c) < Total(p) => total = Word
    <3>1. Total(p) - Total(c) <= MaxRounded
      <4>. HIDE DEF busy, net
      <4>. QED
        BY <1>1, <1>2, <1>3, <1>4
    <3>. QED
      BY <1>2, <3>1, DeltaExact
  <2>. HIDE DEF total, busy, net
  <2>. QED
    BY <2>1, <1>1, <1>2, <1>3, <1>4
<1>6. /\ net >= 0 => idle = net
      /\ net < 0 => idle = Word
  <2>1. /\ IdleTotal(c) >= IdleTotal(p) => idle = IdleTotal(c) - IdleTotal(p)
        /\ IdleTotal(c) < IdleTotal(p) => idle = Word
    <3>1. IdleTotal(p) - IdleTotal(c) <= MaxRounded
      <4>. HIDE DEF busy, net
      <4>. QED
        BY <1>1, <1>2, <1>3, <1>4
    <3>. QED
      BY <1>2, <3>1, DeltaExact
  <2>. HIDE DEF idle, busy, net
  <2>. QED
    BY <2>1, <1>1, <1>2, <1>3, <1>4
<1>7. /\ total <= 0 => LinePercent(p, c) = Percent(0, 1)
      /\ ~(total <= 0) => LinePercent(p, c) = Percent(total - idle, total)
  BY DEF LinePercent
<1>8. busy + net < Word
  BY <1>1, <1>2, <1>3, <1>4, CpuAssumption
<1>. HIDE DEF total, idle, busy, net
<1>9. CASE total <= 0
  <2>1. LinePercent(p, c) = Percent(0, 1)
    BY <1>7, <1>9
  <2>2. net >= 0 => busy + net = 0
    BY <1>1, <1>4, <1>5, <1>9, <1>8
  <2>. QED
    BY <2>1, <2>2, <1>1 DEF Percent, net, busy
<1>10. CASE ~(total <= 0)
  <2>1. LinePercent(p, c) = Percent(total - idle, total)
    BY <1>7, <1>10
  <2>2. total \in Nat \ {0} /\ idle \in Int
    BY <1>1, <1>4, <1>5, <1>6, <1>10
  <2>3. net >= 0 => total = busy + net /\ busy + net # 0 /\ total - idle = busy
    BY <1>1, <1>4, <1>5, <1>6, <1>10
  <2>4. total - idle <= busy
    BY <1>1, <1>4, <1>5, <1>6, <1>8
  <2>. QED
    BY <2>1, <2>2, <2>3, <2>4 DEF Percent, net, busy
<1>. QED
  BY <1>9, <1>10, <1>1, <1>4, <1>5

-----------------------------------------------------------------------------
(* Types *)


LEMMA NoTableType == IsTable(NoTable)
BY DEF IsTable, NoTable

LEMMA NoWorkType == NoWork \in [Line -> Work]
BY CpuAssumption DEF NoWork, Work

\* A line as it is read.
LEMMA ReadType ==
  ASSUME Types, NEW l \in Line
  PROVE  Read(l) \in Counters
<1>1. stat[l] \in Counters
  BY DEF Types
<1>2. \A f \in Field : stat[l][f] \in 0 .. MaxUptime
  BY <1>1, CountersField
<1>3. 0 \in 0 .. MaxUptime
  BY CpuAssumption
<1>. QED
  BY <1>2, <1>3 DEF Read, Counters

LEMMA SampleType == Types => IsTable(ParseCPUTimes)
<1>. SUFFICES ASSUME Types PROVE IsTable(ParseCPUTimes)
  OBVIOUS
<1>1. Lines \subseteq Line
  BY DEF Types, Lines, Line
<1>2. DOMAIN ParseCPUTimes \subseteq Lines
  BY DEF ParseCPUTimes
<1>3. ASSUME NEW l \in DOMAIN ParseCPUTimes
      PROVE  ParseCPUTimes[l] \in Counters
  <2>1. ParseCPUTimes[l] = Read(l)
    BY DEF ParseCPUTimes
  <2>. QED
    BY <1>1, <1>2, <1>3, <2>1, ReadType
<1>. QED
  BY <1>1, <1>2, <1>3 DEF IsTable

LEMMA WorkExcept ==
  ASSUME NEW w \in Work
  PROVE  /\ [w EXCEPT !.busy = @ + 1] \in Work
         /\ [w EXCEPT !.idle = @ + 1] \in Work
         /\ w.back < MaxBack => [w EXCEPT !.back = @ + 1] \in Work
BY CpuAssumption DEF Work

LEMMA TypeInit == Init => Types
<1>. SUFFICES ASSUME Init PROVE Types
  OBVIOUS
<1>1. 0 \in 0 .. MaxUptime
  BY CpuAssumption
<1>2. stat \in [Line -> Counters]
  BY <1>1 DEF Init, Counters
<1>3. \A l \in Line, f \in Field : stat[l][f] <= uptime
  BY DEF Init
<1>. QED
  BY <1>1, <1>2, <1>3, NoTableType, NoWorkType DEF Init, Types

LEMMA TypeStep == Types /\ [Next]_vars => Types'
<1>. SUFFICES ASSUME Types, [Next]_vars PROVE Types'
  OBVIOUS
<1>. USE DEF Types, kernelVars
<1>1. ASSUME NEW l \in Line, NEW a \in Activity, Spend(l, a) PROVE Types'
  <2>. USE <1>1 DEF Spend
  <2>. DEFINE row == [f \in Field |-> IF f \in Charged(a) THEN stat[l][f] + 1
                                                         ELSE stat[l][f]]
  <2>1. stat[l] \in Counters /\ \A f \in Field : stat[l][f] \in 0 .. MaxUptime
    BY CountersField
  <2>2. uptime' \in 0 .. MaxUptime /\ uptime' = uptime + 1 /\ uptime \in Int
    BY CpuAssumption
  <2>3. stat' = [stat EXCEPT ![l] = row]
    OBVIOUS
  <2>4. ASSUME NEW f \in Field
        PROVE  row[f] \in 0 .. MaxUptime /\ row[f] <= uptime'
    <3>1. stat[l][f] <= uptime /\ stat[l][f] \in 0 .. MaxUptime
      BY <2>1
    <3>2. row[f] = stat[l][f] \/ row[f] = stat[l][f] + 1
      OBVIOUS
    <3>. HIDE DEF row
    <3>. QED
      BY <2>2, <3>1, <3>2, CpuAssumption
  <2>5. row \in Counters
    <3>1. row = [f \in Field |-> row[f]]
      OBVIOUS
    <3>. HIDE DEF row
    <3>. QED
      BY <2>4, <3>1 DEF Counters
  <2>. HIDE DEF row
  <2>6. stat' \in [Line -> Counters]
    BY <2>3, <2>5
  <2>7. ASSUME NEW k \in Line, NEW f \in Field PROVE stat'[k][f] <= uptime'
    <3>1. CASE k = l
      BY <3>1, <2>3, <2>4
    <3>2. CASE k # l
      <4>1. stat'[k][f] = stat[k][f] /\ stat[k][f] <= uptime
        BY <3>2, <2>3
      <4>2. stat[k][f] \in Int
        BY CountersField, CpuAssumption
      <4>. QED
        BY <4>1, <4>2, <2>2
    <3>. QED
      BY <3>1, <3>2
  <2>8. since' \in [Line -> Work]
    <3>1. since[l] \in Work
      OBVIOUS
    <3>2. CASE a \in IdleField
      BY <3>1, <3>2, WorkExcept
    <3>3. CASE a \notin IdleField
      BY <3>1, <3>3, WorkExcept
    <3>. QED
      BY <3>2, <3>3
  <2>. QED
    BY <2>2, <2>6, <2>7, <2>8 DEF IsTable, NoTable
<1>2. ASSUME NEW l \in Line, NEW f \in IdleField, StepBack(l, f) PROVE Types'
  <2>. USE <1>2 DEF StepBack
  <2>1. f \in Field
    BY DEF Field, IdleField
  <2>2. stat[l] \in Counters /\ stat[l][f] \in 0 .. MaxUptime
    BY <2>1, CountersField
  <2>3. stat[l][f] - 1 \in 0 .. MaxUptime /\ stat[l][f] - 1 <= uptime
    BY <2>1, <2>2, CpuAssumption
  <2>4. stat' = [stat EXCEPT ![l] = [stat[l] EXCEPT ![f] = stat[l][f] - 1]]
    OBVIOUS
  <2>5. [stat[l] EXCEPT ![f] = stat[l][f] - 1] \in Counters
    BY <2>2, <2>3 DEF Counters
  <2>6. stat' \in [Line -> Counters]
    BY <2>4, <2>5
  <2>7. ASSUME NEW k \in Line, NEW g \in Field PROVE stat'[k][g] <= uptime'
    <3>1. CASE k = l /\ g = f
      BY <3>1, <2>2, <2>3, <2>4 DEF Counters
    <3>2. CASE ~(k = l /\ g = f)
      BY <3>2, <2>2, <2>4 DEF Counters
    <3>. QED
      BY <3>1, <3>2
  <2>8. since' \in [Line -> Work]
    BY WorkExcept
  <2>. QED
    BY <2>6, <2>7, <2>8 DEF IsTable, NoTable
<1>3. ASSUME NEW l \in Core, Hotplug(l) PROVE Types'
  BY <1>3 DEF Hotplug, IsTable, NoTable
<1>4. CASE FirstSample
  BY <1>4, SampleType, NoWorkType DEF FirstSample, NoTable, IsTable
<1>5. CASE Sample
  BY <1>5, SampleType, NoWorkType DEF Sample, IsTable
<1>6. CASE Frame
  BY <1>6, NoTableType DEF Frame, IsTable
<1>7. CASE UNCHANGED vars
  BY <1>7 DEF vars, IsTable, NoTable
<1>. QED
  BY <1>1, <1>2, <1>3, <1>4, <1>5, <1>6, <1>7
     DEF Next, KernelStep, LoopStep

-----------------------------------------------------------------------------
(* The histories explain the samples. *)

LEMMA NothingFollows ==
  ASSUME Types, NEW l \in Line
  PROVE  Follows(NoWork[l], Read(l), Read(l))
<1>1. NoWork[l].busy = 0 /\ NetIdle(NoWork[l]) = 0
  BY DEF NoWork, NetIdle
<1>2. Total(Read(l)) \in Int /\ IdleTotal(Read(l)) \in Int
  BY ReadType, SumsBounded, CpuAssumption
<1>. QED
  BY <1>1, <1>2 DEF Follows

\* One more jiffy of work adds one to the sums.
LEMMA SpendFollows ==
  ASSUME Types, columns \in Int, columns >= 7, NEW l \in Line, NEW a \in Activity,
         Spend(l, a), NEW k \in Line, NEW p, p \in Counters,
         Follows(since[k], p, Read(k))
  PROVE  Follows(since'[k], p, Read(k)')
<1>1. CASE k # l
  <2>1. stat'[k] = stat[k] /\ since'[k] = since[k] /\ columns' = columns
    BY <1>1 DEF Spend, Types
  <2>2. Read(k)' = Read(k)
    BY <2>1 DEF Read
  <2>. QED
    BY <2>1, <2>2
<1>2. CASE k = l
  <2>. USE <1>2
  <2>. DEFINE r == Read(l)
              s == Read(l)'
              add(f) == IF f \in Charged(a) THEN 1 ELSE 0
  <2>1. r \in Counters
    BY ReadType
  <2>2. ASSUME NEW f \in Field, Position[f] <= columns
        PROVE  s[f] = r[f] + add(f) /\ r[f] \in Int
    <3>1. stat[l] \in Counters /\ stat[l][f] \in 0 .. MaxUptime
      BY CountersField DEF Types
    <3>2. stat'[l][f] = stat[l][f] + add(f)
      BY <3>1 DEF Spend, Types
    <3>3. r[f] = stat[l][f] /\ s[f] = stat'[l][f]
      BY <2>2 DEF Spend, Read
    <3>. QED
      BY <3>1, <3>2, <3>3, CpuAssumption
  <2>3. a \in Field
    BY CpuAssumption
  <2>4. /\ s["User"] = r["User"] + add("User")
        /\ s["Nice"] = r["Nice"] + add("Nice")
        /\ s["System"] = r["System"] + add("System")
        /\ s["Idle"] = r["Idle"] + add("Idle")
        /\ s["IOWait"] = r["IOWait"] + add("IOWait")
        /\ s["IRQ"] = r["IRQ"] + add("IRQ")
        /\ s["SoftIRQ"] = r["SoftIRQ"] + add("SoftIRQ")
    <3>1. /\ Position["User"] = 1 /\ Position["Nice"] = 2
          /\ Position["System"] = 3 /\ Position["Idle"] = 4
          /\ Position["IOWait"] = 5 /\ Position["IRQ"] = 6
          /\ Position["SoftIRQ"] = 7
      BY DEF Position
    <3>. HIDE DEF r, s, add
    <3>. QED
      BY <2>2, <3>1 DEF Field
  <2>5. s["Steal"] = r["Steal"] + add("Steal")
    <3>1. CASE Position["Steal"] <= columns
      BY <2>2, <3>1 DEF Field
    <3>2. CASE ~(Position["Steal"] <= columns)
      <4>1. a # "Steal"
        BY <3>2 DEF Spend
      <4>2. add("Steal") = 0
        BY <2>3, <4>1 DEF Charged, Field
      <4>3. r["Steal"] = 0 /\ s["Steal"] = 0
        BY <3>2 DEF Read, Spend, Field
      <4>. QED
        BY <4>2, <4>3
    <3>. QED
      BY <3>1, <3>2
  <2>6. /\ add("User") + add("Nice") + add("System") + add("Idle")
           + add("IOWait") + add("IRQ") + add("SoftIRQ") + add("Steal") = 1
        /\ a \in IdleField => add("Idle") + add("IOWait") = 1
        /\ a \notin IdleField => add("Idle") + add("IOWait") = 0
    BY <2>3 DEF Field, Charged, IdleField
  <2>7. \A f \in Field : r[f] \in Int
    BY <2>1, CountersField, CpuAssumption
  <2>8. /\ add("User") \in Int /\ add("Nice") \in Int /\ add("System") \in Int
        /\ add("Idle") \in Int /\ add("IOWait") \in Int /\ add("IRQ") \in Int
        /\ add("SoftIRQ") \in Int /\ add("Steal") \in Int
    OBVIOUS
  <2>. HIDE DEF r, s, add
  <2>9. /\ Total(s) = Total(r) + 1
        /\ a \in IdleField => IdleTotal(s) = IdleTotal(r) + 1
        /\ a \notin IdleField => IdleTotal(s) = IdleTotal(r)
    <3>1. /\ r.User \in Int /\ r.Nice \in Int /\ r.System \in Int
          /\ r.Idle \in Int /\ r.IOWait \in Int /\ r.IRQ \in Int
          /\ r.SoftIRQ \in Int /\ r.Steal \in Int
      BY <2>7 DEF Field
    <3>2. /\ Total(s) = (r.User + add("User")) + (r.Nice + add("Nice"))
             + (r.System + add("System")) + (r.Idle + add("Idle"))
             + (r.IOWait + add("IOWait")) + (r.IRQ + add("IRQ"))
             + (r.SoftIRQ + add("SoftIRQ")) + (r.Steal + add("Steal"))
          /\ IdleTotal(s) = (r.Idle + add("Idle")) + (r.IOWait + add("IOWait"))
      BY <2>4, <2>5 DEF Total, IdleTotal
    <3>3. Total(s) = Total(r)
                     + (add("User") + add("Nice") + add("System") + add("Idle")
                        + add("IOWait") + add("IRQ") + add("SoftIRQ")
                        + add("Steal"))
      BY <2>8, <3>1, <3>2 DEF Total
    <3>4. IdleTotal(s) = IdleTotal(r) + (add("Idle") + add("IOWait"))
      BY <2>8, <3>1, <3>2 DEF IdleTotal
    <3>. QED
      BY <2>6, <2>8, <3>1, <3>3, <3>4 DEF IdleTotal
  <2>10. /\ since[l] \in Work
         /\ a \in IdleField => /\ since'[l].busy = since[l].busy
                               /\ NetIdle(since'[l]) = NetIdle(since[l]) + 1
         /\ a \notin IdleField => /\ since'[l].busy = since[l].busy + 1
                                  /\ NetIdle(since'[l]) = NetIdle(since[l])
    BY DEF Spend, Types, Work, NetIdle
  <2>11. /\ since[l].busy \in Int /\ NetIdle(since[l]) \in Int
         /\ Total(p) \in Int /\ IdleTotal(p) \in Int
    BY <2>10, SumsBounded, CpuAssumption DEF Work, NetIdle
  <2>12. /\ Total(r) = Total(p) + since[l].busy + NetIdle(since[l])
         /\ IdleTotal(r) = IdleTotal(p) + NetIdle(since[l])
    BY DEF Follows, r
  <2>13. CASE a \in IdleField
    <3>1. /\ Total(s) = Total(p) + since'[l].busy + NetIdle(since'[l])
          /\ IdleTotal(s) = IdleTotal(p) + NetIdle(since'[l])
      BY <2>9, <2>10, <2>11, <2>12, <2>13
    <3>. QED
      BY <3>1 DEF Follows, s
  <2>14. CASE a \notin IdleField
    <3>1. /\ Total(s) = Total(p) + since'[l].busy + NetIdle(since'[l])
          /\ IdleTotal(s) = IdleTotal(p) + NetIdle(since'[l])
      BY <2>9, <2>10, <2>11, <2>12, <2>14
    <3>. QED
      BY <3>1 DEF Follows, s
  <2>. QED
    BY <2>13, <2>14
<1>. QED
  BY <1>1, <1>2

\* An idle counter that goes back takes one from both sums.
LEMMA StepBackFollows ==
  ASSUME Types, columns \in Int, columns >= 7, NEW l \in Line,
         NEW f \in IdleField, StepBack(l, f), NEW k \in Line,
         NEW p, p \in Counters, Follows(since[k], p, Read(k))
  PROVE  Follows(since'[k], p, Read(k)')
<1>1. CASE k # l
  <2>1. stat'[k] = stat[k] /\ since'[k] = since[k] /\ columns' = columns
    BY <1>1 DEF StepBack, Types
  <2>2. Read(k)' = Read(k)
    BY <2>1 DEF Read
  <2>. QED
    BY <2>1, <2>2
<1>2. CASE k = l
  <2>. USE <1>2
  <2>. DEFINE r == Read(l)
              s == Read(l)'
  <2>1. r \in Counters
    BY ReadType
  <2>2. f \in Field /\ Position[f] <= columns
    BY DEF IdleField, Field, Position
  <2>3. stat[l] \in Counters /\ stat[l][f] \in 0 .. MaxUptime
    BY <2>2, CountersField DEF Types
  <2>4. s[f] = r[f] - 1 /\ r[f] \in Int
    BY <2>2, <2>3, CpuAssumption DEF StepBack, Read, Types, Counters
  <2>5. \A g \in Field \ {f} : s[g] = r[g]
    BY <2>2, <2>3 DEF StepBack, Read, Types, Counters
  <2>6. \A g \in Field : r[g] \in Int
    BY <2>1, CountersField, CpuAssumption
  <2>. HIDE DEF r, s
  <2>7. /\ s.User = r.User /\ s.Nice = r.Nice /\ s.System = r.System
        /\ s.IRQ = r.IRQ /\ s.SoftIRQ = r.SoftIRQ /\ s.Steal = r.Steal
    BY <2>5 DEF Field, IdleField
  <2>8. s.Idle + s.IOWait = r.Idle + r.IOWait - 1
    <3>1. r.Idle \in Int /\ r.IOWait \in Int
      BY <2>6 DEF Field
    <3>2. \/ f = "Idle" /\ s.Idle = r.Idle - 1 /\ s.IOWait = r.IOWait
          \/ f = "IOWait" /\ s.IOWait = r.IOWait - 1 /\ s.Idle = r.Idle
      BY <2>4, <2>5 DEF Field, IdleField
    <3>. QED
      BY <3>1, <3>2
  <2>9. Total(s) = Total(r) - 1 /\ IdleTotal(s) = IdleTotal(r) - 1
    <3>1. /\ r.User \in Int /\ r.Nice \in Int /\ r.System \in Int
          /\ r.Idle \in Int /\ r.IOWait \in Int /\ r.IRQ \in Int
          /\ r.SoftIRQ \in Int /\ r.Steal \in Int
          /\ s.Idle \in Int /\ s.IOWait \in Int
      BY <2>4, <2>5, <2>6 DEF Field
    <3>. QED
      BY <2>7, <2>8, <3>1 DEF Total, IdleTotal
  <2>10. /\ since[l] \in Work
         /\ since'[l].busy = since[l].busy
         /\ NetIdle(since'[l]) = NetIdle(since[l]) - 1
    BY DEF StepBack, Types, Work, NetIdle
  <2>11. /\ since[l].busy \in Int /\ NetIdle(since[l]) \in Int
         /\ Total(p) \in Int /\ IdleTotal(p) \in Int
    BY <2>10, SumsBounded, CpuAssumption DEF Work, NetIdle
  <2>12. /\ Total(r) = Total(p) + since[l].busy + NetIdle(since[l])
         /\ IdleTotal(r) = IdleTotal(p) + NetIdle(since[l])
    BY DEF Follows, r
  <2>13. Total(s) = (Total(p) + since[l].busy + NetIdle(since[l])) - 1
    BY <2>9, <2>12
  <2>14. IdleTotal(s) = (IdleTotal(p) + NetIdle(since[l])) - 1
    BY <2>9, <2>12
  <2>15. /\ (Total(p) + since[l].busy + NetIdle(since[l])) - 1
              = Total(p) + since[l].busy + (NetIdle(since[l]) - 1)
         /\ (IdleTotal(p) + NetIdle(since[l])) - 1
              = IdleTotal(p) + (NetIdle(since[l]) - 1)
    BY <2>11
  <2>16. /\ Total(s) = Total(p) + since'[l].busy + NetIdle(since'[l])
         /\ IdleTotal(s) = IdleTotal(p) + NetIdle(since'[l])
    BY <2>10, <2>13, <2>14, <2>15
  <2>. QED
    BY <2>16 DEF Follows, s
<1>. QED
  BY <1>1, <1>2

\* Whatever the kernel does, the history goes on to explain the counters.
LEMMA KernelFollows ==
  ASSUME Types, KernelStep, NEW old, IsTable(old),
         columns < 7 => old = NoTable,
         \A l \in DOMAIN old : Follows(since[l], old[l], Read(l))
  PROVE  \A l \in DOMAIN old : Follows(since'[l], old[l], Read(l)')
<1>1. SUFFICES ASSUME NEW k \in DOMAIN old
               PROVE  Follows(since'[k], old[k], Read(k)')
  OBVIOUS
<1>2. columns \in Int
  BY CpuAssumption DEF Types
<1>3. columns >= 7
  BY <1>2 DEF NoTable
<1>4. k \in Line /\ old[k] \in Counters /\ Follows(since[k], old[k], Read(k))
  BY DEF IsTable
<1>5. ASSUME NEW l \in Line, NEW a \in Activity, Spend(l, a)
      PROVE  Follows(since'[k], old[k], Read(k)')
  BY <1>2, <1>3, <1>4, <1>5, SpendFollows
<1>6. ASSUME NEW l \in Line, NEW f \in IdleField, StepBack(l, f)
      PROVE  Follows(since'[k], old[k], Read(k)')
  BY <1>2, <1>3, <1>4, <1>6, StepBackFollows
<1>7. ASSUME NEW l \in Core, Hotplug(l)
      PROVE  Follows(since'[k], old[k], Read(k)')
  <2>1. since' = since /\ Read(k)' = Read(k)
    BY <1>7 DEF Hotplug, Read
  <2>. QED
    BY <2>1, <1>4
<1>. QED
  BY <1>5, <1>6, <1>7 DEF KernelStep

\* A sample explains itself, and there is none of short lines.
LEMMA SampleFollows ==
  ASSUME Types
  PROVE  /\ \A l \in DOMAIN ParseCPUTimes :
              Follows(NoWork[l], ParseCPUTimes[l], Read(l))
         /\ columns < 7 => ParseCPUTimes = NoTable
<1>1. ASSUME NEW l \in DOMAIN ParseCPUTimes
      PROVE  Follows(NoWork[l], ParseCPUTimes[l], Read(l))
  <2>1. l \in Line /\ ParseCPUTimes[l] = Read(l)
    BY <1>1 DEF ParseCPUTimes, Lines, Line, Types
  <2>. QED
    BY <2>1, NothingFollows
<1>2. ASSUME columns < 7 PROVE ParseCPUTimes = NoTable
  <2>1. columns \in Int
    BY CpuAssumption DEF Types
  <2>2. 1 + columns < 8
    BY <1>2, <2>1
  <2>. QED
    BY <2>2 DEF ParseCPUTimes, NoTable
<1>. QED
  BY <1>1, <1>2

LEMMA InvInit == Init => CpuInv
BY DEF Init, CpuInv, NoTable

LEMMA InvStep == Types /\ CpuInv /\ [Next]_vars => CpuInv'
<1>. SUFFICES ASSUME Types, CpuInv, [Next]_vars PROVE CpuInv'
  OBVIOUS
<1>1. CASE KernelStep
  <2>1. UNCHANGED <<columns, pc, prevCPU, curCPU, due>>
    BY <1>1 DEF KernelStep, Spend, StepBack, Hotplug
  <2>2. pc = "sample" =>
          \A l \in DOMAIN prevCPU : Follows(since'[l], prevCPU[l], Read(l)')
    BY <1>1, KernelFollows DEF Types, CpuInv
  <2>3. pc = "frame" =>
          \A l \in DOMAIN curCPU : Follows(since'[l], curCPU[l], Read(l)')
    BY <1>1, KernelFollows DEF Types, CpuInv
  <2>. QED
    BY <2>1, <2>2, <2>3 DEF CpuInv
<1>2. CASE FirstSample
  BY <1>2, SampleFollows DEF FirstSample, CpuInv, kernelVars, Read
<1>3. CASE Sample
  <2>1. \A l \in DOMAIN curCPU' : Follows(since'[l], curCPU'[l], Read(l)')
    BY <1>3, SampleFollows DEF Sample, kernelVars, Read
  <2>2. columns' < 7 => prevCPU' = NoTable /\ curCPU' = NoTable
    BY <1>3, SampleFollows DEF Sample, CpuInv, kernelVars
  <2>3. ASSUME NEW l \in DOMAIN prevCPU' \cap DOMAIN curCPU'
        PROVE  Follows(due'[l], prevCPU'[l], curCPU'[l])
    <3>1. l \in DOMAIN prevCPU /\ l \in DOMAIN ParseCPUTimes
      BY <1>3, <2>3 DEF Sample
    <3>2. Follows(since[l], prevCPU[l], Read(l))
      BY <1>3, <3>1 DEF Sample, CpuInv
    <3>3. ParseCPUTimes[l] = Read(l)
      BY <3>1 DEF ParseCPUTimes
    <3>. QED
      BY <1>3, <3>2, <3>3 DEF Sample
  <2>4. pc' = "frame"
    BY <1>3 DEF Sample
  <2>. QED
    BY <2>1, <2>2, <2>3, <2>4 DEF CpuInv
<1>4. CASE Frame
  BY <1>4 DEF Frame, CpuInv, kernelVars, Read, NoTable
<1>5. CASE UNCHANGED vars
  BY <1>5 DEF vars, CpuInv, Read
<1>. QED
  BY <1>1, <1>2, <1>3, <1>4, <1>5 DEF Next, LoopStep

-----------------------------------------------------------------------------
\* What is known of every share of a frame.
LEMMA FrameShares ==
  ASSUME Types, CpuInv, pc = "frame", NEW l \in DOMAIN cpuPct
  PROVE  /\ cpuPct[l] = LinePercent(prevCPU[l], curCPU[l])
         /\ prevCPU[l] \in Counters /\ curCPU[l] \in Counters
         /\ due[l] \in Work
         /\ Follows(due[l], prevCPU[l], curCPU[l])
<1>1. l \in DOMAIN prevCPU \cap DOMAIN curCPU
  BY DEF cpuPct, CPUPercent
<1>2. cpuPct[l] = LinePercent(prevCPU[l], curCPU[l])
  BY <1>1 DEF cpuPct, CPUPercent
<1>. QED
  BY <1>1, <1>2 DEF Types, IsTable, CpuInv

\* A percentage with a part that is an integer and a whole that is not zero is
\* shown as a bar that fits.
LEMMA BarLength ==
  ASSUME NEW a \in Int, NEW n \in Nat \ {0}
  PROVE  bar(Percent(a, n)) \in 0 .. width
<1>1. CASE a < 0
  BY <1>1 DEF bar, Percent, width
<1>2. CASE a >= 0 /\ a > n
  BY <1>2 DEF bar, Percent, width
<1>3. CASE a >= 0 /\ a <= n
  <2>1. bar(Percent(a, n)) = (a * 20) \div n
    BY <1>3 DEF bar, Percent, width
  <2>. DEFINE q == (a * 20) \div n
  <2>2. q \in Int /\ q * n <= a * 20 /\ a * 20 < (q + 1) * n
    OBVIOUS
  <2>3. 0 <= q /\ q <= 20
    <3>. HIDE DEF q
    <3>1. q >= 0
      <4>1. SUFFICES ASSUME q + 1 <= 0 PROVE FALSE
        BY <2>2
      <4>2. (q + 1) * n <= 0
        BY <2>2, <4>1
      <4>. QED
        BY <2>2, <4>2, <1>3
    <3>2. q <= 20
      <4>1. SUFFICES ASSUME q >= 21 PROVE FALSE
        BY <2>2
      <4>2. q * n >= 21 * n
        BY <2>2, <4>1
      <4>. QED
        BY <2>2, <4>2, <1>3
    <3>. QED
      BY <3>1, <3>2
  <2>. QED
    BY <2>1, <2>2, <2>3 DEF width
<1>. QED
  BY <1>1, <1>2, <1>3

\* Types of the CPU section; no share is divided by zero.
THEOREM CpuTypeCorrect == Spec => []CpuTypeOK
<1>1. Types /\ CpuInv => CpuTypeOK
  <2>. SUFFICES ASSUME Types, CpuInv PROVE CpuTypeOK
    OBVIOUS
  <2>1. ASSUME pc = "frame", NEW l \in DOMAIN cpuPct
        PROVE  cpuPct[l].part \in Int /\ cpuPct[l].whole \in Nat \ {0}
    BY <2>1, FrameShares, ShareOfWork
  <2>. QED
    BY <2>1 DEF Types, CpuTypeOK
<1>. QED
  BY <1>1, TypeInit, TypeStep, InvInit, InvStep, PTL DEF Spec

\* The histories explain the samples.
THEOREM CpuInvariant == Spec => []CpuInv
BY TypeInit, TypeStep, InvInit, InvStep, PTL DEF Spec

\* Every busy jiffy is shown once, out of all of the interval's.
THEOREM SharesCounted == Spec => []ShareCounted
<1>1. Types /\ CpuInv => ShareCounted
  <2>. SUFFICES ASSUME Types, CpuInv, pc = "frame", NEW l \in DOMAIN cpuPct,
                       NetIdle(due[l]) >= 0
                PROVE  LET all == due[l].busy + NetIdle(due[l])
                       IN  cpuPct[l] = IF all = 0 THEN Percent(0, 1)
                                       ELSE Percent(due[l].busy, all)
    BY DEF ShareCounted
  <2>. QED
    BY FrameShares, ShareOfWork
<1>. QED
  BY <1>1, TypeInit, TypeStep, InvInit, InvStep, PTL DEF Spec

\* However the counters wrap, no busy jiffy is shown that was none.
THEOREM BusyIsReal == Spec => []BusyNeverInvented
<1>1. Types /\ CpuInv => BusyNeverInvented
  <2>. SUFFICES ASSUME Types, CpuInv, pc = "frame", NEW l \in DOMAIN cpuPct
                PROVE  /\ cpuPct[l].part <= due[l].busy
                       /\ due[l].busy = 0 => bar(cpuPct[l]) = 0
    BY DEF BusyNeverInvented
  <2>1. /\ cpuPct[l].part \in Int
        /\ cpuPct[l].part <= due[l].busy
        /\ cpuPct[l].whole \in Nat \ {0}
    BY FrameShares, ShareOfWork
  <2>2. ASSUME due[l].busy = 0 PROVE bar(cpuPct[l]) = 0
    <3>1. cpuPct[l].part <= 0
      BY <2>1, <2>2
    <3>2. CASE cpuPct[l].part < 0
      BY <2>1, <3>2 DEF bar
    <3>3. CASE cpuPct[l].part = 0
      <4>. DEFINE n == cpuPct[l].whole
      <4>1. ~(0 > n) /\ n # 0 /\ (0 * 20) \div n = 0
        BY <2>1
      <4>. QED
        BY <3>3, <4>1 DEF bar, width
    <3>. QED
      BY <2>1, <3>1, <3>2, <3>3
  <2>. QED
    BY <2>1, <2>2
<1>. QED
  BY <1>1, TypeInit, TypeStep, InvInit, InvStep, PTL DEF Spec

\* Every bar of the CPU fits its width.
THEOREM CpuBarsFit == Spec => []CpuBarFits
<1>1. Types /\ CpuInv => CpuBarFits
  <2>. SUFFICES ASSUME Types, CpuInv, pc = "frame", NEW l \in DOMAIN cpuPct
                PROVE  bar(cpuPct[l]) \in 0 .. width
    BY DEF CpuBarFits
  <2>1. cpuPct[l].part \in Int /\ cpuPct[l].whole \in Nat \ {0}
    BY FrameShares, ShareOfWork
  <2>2. bar(Percent(cpuPct[l].part, cpuPct[l].whole)) \in 0 .. width
    BY <2>1, BarLength
  <2>3. bar(Percent(cpuPct[l].part, cpuPct[l].whole)) = bar(cpuPct[l])
    BY DEF bar, Percent
  <2>. QED
    BY <2>2, <2>3
<1>. QED
  BY <1>1, TypeInit, TypeStep, InvInit, InvStep, PTL DEF Spec

-----------------------------------------------------------------------------
\* The range of the percentage on the lines whose idle counters have not ended
\* lower than they began.
ShareInRange ==
  pc = "frame" =>
    \A l \in DOMAIN cpuPct :
      NetIdle(due[l]) >= 0 => cpuPct[l].part \in 0 .. cpuPct[l].whole

\* A percentage leaves 0 to 100, as PercentInRange rules out, only on a line
\* whose idle counters went back by more than it idled (cpu.go:139-148).
THEOREM SharesInRange == Spec => []ShareInRange
<1>1. Types /\ CpuInv => ShareInRange
  <2>. SUFFICES ASSUME Types, CpuInv, pc = "frame", NEW l \in DOMAIN cpuPct,
                       NetIdle(due[l]) >= 0
                PROVE  cpuPct[l].part \in 0 .. cpuPct[l].whole
    BY DEF ShareInRange
  <2>. DEFINE busy == due[l].busy
              idle == NetIdle(due[l])
  <2>1. cpuPct[l] = IF busy + idle = 0 THEN Percent(0, 1)
                    ELSE Percent(busy, busy + idle)
    BY FrameShares, ShareOfWork
  <2>2. busy \in Nat /\ idle \in Nat
    BY FrameShares DEF Work, NetIdle
  <2>. HIDE DEF busy, idle
  <2>3. CASE busy + idle = 0
    BY <2>1, <2>3 DEF Percent
  <2>4. CASE busy + idle # 0
    BY <2>1, <2>2, <2>4 DEF Percent
  <2>. QED
    BY <2>3, <2>4
<1>. QED
  BY <1>1, TypeInit, TypeStep, InvInit, InvStep, PTL DEF Spec
=============================================================================
