--------------------------- MODULE FiguresProofs ---------------------------
(***************************************************************************)
(* Proofs about the figures of a frame, for any size of a word, any devices *)
(* and any number of buckets.                                              *)
(***************************************************************************)
EXTENDS Figures, NatLemmas

\* Types of the readings.
THEOREM FiguresTypeCorrect == Spec => []FiguresTypeOK
<1>1. Init => FiguresTypeOK
  BY DEF Init, FiguresTypeOK
<1>2. FiguresTypeOK /\ [Next]_vars => FiguresTypeOK'
  BY DEF FiguresTypeOK, Next, vars, ReadMemInfo, ReadDiskUsage, ReadHistogram,
         Render, ReadDiskIO, ReturnDiskIO
<1>. QED
  BY <1>1, <1>2, PTL DEF Spec

-----------------------------------------------------------------------------
LEMMA ModWord ==
  ASSUME NEW n \in Nat
  PROVE  n % Word \in Words /\ (n < Word => n % Word = n)
BY FormatAssumption DEF Words

LEMMA PlusType ==
  ASSUME NEW a \in Nat, NEW b \in Nat
  PROVE  Plus(a, b) \in Words /\ (a + b < Word => Plus(a, b) = a + b)
BY ModWord DEF Plus

LEMMA TimesType ==
  ASSUME NEW a \in Nat, NEW b \in Nat
  PROVE  Times(a, b) \in Words
<1>1. a * b \in Nat
  OBVIOUS
<1>. QED
  BY <1>1, ModWord DEF Times

\* Division by a unit.
LEMMA Quotient ==
  ASSUME NEW n \in Nat, NEW u \in Nat, u >= 2
  PROVE  /\ n \div u \in Nat
         /\ (n \div u) * u <= n
         /\ n < ((n \div u) + 1) * u
         /\ n >= u => n \div u < n /\ n \div u >= 1
<1>. DEFINE q == n \div u
<1>1. q \in Int /\ q * u <= n /\ n < (q + 1) * u
  OBVIOUS
<1>. HIDE DEF q
<1>2. q >= 0
  <2>1. SUFFICES ASSUME q + 1 <= 0 PROVE FALSE
    BY <1>1
  <2>2. (q + 1) * u <= 0
    BY <1>1, <2>1
  <2>. QED
    BY <1>1, <2>2
<1>3. ASSUME n >= u
      PROVE  q >= 1 /\ q < n
  <2>1. q >= 1
    BY <1>1, <1>2, <1>3
  <2>2. 2 * q <= q * u
    BY <1>1, <2>1
  <2>. QED
    BY <1>1, <2>1, <2>2
<1>. QED
  BY <1>1, <1>2, <1>3 DEF q

\* What is in use is between nothing and the whole.
LEMMA UsedType ==
  ASSUME NEW total \in Nat, NEW free \in Nat
  PROVE  /\ Used(total, free) \in 0 .. total
         /\ Used(total, free) = IF free > total THEN 0 ELSE total - free
BY DEF Used, Minus

\* A bar fits if its part is not negative and its whole not zero.
LEMMA BarLength ==
  ASSUME NEW a \in Nat, NEW n \in Nat \ {0}
  PROVE  bar(Percent(a, n)) \in 0 .. width
<1>1. CASE a > n
  BY <1>1 DEF bar, Percent, width
<1>2. CASE a <= n
  <2>1. bar(Percent(a, n)) = (a * 20) \div n
    BY <1>2 DEF bar, Percent, width
  <2>. DEFINE q == (a * 20) \div n
  <2>2. q \in Int /\ q * n <= a * 20 /\ a * 20 < (q + 1) * n
    OBVIOUS
  <2>. HIDE DEF q
  <2>3. q >= 0
    <3>1. SUFFICES ASSUME q + 1 <= 0 PROVE FALSE
      BY <2>2
    <3>2. (q + 1) * n <= 0
      BY <2>2, <3>1
    <3>. QED
      BY <2>2, <3>2, <1>2
  <2>4. q <= 20
    <3>1. SUFFICES ASSUME q >= 21 PROVE FALSE
      BY <2>2
    <3>2. q * n >= 21 * n
      BY <2>2, <3>1
    <3>. QED
      BY <2>2, <3>2, <1>2
  <2>. QED
    BY <2>1, <2>2, <2>3, <2>4 DEF width, q
<1>. QED
  BY <1>1, <1>2

\* A percentage of something in use fits as well, even of nothing.
LEMMA UsedBarFits ==
  ASSUME NEW used \in Nat, NEW total \in Nat
  PROVE  bar(UsedPercent(used, total)) \in 0 .. width
BY BarLength DEF UsedPercent

\* The figures of a frame.
LEMMA FrameFigures ==
  ASSUME FiguresTypeOK, pc = "frame"
  PROVE  /\ mem.TotalKB \in Nat /\ mem.AvailableKB \in Nat
         /\ mem.SwapTotalKB \in Nat /\ mem.SwapFreeKB \in Nat
         /\ disk.TotalBytes \in Nat /\ disk.FreeBytes \in Nat
<1>1. meminfo \in MemFile /\ statfs \in Statfs
  BY DEF FiguresTypeOK
<1>2. /\ meminfo.MemTotal \in Nat /\ meminfo.MemFree \in Nat
      /\ meminfo.MemAvailable \in Nat \cup {Missing}
      /\ meminfo.Buffers \in Nat /\ meminfo.Cached \in Nat
      /\ meminfo.SwapTotal \in Nat /\ meminfo.SwapFree \in Nat
  BY <1>1, FiguresAssumption, FormatAssumption DEF MemFile, Words
<1>3. statfs.Blocks \in Nat /\ statfs.Bavail \in Nat /\ statfs.Bsize \in Nat
  BY <1>1, FiguresAssumption, FormatAssumption DEF Statfs, Words
<1>4. Words \subseteq Nat
  BY FormatAssumption DEF Words
<1>5. Plus(Plus(meminfo.MemFree, meminfo.Buffers), meminfo.Cached) \in Nat
  BY <1>2, <1>4, PlusType
<1>6. disk.TotalBytes \in Nat /\ disk.FreeBytes \in Nat
  BY <1>3, <1>4, TimesType DEF disk, DiskUsage
<1>. QED
  BY <1>2, <1>5, <1>6 DEF mem, ParseMemInfo

LEMMA InUse ==
  ASSUME FiguresTypeOK, pc = "frame"
  PROVE  /\ UsedKB(mem) \in Nat /\ UsedKB(mem) <= mem.TotalKB
         /\ SwapUsedKB(mem) \in Nat /\ SwapUsedKB(mem) <= mem.SwapTotalKB
         /\ UsedBytes(disk) \in Nat /\ UsedBytes(disk) <= disk.TotalBytes
<1>1. ASSUME NEW total \in Nat, NEW free \in Nat
      PROVE  Used(total, free) \in Nat /\ Used(total, free) <= total
  BY UsedType
<1>. QED
  BY <1>1, FrameFigures DEF UsedKB, SwapUsedKB, UsedBytes

\* No figure in use wraps.
THEOREM NothingWraps == Spec => []UsedWithinTotal
<1>1. FiguresTypeOK => UsedWithinTotal
  BY InUse DEF UsedWithinTotal
<1>. QED
  BY <1>1, FiguresTypeCorrect, PTL

\* No bar of a frame is too short or too long.
THEOREM AllBarsFit == Spec => []BarsFit
<1>1. FiguresTypeOK => BarsFit
  <2>. SUFFICES ASSUME FiguresTypeOK, pc = "frame" PROVE bars \subseteq 0 .. width
    BY DEF BarsFit
  <2>1. bar(UsedPercent(UsedKB(mem), mem.TotalKB)) \in 0 .. width
    BY FrameFigures, InUse, UsedBarFits
  <2>2. bar(UsedPercent(UsedBytes(disk), disk.TotalBytes)) \in 0 .. width
    BY FrameFigures, InUse, UsedBarFits
  <2>3. ASSUME mem.SwapTotalKB > 0
        PROVE  bar(Percent(SwapUsedKB(mem), mem.SwapTotalKB)) \in 0 .. width
    BY <2>3, FrameFigures, InUse, BarLength
  <2>. QED
    BY <2>1, <2>2, <2>3 DEF bars
<1>. QED
  BY <1>1, FiguresTypeCorrect, PTL

\* The memory shown as in use is the kernel's estimate, and below it, by at most
\* free memory, buffers and cache, only where that estimate is that nothing is
\* available: the case in which the code departs from README.md:200-202
\* (mem.go:36-45, 115-119).
THEOREM MemoryErrorIsBounded == Spec => []MemoryErrorBounded
<1>1. FiguresTypeOK => MemoryErrorBounded
  <2>. SUFFICES ASSUME FiguresTypeOK, pc = "frame" PROVE MemoryErrorBounded
    BY DEF MemoryErrorBounded
  <2>. DEFINE f    == meminfo
              sum  == f.MemFree + f.Buffers + f.Cached
  <2>1. f \in MemFile
    BY DEF FiguresTypeOK
  <2>2. /\ f.MemTotal \in Nat /\ f.MemFree \in Nat
        /\ f.MemAvailable \in Nat \cup {Missing}
        /\ f.Buffers \in Nat /\ f.Cached \in Nat
    BY <2>1, FiguresAssumption, FormatAssumption DEF MemFile, Words
  <2>3. sum < Word
    BY <2>1, FiguresAssumption DEF MemFile
  <2>4. Plus(Plus(f.MemFree, f.Buffers), f.Cached) = sum
    <3>1. Plus(f.MemFree, f.Buffers) = f.MemFree + f.Buffers
      BY <2>2, <2>3, PlusType, FormatAssumption
    <3>. QED
      BY <2>2, <2>3, <3>1, PlusType
  <2>5. /\ mem.TotalKB = f.MemTotal
        /\ f.MemAvailable \in {0, Missing} => mem.AvailableKB = sum
        /\ f.MemAvailable \notin {0, Missing} => mem.AvailableKB = f.MemAvailable
    BY <2>4 DEF mem, ParseMemInfo
  <2>6. UsedKB(mem) = IF mem.AvailableKB > f.MemTotal THEN 0
                      ELSE f.MemTotal - mem.AvailableKB
    BY <2>5, FrameFigures, UsedType DEF UsedKB
  <2>7. UsedByEstimate(f) =
          IF f.MemAvailable = Missing
          THEN IF sum > f.MemTotal THEN 0 ELSE f.MemTotal - sum
          ELSE IF f.MemAvailable > f.MemTotal THEN 0
               ELSE f.MemTotal - f.MemAvailable
    BY DEF UsedByEstimate
  <2>. HIDE DEF f
  <2>8. sum \in Nat
    BY <2>2
  <2>9. CASE f.MemAvailable = 0
    <3>1. UsedByEstimate(f) = f.MemTotal
      BY <2>2, <2>7, <2>9 DEF Missing
    <3>2. mem.AvailableKB = sum
      BY <2>5, <2>9
    <3>3. /\ UsedByEstimate(f) - UsedKB(mem) >= 0
          /\ UsedByEstimate(f) - UsedKB(mem) <= sum
      <4>. HIDE DEF sum
      <4>. QED
        BY <2>2, <2>6, <2>8, <3>1, <3>2
    <3>. QED
      BY <2>9, <3>3 DEF MemoryErrorBounded, f
  <2>10. CASE f.MemAvailable # 0
    <3>1. UsedByEstimate(f) = UsedKB(mem) /\ UsedKB(mem) \in Int
      <4>. HIDE DEF sum
      <4>. QED
        BY <2>2, <2>5, <2>6, <2>7, <2>8, <2>10
    <3>2. UsedByEstimate(f) - UsedKB(mem) = 0
      BY <3>1
    <3>. QED
      BY <2>10, <3>2 DEF MemoryErrorBounded, f
  <2>. QED
    BY <2>9, <2>10
<1>. QED
  BY <1>1, FiguresTypeCorrect, PTL

-----------------------------------------------------------------------------
(* The histogram's rows. *)

\* Max, which is a choice, is the largest of a set of numbers that has one.
LEMMA MaxIsLargest ==
  ASSUME NEW S, S \subseteq Nat, NEW m \in S, \A k \in S : k <= m
  PROVE  Max(S) = m
<1>1. ASSUME NEW x \in S, \A y \in S : x >= y
      PROVE  x = m
  BY <1>1
<1>2. \A y \in S : m >= y
  OBVIOUS
<1>. QED
  BY <1>1, <1>2 DEF Max

\* The share of a row in the largest: nothing is longer than the full width.
LEMMA RowLength ==
  ASSUME NEW c \in Nat, NEW max \in Nat \ {0}, c <= max
  PROVE  /\ (c * barWidth) \div max \in 0 .. barWidth
         /\ c = max => (c * barWidth) \div max = barWidth
<1>. DEFINE q == (c * 30) \div max
<1>1. q \in Int /\ q * max <= c * 30 /\ c * 30 < (q + 1) * max
  OBVIOUS
<1>2. (c * barWidth) \div max = q
  BY DEF barWidth
<1>. HIDE DEF q
<1>3. q >= 0
  <2>1. SUFFICES ASSUME q + 1 <= 0 PROVE FALSE
    BY <1>1
  <2>2. (q + 1) * max <= 0
    BY <1>1, <2>1
  <2>. QED
    BY <1>1, <2>2
<1>4. q <= 30
  <2>1. SUFFICES ASSUME q >= 31 PROVE FALSE
    BY <1>1
  <2>2. q * max >= 31 * max
    BY <1>1, <2>1
  <2>. QED
    BY <1>1, <2>2
<1>5. ASSUME c = max
      PROVE  q >= 30
  <2>1. SUFFICES ASSUME q + 1 <= 30 PROVE FALSE
    BY <1>1
  <2>2. (q + 1) * max <= 30 * max
    BY <1>1, <2>1
  <2>. QED
    BY <1>1, <1>5, <2>2
<1>. QED
  BY <1>1, <1>2, <1>3, <1>4, <1>5 DEF barWidth

\* The counts of any histogram with a sample in it have a largest one.
LEMMA LargestCount ==
  ASSUME NEW n \in Nat, NEW counts \in [0 .. n - 1 -> Nat],
         NEW j \in 0 .. n - 1, counts[j] > 0
  PROVE  \E i \in 0 .. n - 1 :
           /\ counts[i] > 0
           /\ \A k \in 0 .. n - 1 : counts[k] <= counts[i]
<1>. DEFINE S == {counts[i] : i \in 0 .. n - 1}
<1>1. PICK b \in Nat : \A i \in 0 .. n - 1 : counts[i] <= b
  BY BoundedRange
<1>2. S \subseteq Nat /\ S # {} /\ \A c \in S : c <= b
  BY <1>1
<1>3. PICK m \in S : \A c \in S : c <= m
  <2>. HIDE DEF S
  <2>. QED
    BY <1>2, GreatestNat
<1>4. PICK i \in 0 .. n - 1 : counts[i] = m
  OBVIOUS
<1>5. \A k \in 0 .. n - 1 : counts[k] <= counts[i]
  <2>1. \A k \in 0 .. n - 1 : counts[k] \in S
    OBVIOUS
  <2>. HIDE DEF S
  <2>. QED
    BY <1>3, <1>4, <2>1
<1>. HIDE DEF S
<1>6. counts[i] \in Nat /\ counts[j] \in Nat /\ counts[j] <= counts[i]
  BY <1>5
<1>7. counts[i] > 0
  BY <1>6
<1>. QED
  BY <1>5, <1>7

\* RenderASCII never makes a row too long, and fills the one of the largest count.
LEMMA RowsOf ==
  ASSUME NEW n \in Nat, NEW counts \in [0 .. n - 1 -> Nat],
         NEW j \in DOMAIN RenderASCII(counts)
  PROVE  /\ RenderASCII(counts)[j] \in 0 .. barWidth
         /\ \E i \in DOMAIN RenderASCII(counts) :
              RenderASCII(counts)[i] = barWidth
<1>. DEFINE some == {i \in 0 .. n - 1 : counts[i] > 0}
            all  == {counts[i] : i \in some}
<1>1. j \in some
  BY DEF RenderASCII
<1>2. PICK i \in 0 .. n - 1 : /\ counts[i] > 0
                              /\ \A k \in 0 .. n - 1 : counts[k] <= counts[i]
  BY <1>1, LargestCount
<1>3. counts[i] \in Nat \ {0} /\ i \in some /\ counts[j] \in Nat
      /\ counts[j] <= counts[i]
  BY <1>1, <1>2
<1>4. all \subseteq Nat /\ counts[i] \in all /\ \A c \in all : c <= counts[i]
  BY <1>2, <1>3
<1>5. Max(all) = counts[i]
  <2>. HIDE DEF all
  <2>. QED
    BY <1>4, MaxIsLargest
<1>6. RenderASCII(counts) = [k \in some |-> (counts[k] * barWidth) \div Max(all)]
  BY DEF RenderASCII
<1>. HIDE DEF all
<1>7. /\ RenderASCII(counts)[j] = (counts[j] * barWidth) \div counts[i]
      /\ RenderASCII(counts)[i] = (counts[i] * barWidth) \div counts[i]
      /\ i \in DOMAIN RenderASCII(counts)
  BY <1>1, <1>3, <1>5, <1>6
<1>. QED
  BY <1>3, <1>7, RowLength

\* Every row of every histogram fits, and the largest count has a full one.
THEOREM AllRowsFit == Spec => []RowsFit
<1>1. FiguresTypeOK => RowsFit
  <2>. SUFFICES ASSUME FiguresTypeOK, pc = "frame" PROVE RowsFit
    BY DEF RowsFit
  <2>1. CASE latencyBuckets = None
    <3>1. rows = None
      BY <2>1 DEF rows, RenderASCII, None
    <3>2. DOMAIN rows = {}
      BY <3>1 DEF None
    <3>. QED
      BY <3>1, <3>2 DEF RowsFit
  <2>2. CASE latencyBuckets # None
    <3>1. latencyBuckets \in [0 .. HIST_BUCKETS - 1 -> Nat]
      BY <2>2, FiguresAssumption DEF FiguresTypeOK
    <3>2. \A i \in DOMAIN rows :
            /\ rows[i] \in 0 .. barWidth
            /\ \E k \in DOMAIN rows : rows[k] = barWidth
      BY <3>1, RowsOf, FiguresAssumption DEF rows
    <3>3. DOMAIN rows = {} => rows = None
      BY <3>1 DEF rows, RenderASCII, None
    <3>. QED
      BY <3>2, <3>3 DEF RowsFit
  <2>. QED
    BY <2>1, <2>2
<1>. QED
  BY <1>1, FiguresTypeCorrect, PTL

-----------------------------------------------------------------------------
(* The disk counters. *)

\* Every disk is listed, and of the devices of the prefixes that the code knows,
\* only disks are.
LEMMA WhatIsListed ==
  ASSUME NEW d \in Device
  PROVE  /\ kind[d] = "disk" => isWholeDisk(name[d])
         /\ isWholeDisk(name[d]) => kind[d] = "disk" \/ name[d].prefix \notin Known
BY FiguresAssumption, DeviceAssumption
   DEF isWholeDisk, Known, Virtual, Lettered, Names

\* No I/O of a disk is missing from its counters, for any devices on any number
\* of disks; nothing but devices of a prefix unknown to the code is listed beside
\* the disks (disk.go:105-127).
THEOREM DisksAreListed == Spec => []DisksListed
<1>1. FiguresTypeOK => DisksListed
  <2>. SUFFICES ASSUME FiguresTypeOK, pc = "io", NEW e \in io
                PROVE  /\ {d \in under[e] : kind[d] = "disk"} \subseteq CountersOf(e)
                       /\ \A d \in CountersOf(e) :
                            kind[d] = "disk" \/ name[d].prefix \notin Known
    BY DEF DisksListed
  <2>1. e \in Device /\ under[e] \subseteq Device
    BY FiguresAssumption DEF FiguresTypeOK
  <2>2. CountersOf(e) = {d \in Device : isWholeDisk(name[d]) /\ d \in under[e]}
    BY DEF CountersOf, ParseDiskIO
  <2>. QED
    BY <2>1, <2>2, WhatIsListed
<1>. QED
  BY <1>1, FiguresTypeCorrect, PTL

-----------------------------------------------------------------------------
(* humanBytes. *)

Scaled == [div : Nat, exp : Nat]

\* The recursion of the loop has a result, of this type, for every number.
LEMMA ScaleEquation ==
  /\ Scale \in [Nat -> Scaled]
  /\ \A n \in Nat :
       Scale[n] = IF n < Unit THEN [div |-> Unit, exp |-> 0]
                  ELSE [div |-> Times(Scale[n \div Unit].div, Unit),
                        exp |-> Scale[n \div Unit].exp + 1]
<1>. DEFINE Base == 0 .. Unit - 1
            base == [div |-> Unit, exp |-> 0]
            Step(s) == [div |-> Times(s.div, Unit), exp |-> s.exp + 1]
            step == [s \in Scaled |-> Step(s)]
            pre  == [n \in Nat |-> n \div Unit]
            Loop(f) == [n \in Nat |-> IF n < Unit THEN base ELSE Step(f[n \div Unit])]
<1>1. Unit \in Nat /\ Unit >= 2 /\ Words \subseteq Nat
  BY FormatAssumption DEF Words
<1>2. base \in Scaled
  BY <1>1 DEF Scaled
<1>3. \A s \in Scaled : Step(s) \in Scaled
  <2>. SUFFICES ASSUME NEW s \in Scaled PROVE Step(s) \in Scaled
    OBVIOUS
  <2>1. s.div \in Nat /\ s.exp \in Nat
    BY DEF Scaled
  <2>2. Times(s.div, Unit) \in Nat
    BY <1>1, <2>1, TimesType
  <2>. QED
    BY <2>1, <2>2 DEF Scaled
<1>4. step \in [Scaled -> Scaled]
  BY <1>3
<1>5. \A n \in Nat : n \div Unit \in Nat /\ (n \notin Base => n \div Unit < n)
  BY <1>1, Quotient
<1>6. Base \in SUBSET Nat
  BY <1>1
<1>7. pre \in [Nat -> Nat] /\ \A n \in Nat \ Base : pre[n] < n
  BY <1>5
<1>8. PICK f \in [Nat -> Scaled] : IsRecursion(f, Base, base, step, pre)
  <2>. HIDE DEF Base, base, step, pre, Step, Loop
  <2>1. pre \in [Nat -> Nat]
    BY <1>7
  <2>2. \A n \in Nat \ Base : pre[n] < n
    BY <1>7
  <2>. QED
    BY <1>2, <1>4, <1>6, <2>1, <2>2, RecursionExists
<1>9. f = Loop(f)
  <2>1. ASSUME NEW n \in Nat
        PROVE  f[n] = IF n < Unit THEN base ELSE Step(f[n \div Unit])
    <3>1. n \in Base <=> n < Unit
      BY <1>1
    <3>2. f[n \div Unit] \in Scaled
      BY <1>5, <1>8
    <3>3. step[f[n \div Unit]] = Step(f[n \div Unit])
      BY <3>2
    <3>4. f[n] = IF n \in Base THEN base ELSE step[f[n \div Unit]]
      <4>1. pre[n] = n \div Unit
        OBVIOUS
      <4>. HIDE DEF Base, base, step, pre
      <4>. QED
        BY <1>8, <4>1 DEF IsRecursion
    <3>. HIDE DEF Base, base, step, Step
    <3>. QED
      BY <3>1, <3>3, <3>4
  <2>. QED
    BY <1>8, <2>1
<1>10. Scale = CHOOSE g : g = Loop(g)
  BY DEF Scale
<1>11. Scale = Loop(Scale)
  <2>. HIDE DEF Loop
  <2>. QED
    BY <1>9, <1>10
<1>. HIDE DEF Base, step, pre
<1>12. /\ DOMAIN Scale = Nat
       /\ \A n \in Nat : Scale[n] = IF n < Unit THEN base ELSE Step(Scale[n \div Unit])
  <2>1. DOMAIN Loop(Scale) = Nat
    OBVIOUS
  <2>2. \A n \in Nat : Loop(Scale)[n] = IF n < Unit THEN base ELSE Step(Scale[n \div Unit])
    OBVIOUS
  <2>. HIDE DEF Loop
  <2>. QED
    BY <1>11, <2>1, <2>2
<1>13. \A n \in Nat : Scale[n] \in Scaled
  <2>. DEFINE Wrong == {n \in Nat : Scale[n] \notin Scaled}
  <2>1. SUFFICES ASSUME Wrong # {} PROVE FALSE
    OBVIOUS
  <2>2. PICK n \in Wrong : \A k \in Wrong : n <= k
    <3>1. Wrong \subseteq Nat
      OBVIOUS
    <3>. HIDE DEF Wrong
    <3>. QED
      BY <2>1, <3>1, LeastNat
  <2>3. n \in Nat /\ Scale[n] \notin Scaled
    OBVIOUS
  <2>4. n >= Unit
    BY <1>1, <1>2, <1>12, <2>3
  <2>5. n \div Unit \in Nat /\ n \div Unit < n
    BY <1>1, <2>3, <2>4, Quotient
  <2>6. n \div Unit \notin Wrong
    <3>. HIDE DEF Wrong
    <3>. QED
      BY <2>2, <2>3, <2>5
  <2>7. Step(Scale[n \div Unit]) \in Scaled
    <3>1. Scale[n \div Unit] \in Scaled
      BY <2>5, <2>6
    <3>. QED
      BY <3>1, <1>3
  <2>. QED
    BY <1>1, <1>12, <2>3, <2>4, <2>7
<1>14. Scale \in [Nat -> Scaled]
  <2>1. Loop(Scale) = [n \in Nat |-> Loop(Scale)[n]]
    OBVIOUS
  <2>. HIDE DEF Loop
  <2>2. Scale = [n \in Nat |-> Scale[n]]
    BY <1>11, <2>1
  <2>. QED
    BY <1>13, <2>2
<1>. QED
  BY <1>12, <1>14

\* One round of the loop.
LEMMA ScaleRound ==
  ASSUME NEW n \in Nat
  PROVE  /\ Scale[n].div \in Nat /\ Scale[n].exp \in Nat
         /\ n < Unit => Scale[n].div = Unit /\ Scale[n].exp = 0
         /\ n >= Unit => /\ Scale[n].div = Times(Scale[n \div Unit].div, Unit)
                         /\ Scale[n].exp = Scale[n \div Unit].exp + 1
<1>1. Unit \in Nat /\ Unit >= 2
  BY FormatAssumption
<1>2. Scale[n] \in Scaled
  BY ScaleEquation
<1>3. Scale[n] = IF n < Unit THEN [div |-> Unit, exp |-> 0]
                 ELSE [div |-> Times(Scale[n \div Unit].div, Unit),
                       exp |-> Scale[n \div Unit].exp + 1]
  BY ScaleEquation
<1>. QED
  BY <1>1, <1>2, <1>3 DEF Scaled

\* The loop leaves div above n and at most n units, and as long as n units fit
\* in a word, no product wraps on the way.
LEMMA ScaleDiv ==
  ASSUME NEW n \in Nat, n >= 1, n * Unit < Word
  PROVE  n < Scale[n].div /\ Scale[n].div <= n * Unit
<1>. DEFINE Good(m) == m < Scale[m].div /\ Scale[m].div <= m * Unit
            Wrong   == {m \in Nat : m >= 1 /\ m * Unit < Word /\ ~Good(m)}
<1>1. SUFFICES ASSUME Wrong # {} PROVE FALSE
  OBVIOUS
<1>2. PICK m \in Wrong : \A k \in Wrong : m <= k
  <2>1. Wrong \subseteq Nat
    OBVIOUS
  <2>. HIDE DEF Wrong
  <2>. QED
    BY <1>1, <2>1, LeastNat
<1>3. m \in Nat /\ m >= 1 /\ m * Unit < Word /\ ~Good(m)
  OBVIOUS
<1>4. Unit \in Nat /\ Unit >= 2 /\ Word \in Nat
  BY FormatAssumption
<1>5. CASE m < Unit
  <2>1. Scale[m].div = Unit
    BY <1>3, <1>5, ScaleRound
  <2>2. Unit <= m * Unit
    BY <1>3, <1>4
  <2>. QED
    BY <1>3, <1>5, <2>1, <2>2
<1>6. CASE m >= Unit
  <2>. DEFINE q == m \div Unit
              d == Scale[q].div
  <2>1. q \in Nat /\ q >= 1 /\ q < m /\ q * Unit <= m /\ m < (q + 1) * Unit
    BY <1>3, <1>4, <1>6, Quotient
  <2>2. d \in Nat
    BY <2>1, ScaleRound
  <2>3. Scale[m].div = Times(d, Unit)
    BY <1>3, <1>6, ScaleRound
  <2>. HIDE DEF d, q
  <2>4. m <= m * Unit
    BY <1>3, <1>4
  <2>5. q * Unit < Word
    BY <1>3, <1>4, <2>1, <2>4
  <2>6. q \notin Wrong
    <3>. HIDE DEF Wrong
    <3>. QED
      BY <1>2, <1>3, <2>1
  <2>7. q < d /\ d <= q * Unit
    BY <2>1, <2>5, <2>6 DEF d
  <2>8. d * Unit <= m * Unit
    <3>1. d <= m
      BY <1>3, <1>4, <2>1, <2>2, <2>7
    <3>. QED
      BY <1>3, <1>4, <2>2, <3>1
  <2>9. Times(d, Unit) = d * Unit
    <3>1. d * Unit \in Nat /\ d * Unit < Word
      BY <1>3, <1>4, <2>2, <2>8
    <3>. QED
      BY <3>1, ModWord DEF Times
  <2>10. m < d * Unit
    <3>1. (q + 1) * Unit <= d * Unit
      BY <1>4, <2>1, <2>2, <2>7
    <3>. QED
      BY <1>3, <1>4, <2>1, <2>2, <3>1
  <2>. QED
    BY <1>3, <2>3, <2>8, <2>9, <2>10
<1>. QED
  BY <1>3, <1>4, <1>5, <1>6

\* Only numbers from p on take k rounds.
RoundsFrom(k, p) == \A n \in Nat : Scale[n].exp >= k => n >= p

\* One more round needs a number that is larger by a unit.
LEMMA OneMoreRound ==
  ASSUME NEW k \in Nat, NEW p \in Nat, RoundsFrom(k, p)
  PROVE  RoundsFrom(k + 1, p * Unit)
<1>. SUFFICES ASSUME NEW n \in Nat, Scale[n].exp >= k + 1
              PROVE  n >= p * Unit
  BY DEF RoundsFrom
<1>. DEFINE q == n \div Unit
<1>1. Unit \in Nat /\ Unit >= 2
  BY FormatAssumption
<1>2. n >= Unit
  BY <1>1, ScaleRound
<1>3. q \in Nat /\ q * Unit <= n
  BY <1>1, Quotient
<1>4. Scale[n].exp = Scale[q].exp + 1
  BY <1>2, ScaleRound
<1>. HIDE DEF q
<1>5. Scale[q].exp >= k
  BY <1>3, <1>4, ScaleRound
<1>6. q >= p
  BY <1>3, <1>5 DEF RoundsFrom
<1>7. q * Unit >= p * Unit
  BY <1>1, <1>3, <1>6
<1>. QED
  BY <1>1, <1>3, <1>7

\* No word takes a sixth round, which would index beyond "KMGTPE".
LEMMA LetterExists ==
  ASSUME NEW n \in Nat, n * Unit < Word
  PROVE  Scale[n].exp \in 0 .. 5
<1>. DEFINE u2 == Unit * Unit
            u3 == u2 * Unit
            u4 == u3 * Unit
            u5 == u4 * Unit
            u6 == u5 * Unit
<1>1. Unit \in Nat /\ Unit >= 2 /\ Word \in Nat
  BY FormatAssumption
<1>2. u2 \in Nat /\ u3 \in Nat /\ u4 \in Nat /\ u5 \in Nat /\ u6 \in Nat
  BY <1>1
<1>3. Word <= u6 * Unit
  <2>1. (Unit * Unit * Unit) * (Unit * Unit * Unit) * Unit = u6 * Unit
    BY <1>1
  <2>. QED
    BY <2>1, FormatAssumption
<1>. HIDE DEF u2, u3, u4, u5, u6
<1>4. RoundsFrom(1, Unit)
  BY <1>1, ScaleRound DEF RoundsFrom
<1>5. RoundsFrom(2, u2)
  <2>1. RoundsFrom(1 + 1, Unit * Unit)
    BY <1>1, <1>4, OneMoreRound
  <2>. QED
    BY <2>1 DEF u2
<1>6. RoundsFrom(3, u3)
  <2>1. RoundsFrom(2 + 1, u2 * Unit)
    BY <1>2, <1>5, OneMoreRound
  <2>. QED
    BY <2>1 DEF u3
<1>7. RoundsFrom(4, u4)
  <2>1. RoundsFrom(3 + 1, u3 * Unit)
    BY <1>2, <1>6, OneMoreRound
  <2>. QED
    BY <2>1 DEF u4
<1>8. RoundsFrom(5, u5)
  <2>1. RoundsFrom(4 + 1, u4 * Unit)
    BY <1>2, <1>7, OneMoreRound
  <2>. QED
    BY <2>1 DEF u5
<1>9. RoundsFrom(6, u6)
  <2>1. RoundsFrom(5 + 1, u5 * Unit)
    BY <1>2, <1>8, OneMoreRound
  <2>. QED
    BY <2>1 DEF u6
<1>10. ASSUME Scale[n].exp >= 6
       PROVE  FALSE
  <2>1. n >= u6
    BY <1>9, <1>10 DEF RoundsFrom
  <2>2. n * Unit >= u6 * Unit
    BY <1>1, <1>2, <2>1
  <2>. QED
    BY <1>1, <1>2, <1>3, <2>2
<1>11. Scale[n].exp \in Nat
  BY ScaleRound
<1>. QED
  BY <1>10, <1>11

\* humanBytes has a letter for every size of a word, and prints less than a unit
\* of it, but not less than one.
LEMMA Readable ==
  ASSUME NEW b \in Words
  PROVE  LET h == humanBytes(b)
         IN  /\ h.exp \in NoLetter .. 5
             /\ b < h.div * Unit
             /\ h.exp # NoLetter => h.div <= b
<1>. DEFINE n == b \div Unit
<1>1. Unit \in Nat /\ Unit >= 2 /\ Word \in Nat /\ b \in Nat /\ b < Word
  BY FormatAssumption DEF Words
<1>2. CASE b < Unit
  BY <1>1, <1>2 DEF humanBytes, NoLetter
<1>3. CASE b >= Unit
  <2>1. n \in Nat /\ n >= 1 /\ n * Unit <= b /\ b < (n + 1) * Unit
    BY <1>1, <1>3, Quotient
  <2>2. humanBytes(b) = Scale[n]
    BY <1>1, <1>3 DEF humanBytes
  <2>. HIDE DEF n
  <2>3. n * Unit \in Nat /\ n * Unit < Word
    BY <1>1, <2>1
  <2>4. Scale[n].exp \in 0 .. 5
    BY <2>1, <2>3, LetterExists
  <2>5. n < Scale[n].div /\ Scale[n].div <= n * Unit
    BY <2>1, <2>3, ScaleDiv
  <2>6. Scale[n].div \in Nat
    BY <2>1, ScaleRound
  <2>. DEFINE d == Scale[n].div
  <2>7. d <= b
    BY <1>1, <2>1, <2>3, <2>5, <2>6
  <2>8. b < d * Unit
    <3>. HIDE DEF d
    <3>1. (n + 1) * Unit <= d * Unit
      BY <1>1, <2>1, <2>5, <2>6 DEF d
    <3>. QED
      BY <1>1, <2>1, <2>6, <3>1 DEF d
  <2>. QED
    BY <2>2, <2>4, <2>7, <2>8 DEF NoLetter
<1>. QED
  BY <1>1, <1>2, <1>3

\* Every size of a frame is printed with a letter, in a unit that suits it.
THEOREM AllSizesReadable == Spec => []SizesReadable
<1>1. FiguresTypeOK => SizesReadable
  <2>. SUFFICES ASSUME FiguresTypeOK, pc = "frame" PROVE sizes \subseteq Words
    BY Readable DEF SizesReadable
  <2>1. Unit \in Nat /\ Word \in Nat
    BY FormatAssumption
  <2>2. \A kb \in Nat : humanKB(kb) \in Words
    BY <2>1, TimesType DEF humanKB
  <2>3. /\ UsedKB(mem) \in Nat /\ mem.TotalKB \in Nat
        /\ SwapUsedKB(mem) \in Nat /\ mem.SwapTotalKB \in Nat
    BY FrameFigures, InUse
  <2>4. disk.TotalBytes \in Words
    <3>1. statfs \in Statfs
      BY DEF FiguresTypeOK
    <3>2. statfs.Blocks \in Nat /\ statfs.Bsize \in Nat
      BY <3>1, FiguresAssumption, FormatAssumption DEF Statfs, Words
    <3>. QED
      BY <3>2, TimesType DEF disk, DiskUsage
  <2>5. UsedBytes(disk) \in Words
    BY <2>1, <2>4, InUse DEF Words
  <2>. QED
    BY <2>2, <2>3, <2>4, <2>5 DEF sizes
<1>. QED
  BY <1>1, FiguresTypeCorrect, PTL
=============================================================================
