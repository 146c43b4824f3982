-------------------------- MODULE ThroughputProofs --------------------------
(***************************************************************************)
(* Proofs about the network section, for any interfaces and counters.      *)
(***************************************************************************)
EXTENDS Throughput, TLAPS

\* The types alone, without what follows from them.
Types ==
  /\ IsTable(dev, Reading)
  /\ clock \in Nat
  /\ pc \in {"first", "start", "sample", "frame"}
  /\ IsTable(prevNet, Reading)
  /\ lastSample \in Nat /\ lastSample <= clock
  /\ IsTable(curNet, Reading)
  /\ since \in [Interface -> History]
  /\ due \in (IF pc = "frame" THEN [Interface -> History] ELSE {NoTable})

LEMMA FreshType ==
  ASSUME clock \in Nat, NEW i PROVE Fresh(i) \in History
BY DEF Fresh, History

LEMMA HistoryExcept ==
  ASSUME NEW h \in History
  PROVE  /\ [h EXCEPT !.away = TRUE] \in History
         /\ [h EXCEPT !.renamed = TRUE] \in History
         /\ \A b \in [Counter -> Nat] : [h EXCEPT !.bytes = b] \in History
         /\ \A w \in SUBSET Counter : [h EXCEPT !.wrapped = w] \in History
BY DEF History

LEMMA OneMoreType ==
  ASSUME NEW n \in 0 .. CounterSpan - 1
  PROVE  /\ OneMore(n) \in 0 .. CounterSpan - 1
         /\ OneMore(n) <= n + 1
         /\ OneMore(n) # 0 => OneMore(n) = n + 1
BY ThroughputAssumption DEF OneMore

LEMMA DeltaType ==
  ASSUME NEW m \in 0 .. CounterSpan - 1, NEW n \in 0 .. CounterSpan - 1
  PROVE  Delta(m, n) \in 0 .. CounterSpan - 1
BY ThroughputAssumption DEF Delta

LEMMA NoTableType == IsTable(NoTable, Reading)
BY DEF IsTable, NoTable

\* The rates of two samples are a table of readings.
LEMMA RatesType ==
  ASSUME IsTable(prevNet, Reading), IsTable(curNet, Reading)
  PROVE  IsTable(netRates, Reading)
<1>1. CASE elapsed <= 0
  BY <1>1, NoTableType DEF netRates, ComputeNetThroughput
<1>2. CASE ~(elapsed <= 0)
  <2>1. netRates = [i \in DOMAIN prevNet \cap DOMAIN curNet |->
                      [c \in Counter |-> Delta(curNet[i][c], prevNet[i][c])]]
    BY <1>2 DEF netRates, ComputeNetThroughput
  <2>2. ASSUME NEW i \in DOMAIN prevNet \cap DOMAIN curNet
        PROVE  [c \in Counter |-> Delta(curNet[i][c], prevNet[i][c])] \in Reading
    <3>1. prevNet[i] \in Reading /\ curNet[i] \in Reading
      BY DEF IsTable
    <3>2. ASSUME NEW c \in Counter
          PROVE  Delta(curNet[i][c], prevNet[i][c]) \in 0 .. CounterSpan - 1
      BY <3>1, DeltaType DEF Reading
    <3>. QED
      BY <3>2 DEF Reading
  <2>. QED
    BY <2>1, <2>2 DEF IsTable
<1>. QED
  BY <1>1, <1>2

LEMMA TypesEnough == Types => ThroughputTypeOK
BY RatesType DEF Types, ThroughputTypeOK

-----------------------------------------------------------------------------
LEMMA TypeInit == Init => Types
<1>. SUFFICES ASSUME Init PROVE Types
  OBVIOUS
<1>1. IsTable(dev, Reading)
  BY DEF Init, IsTable
<1>2. since \in [Interface -> History]
  BY FreshType DEF Init
<1>. QED
  BY <1>1, <1>2, NoTableType DEF Init, Types

LEMMA TypeStep == Types /\ [Next]_vars => Types'
<1>. SUFFICES ASSUME Types, [Next]_vars PROVE Types'
  OBVIOUS
<1>. USE DEF Types, kernelVars, loopVars
<1>1. CASE Tick
  BY <1>1 DEF Tick, IsTable, NoTable
<1>2. ASSUME NEW i \in Interface, NEW c \in Counter, Traffic(i, c)
      PROVE  Types'
  <2>. USE <1>2 DEF Traffic
  <2>1. dev[i] \in Reading /\ dev[i][c] \in 0 .. CounterSpan - 1
    BY DEF IsTable, Reading
  <2>2. [dev[i] EXCEPT ![c] = OneMore(@)] \in Reading
    BY <2>1, OneMoreType DEF Reading
  <2>3. dev' = [dev EXCEPT ![i] = [dev[i] EXCEPT ![c] = OneMore(@)]]
    OBVIOUS
  <2>4. IsTable(dev', Reading)
    BY <2>2, <2>3 DEF IsTable
  <2>5. since' \in [Interface -> History]
    <3>. DEFINE b == [since[i].bytes EXCEPT ![c] = @ + 1]
                w == IF OneMore(dev[i][c]) = 0 THEN since[i].wrapped \cup {c}
                                               ELSE since[i].wrapped
    <3>1. since[i] \in History
      OBVIOUS
    <3>2. b \in [Counter -> Nat] /\ w \in SUBSET Counter
      BY <3>1 DEF History
    <3>3. since' = [since EXCEPT ![i] =
                      [[since[i] EXCEPT !.bytes = b] EXCEPT !.wrapped = w]]
      BY DEF History
    <3>. HIDE DEF b, w
    <3>4. [since[i] EXCEPT !.bytes = b] \in History
      BY <3>1, <3>2, HistoryExcept
    <3>5. [[since[i] EXCEPT !.bytes = b] EXCEPT !.wrapped = w] \in History
      BY <3>4, <3>2, HistoryExcept
    <3>. QED
      BY <3>3, <3>5
  <2>. QED
    BY <2>4, <2>5 DEF IsTable, NoTable
<1>3. ASSUME NEW i \in Interface, Appear(i) PROVE Types'
  <2>1. [c \in Counter |-> 0] \in Reading
    BY ThroughputAssumption DEF Reading
  <2>2. IsTable(dev', Reading)
    BY <1>3, <2>1 DEF Appear, IsTable
  <2>. QED
    BY <1>3, <2>2 DEF Appear, IsTable, NoTable
<1>4. ASSUME NEW i \in Interface, Vanish(i) PROVE Types'
  <2>1. IsTable(dev', Reading)
    BY <1>4 DEF Vanish, IsTable
  <2>2. since' \in [Interface -> History]
    BY <1>4, HistoryExcept DEF Vanish
  <2>. QED
    BY <1>4, <2>1, <2>2 DEF Vanish, IsTable, NoTable
<1>5. ASSUME NEW i \in Interface, NEW j \in Interface, Rename(i, j)
      PROVE  Types'
  <2>1. IsTable(dev', Reading)
    BY <1>5 DEF Rename, IsTable
  <2>2. since' \in [Interface -> History]
    <3>. DEFINE gone == [since EXCEPT ![i] = [since[i] EXCEPT !.away = TRUE]]
    <3>1. gone \in [Interface -> History]
      BY HistoryExcept
    <3>2. since' = [gone EXCEPT ![j] = [gone[j] EXCEPT !.renamed = TRUE]]
      BY <1>5 DEF Rename
    <3>. HIDE DEF gone
    <3>. QED
      BY <3>1, <3>2, HistoryExcept
  <2>. QED
    BY <1>5, <2>1, <2>2 DEF Rename, IsTable, NoTable
<1>6. CASE FirstSample
  BY <1>6, FreshType DEF FirstSample, NoTable
<1>7. CASE Start
  BY <1>7 DEF Start, NoTable
<1>8. CASE Sample
  BY <1>8, FreshType DEF Sample
<1>9. CASE Frame
  BY <1>9, NoTableType DEF Frame
<1>10. CASE UNCHANGED vars
  BY <1>10 DEF vars, IsTable, NoTable
<1>. QED
  BY <1>1, <1>2, <1>3, <1>4, <1>5, <1>6, <1>7, <1>8, <1>9, <1>10
     DEF Next, KernelStep, LoopStep

\* Types of the network section; every rate is a value of a counter.
THEOREM ThroughputTypeCorrect == Spec => []ThroughputTypeOK
BY TypeInit, TypeStep, TypesEnough, PTL DEF Spec

-----------------------------------------------------------------------------
\* Nothing has happened since a sample.
LEMMA FreshExplains ==
  ASSUME Types
  PROVE  Explains([i \in Interface |-> Fresh(i)], dev, dev)
<1>1. \A i \in DOMAIN dev : \A c \in Counter : dev[i][c] \in Int
  BY ThroughputAssumption DEF Types, IsTable, Reading
<1>. DEFINE h == [i \in Interface |-> Fresh(i)]
<1>2. ASSUME NEW i \in Interface
      PROVE  /\ ~h[i].away => i \in DOMAIN dev
             /\ \A c \in Counter : h[i].bytes[c] = 0
  BY DEF Fresh
<1>. HIDE DEF h
<1>3. ASSUME NEW i \in Interface, i \in DOMAIN dev, NEW c \in Counter
      PROVE  /\ dev[i][c] = dev[i][c] + h[i].bytes[c]
             /\ dev[i][c] <= dev[i][c] + h[i].bytes[c]
  BY <1>1, <1>2, <1>3
<1>4. Explains(h, dev, dev)
  BY <1>2, <1>3 DEF Explains
<1>. QED
  BY <1>4 DEF h

\* Whatever the kernel does, the history goes on to explain the counters.
LEMMA KernelExplains ==
  ASSUME Types, NEW old, IsTable(old, Reading), Explains(since, old, dev),
         KernelStep
  PROVE  Explains(since', old, dev')
<1>1. CASE Tick
  BY <1>1 DEF Tick, Explains
<1>2. ASSUME NEW i \in Interface, NEW c \in Counter, Traffic(i, c)
      PROVE  Explains(since', old, dev')
  <2>. USE <1>2 DEF Traffic
  <2>. DEFINE more == OneMore(dev[i][c])
  <2>1. dev[i] \in Reading /\ dev[i][c] \in 0 .. CounterSpan - 1
    BY DEF Types, IsTable, Reading
  <2>2. more \in Int /\ more <= dev[i][c] + 1 /\ (more # 0 => more = dev[i][c] + 1)
    BY <2>1, OneMoreType, ThroughputAssumption
  <2>. HIDE DEF more
  <2>3. /\ DOMAIN dev' = DOMAIN dev
        /\ \A k \in DOMAIN dev, d \in Counter :
             /\ k = i /\ d = c => dev'[k][d] = more
             /\ ~(k = i /\ d = c) => dev'[k][d] = dev[k][d]
    BY <2>1 DEF more, Types, IsTable, Reading
  <2>4. \A k \in Interface :
          /\ ~since'[k].away => ~since[k].away
          /\ ~since'[k].renamed => ~since[k].renamed
          /\ since[k].wrapped \subseteq since'[k].wrapped
          /\ more = 0 => c \in since'[i].wrapped
          /\ \A d \in Counter :
               /\ since[k].bytes[d] \in Nat
               /\ k = i /\ d = c => since'[k].bytes[d] = since[k].bytes[d] + 1
               /\ ~(k = i /\ d = c) => since'[k].bytes[d] = since[k].bytes[d]
    BY DEF Types, History, more
  <2>5. \A k \in DOMAIN old, d \in Counter : old[k][d] \in Int
    BY ThroughputAssumption DEF IsTable, Reading
  <2>6. \A k \in DOMAIN dev, d \in Counter : dev[k][d] \in Int
    BY ThroughputAssumption DEF Types, IsTable, Reading
  <2>7. ASSUME NEW k \in Interface, ~since'[k].renamed,
               k \in DOMAIN old \cap DOMAIN dev', NEW d \in Counter
        PROVE  dev'[k][d] <= old[k][d] + since'[k].bytes[d]
    <3>1. k \in DOMAIN old \cap DOMAIN dev /\ ~since[k].renamed
      BY <2>3, <2>4, <2>7
    <3>2. dev[k][d] <= old[k][d] + since[k].bytes[d]
      BY <3>1 DEF Explains
    <3>3. dev[k][d] \in Int /\ old[k][d] \in Int /\ since[k].bytes[d] \in Nat
      BY <3>1, <2>4, <2>5, <2>6
    <3>4. CASE k = i /\ d = c
      <4>1. dev'[k][d] = more /\ since'[k].bytes[d] = since[k].bytes[d] + 1
        BY <3>1, <3>4, <2>3, <2>4
      <4>. QED
        BY <4>1, <3>2, <3>3, <3>4, <2>2
    <3>5. CASE ~(k = i /\ d = c)
      <4>1. /\ dev'[k][d] = dev[k][d]
            /\ since'[k].bytes[d] = since[k].bytes[d]
        BY <3>1, <3>5, <2>3, <2>4
      <4>. QED
        BY <4>1, <3>2
    <3>. QED
      BY <3>4, <3>5
  <2>8. ASSUME NEW k \in Interface, ~since'[k].away
        PROVE  k \in DOMAIN old \cap DOMAIN dev /\ k \in DOMAIN dev'
    <3>1. ~since[k].away
      BY <2>4, <2>8
    <3>. QED
      BY <3>1, <2>3 DEF Explains
  <2>9. ASSUME NEW k \in Interface, ~since'[k].away,
               NEW d \in Counter \ since'[k].wrapped
        PROVE  dev'[k][d] = old[k][d] + since'[k].bytes[d]
    <3>1. k \in DOMAIN old /\ k \in DOMAIN dev
      BY <2>8, <2>9
    <3>2. ~since[k].away /\ d \in Counter \ since[k].wrapped
      BY <2>4, <2>9
    <3>3. dev[k][d] = old[k][d] + since[k].bytes[d]
      BY <3>2 DEF Explains
    <3>4. dev[k][d] \in Int /\ old[k][d] \in Int /\ since[k].bytes[d] \in Nat
      BY <3>1, <2>4, <2>5, <2>6
    <3>5. CASE k = i /\ d = c
      <4>1. dev'[k][d] = more /\ since'[k].bytes[d] = since[k].bytes[d] + 1
        BY <3>1, <3>5, <2>3, <2>4
      <4>2. more # 0
        BY <3>5, <2>4, <2>9
      <4>. QED
        BY <4>1, <4>2, <3>3, <3>4, <3>5, <2>2
    <3>6. CASE ~(k = i /\ d = c)
      <4>1. /\ dev'[k][d] = dev[k][d]
            /\ since'[k].bytes[d] = since[k].bytes[d]
        BY <3>1, <3>6, <2>3, <2>4
      <4>. QED
        BY <4>1, <3>3
    <3>. QED
      BY <3>5, <3>6
  <2>. QED
    BY <2>7, <2>8, <2>9 DEF Explains
<1>3. ASSUME NEW i \in Interface, Appear(i) PROVE Explains(since', old, dev')
  <2>1. \A d \in Counter : since[i].bytes[d] \in Nat
    BY DEF Types, History
  <2>2. \A k \in DOMAIN old, d \in Counter : old[k][d] \in Nat
    BY ThroughputAssumption DEF IsTable, Reading
  <2>3. i \in DOMAIN old =>
          \A d \in Counter : 0 <= old[i][d] + since[i].bytes[d]
    BY <2>1, <2>2
  <2>. QED
    BY <1>3, <2>3 DEF Appear, Explains
<1>4. ASSUME NEW i \in Interface, Vanish(i) PROVE Explains(since', old, dev')
  <2>1. ASSUME NEW k \in Interface
        PROVE  /\ ~since'[k].away => k # i /\ ~since[k].away
               /\ ~since'[k].renamed => ~since[k].renamed
               /\ since'[k].wrapped = since[k].wrapped
               /\ since'[k].bytes = since[k].bytes
    BY <1>4 DEF Vanish, Types, History
  <2>2. /\ DOMAIN dev' = DOMAIN dev \ {i}
        /\ \A k \in DOMAIN dev' : dev'[k] = dev[k]
    BY <1>4 DEF Vanish
  <2>3. ASSUME NEW k \in Interface, ~since'[k].renamed,
               k \in DOMAIN old \cap DOMAIN dev', NEW c \in Counter
        PROVE  dev'[k][c] <= old[k][c] + since'[k].bytes[c]
    BY <2>1, <2>2, <2>3 DEF Explains
  <2>4. ASSUME NEW k \in Interface, ~since'[k].away
        PROVE  /\ k \in DOMAIN old \cap DOMAIN dev'
               /\ \A c \in Counter \ since'[k].wrapped :
                    dev'[k][c] = old[k][c] + since'[k].bytes[c]
    BY <2>1, <2>2, <2>4 DEF Explains
  <2>. QED
    BY <2>3, <2>4 DEF Explains
<1>5. ASSUME NEW i \in Interface, NEW j \in Interface, Rename(i, j)
      PROVE  Explains(since', old, dev')
  <2>1. /\ i # j
        /\ DOMAIN dev' = (DOMAIN dev \ {i}) \cup {j}
        /\ \A k \in DOMAIN dev' \ {j} : dev'[k] = dev[k]
    BY <1>5 DEF Rename
  <2>2. ASSUME NEW k \in Interface
        PROVE  /\ ~since'[k].away => k # i /\ ~since[k].away
               /\ ~since'[k].renamed => k # j /\ ~since[k].renamed
               /\ since'[k].wrapped = since[k].wrapped
               /\ since'[k].bytes = since[k].bytes
    BY <1>5, <2>1 DEF Rename, Types, History
  <2>3. since[j].away
    BY <1>5 DEF Rename, Explains, Types, History
  <2>4. ASSUME NEW k \in Interface, ~since'[k].renamed,
               k \in DOMAIN old \cap DOMAIN dev', NEW c \in Counter
        PROVE  dev'[k][c] <= old[k][c] + since'[k].bytes[c]
    BY <2>1, <2>2, <2>4 DEF Explains
  <2>5. ASSUME NEW k \in Interface, ~since'[k].away
        PROVE  /\ k \in DOMAIN old \cap DOMAIN dev'
               /\ \A c \in Counter \ since'[k].wrapped :
                    dev'[k][c] = old[k][c] + since'[k].bytes[c]
    BY <2>1, <2>2, <2>3, <2>5 DEF Explains
  <2>. QED
    BY <2>4, <2>5 DEF Explains
<1>. QED
  BY <1>1, <1>2, <1>3, <1>4, <1>5 DEF KernelStep

-----------------------------------------------------------------------------
LEMMA InvInit == Init => NetworkInv
BY DEF Init, NetworkInv, Fresh

LEMMA InvStep == Types /\ NetworkInv /\ [Next]_vars => NetworkInv'
<1>. SUFFICES ASSUME Types, NetworkInv, [Next]_vars PROVE NetworkInv'
  OBVIOUS
<1>. USE DEF loopVars, kernelVars
<1>1. CASE KernelStep
  <2>1. UNCHANGED <<loopVars, due>>
    BY <1>1 DEF KernelStep, Tick, Traffic, Appear, Vanish, Rename
  <2>2. \A i \in Interface : since'[i].from = since[i].from
    <3>1. CASE Tick
      BY <3>1 DEF Tick
    <3>2. CASE \E i \in Interface, c \in Counter : Traffic(i, c)
      BY <3>2 DEF Traffic, Types, History
    <3>3. CASE \E i \in Interface : Appear(i)
      BY <3>3 DEF Appear
    <3>4. CASE \E i \in Interface : Vanish(i)
      BY <3>4 DEF Vanish, Types, History
    <3>5. CASE \E i, j \in Interface : Rename(i, j)
      BY <3>5 DEF Rename, Types, History
    <3>. QED
      BY <1>1, <3>1, <3>2, <3>3, <3>4, <3>5 DEF KernelStep
  <2>3. clock' \in Nat /\ clock <= clock'
    <3>1. clock' = clock \/ clock' = clock + 1
      BY <1>1 DEF KernelStep, Tick, Traffic, Appear, Vanish, Rename
    <3>. QED
      BY <3>1 DEF Types
  <2>4. pc \in {"start", "sample"} => Explains(since', prevNet, dev')
    BY <1>1, KernelExplains DEF Types, NetworkInv
  <2>5. pc = "frame" => Explains(since', curNet, dev')
    BY <1>1, KernelExplains DEF Types, NetworkInv
  <2>6. pc = "frame" => Explains(due, prevNet, curNet)'
    BY <2>1 DEF NetworkInv, Explains
  <2>7. \A i \in Interface : since'[i].from <= clock'
    BY <2>2, <2>3 DEF NetworkInv, Types, History
  <2>8. pc = "sample" => \A i \in Interface : since'[i].from <= lastSample'
    BY <2>1, <2>2 DEF NetworkInv
  <2>9. pc = "frame" => \A i \in Interface :
                          due'[i].from <= lastSample' /\ lastSample' <= since'[i].from
    BY <2>1, <2>2 DEF NetworkInv
  <2>. QED
    BY <2>1, <2>4, <2>5, <2>6, <2>7, <2>8, <2>9 DEF NetworkInv
<1>2. CASE FirstSample
  BY <1>2, FreshExplains DEF FirstSample, NetworkInv, Fresh, Types
<1>3. CASE Start
  BY <1>3 DEF Start, NetworkInv, Types
<1>4. CASE Sample
  <2>1. Explains(since', dev, dev)
    BY <1>4, FreshExplains DEF Sample
  <2>2. \A i \in Interface : since'[i].from = clock
    BY <1>4 DEF Sample, Fresh
  <2>. QED
    BY <1>4, <2>1, <2>2 DEF Sample, NetworkInv, Types
<1>5. CASE Frame
  BY <1>5 DEF Frame, NetworkInv
<1>6. CASE UNCHANGED vars
  BY <1>6 DEF vars, NetworkInv, Explains
<1>. QED
  BY <1>1, <1>2, <1>3, <1>4, <1>5, <1>6 DEF Next, LoopStep

\* The histories explain the samples.
THEOREM NetworkInvariant == Spec => []NetworkInv
BY TypeInit, TypeStep, InvInit, InvStep, PTL DEF Spec

\* No frame shows more than what went through.
THEOREM RatesNeverOverstated == Spec => []NeverOverstated
<1>1. Types /\ NetworkInv => NeverOverstated
  <2>. SUFFICES ASSUME Types, NetworkInv, pc = "frame",
                       NEW i \in DOMAIN netRates, NEW c \in Counter,
                       ~due[i].renamed
                PROVE  netRates[i][c] <= due[i].bytes[c]
    BY DEF NeverOverstated
  <2>1. elapsed > 0 /\ i \in DOMAIN prevNet \cap DOMAIN curNet
    BY DEF netRates, ComputeNetThroughput, NoTable, Types, elapsed
  <2>2. netRates[i][c] = Delta(curNet[i][c], prevNet[i][c])
    BY <2>1 DEF netRates, ComputeNetThroughput, elapsed, Types
  <2>3. i \in Interface /\ curNet[i][c] \in Int /\ prevNet[i][c] \in Int
    BY <2>1, ThroughputAssumption DEF Types, IsTable, Reading
  <2>4. due[i].bytes[c] \in Nat
    BY <2>3 DEF Types, History
  <2>5. curNet[i][c] <= prevNet[i][c] + due[i].bytes[c]
    BY <2>1, <2>3 DEF NetworkInv, Explains
  <2>. QED
    BY <2>2, <2>3, <2>4, <2>5 DEF Delta
<1>. QED
  BY <1>1, TypeInit, TypeStep, NetworkInvariant, PTL DEF Spec

\* The frames show all of a steady interface's traffic, once.
THEOREM SteadyRatesExact == Spec => []SteadyExact
<1>1. Types /\ NetworkInv => SteadyExact
  <2>. SUFFICES ASSUME Types, NetworkInv, pc = "frame", elapsed > 0,
                       NEW i \in Interface, NEW c \in Counter,
                       ~due[i].away, c \notin due[i].wrapped
                PROVE  i \in DOMAIN netRates /\ netRates[i][c] = due[i].bytes[c]
    BY DEF SteadyExact
  <2>1. i \in DOMAIN prevNet \cap DOMAIN curNet
    BY DEF NetworkInv, Explains
  <2>2. /\ i \in DOMAIN netRates
        /\ netRates[i][c] = Delta(curNet[i][c], prevNet[i][c])
    BY <2>1 DEF netRates, ComputeNetThroughput, elapsed, Types
  <2>3. curNet[i][c] \in Int /\ prevNet[i][c] \in Int
    BY <2>1, ThroughputAssumption DEF Types, IsTable, Reading
  <2>4. due[i].bytes[c] \in Nat
    BY DEF Types, History
  <2>5. curNet[i][c] = prevNet[i][c] + due[i].bytes[c]
    BY <2>1 DEF NetworkInv, Explains
  <2>. QED
    BY <2>2, <2>3, <2>4, <2>5 DEF Delta
<1>. QED
  BY <1>1, TypeInit, TypeStep, NetworkInvariant, PTL DEF Spec

\* The time of every rate is the gap between its two samples, give or take the
\* delays of the two clock readings (main.go:118-119, 135, net.go:93-94).
THEOREM GapIsMeasured == Spec => []GapMeasured
<1>1. ThroughputTypeOK /\ NetworkInv => GapMeasured
  <2>. SUFFICES ASSUME ThroughputTypeOK, NetworkInv, pc = "frame",
                       NEW i \in Interface
                PROVE  LET gap    == since[i].from - due[i].from
                           before == lastSample - due[i].from
                           late   == clock - since[i].from
                       IN  /\ before \in 0 .. gap
                           /\ gap - before <= elapsed
                           /\ elapsed <= gap + late
    BY DEF GapMeasured
  <2>1. due[i] \in History /\ since[i] \in History
    BY DEF ThroughputTypeOK
  <2>2. due[i].from \in Nat /\ since[i].from \in Nat
    BY <2>1 DEF History
  <2>3. clock \in Nat /\ lastSample \in Nat
    BY DEF ThroughputTypeOK
  <2>4. /\ due[i].from <= lastSample /\ lastSample <= since[i].from
        /\ since[i].from <= clock
    BY DEF NetworkInv
  <2>. QED
    BY <2>2, <2>3, <2>4 DEF elapsed
<1>. QED
  BY <1>1, ThroughputTypeCorrect, NetworkInvariant, PTL
=============================================================================
