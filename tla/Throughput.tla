----------------------------- MODULE Throughput -----------------------------
(***************************************************************************)
(* The network section of the display: the counters of /proc/net/dev, the  *)
(* samples the main loop keeps of them (cmd/sysmon/main.go) and the rates  *)
(* computed from two samples (internal/stats/net.go).                      *)
(*                                                                         *)
(* Interfaces carry traffic, come, go and are renamed while the loop runs. *)
(* A sample is taken in one step; a rate is kept as its two operands, the  *)
(* bytes and the time they are divided by.  A failing sample ends the      *)
(* program (Sysmon).                                                       *)
(***************************************************************************)
EXTENDS Integers

CONSTANTS
  Interface,    \* the names of interfaces
  Counter,      \* the counters that are shown (RxBytes and TxBytes)
  CounterSpan,  \* the values of a counter (2^64)
  MaxBytes,     \* bound: the bytes of a counter between two samples
  MaxClock      \* bound: the clock

ASSUME ThroughputAssumption ==
  /\ CounterSpan \in Nat \ {0}
  /\ MaxBytes \in Nat
  /\ MaxClock \in Nat

VARIABLES
  dev,         \* /proc/net/dev: the counters of the interfaces that are there
  clock,       \* the monotonic clock
  pc,          \* what the loop does next: "first", "start", "sample", "frame"
  prevNet,     \* the previous sample
  lastSample,  \* its time
  curNet,      \* the current sample
  since,       \* history: what has happened to each name since the last sample
  due          \* history: what had happened to it when curNet was taken

kernelVars == <<dev, clock>>
loopVars == <<pc, prevNet, lastSample, curNet>>
vars == <<dev, clock, pc, prevNet, lastSample, curNet, since, due>>

\* A function on a set of interfaces.
IsTable(f, R) == DOMAIN f \subseteq Interface /\ \A i \in DOMAIN f : f[i] \in R

Reading == [Counter -> 0 .. CounterSpan - 1]

\* The history of a name in an interval: when it began, the bytes of each
\* counter, the counters that wrapped, whether the name was ever away, and
\* whether an interface with counters of its own was renamed to it.
History == [from : Nat, bytes : [Counter -> Nat], wrapped : SUBSET Counter,
            away : BOOLEAN, renamed : BOOLEAN]

\* What the history is right after a sample.
Fresh(i) == [from |-> clock, bytes |-> [c \in Counter |-> 0], wrapped |-> {},
             away |-> i \notin DOMAIN dev, renamed |-> FALSE]

NoTable == [i \in {} |-> 0]

Init ==
  /\ \E up \in SUBSET Interface : dev \in [up -> Reading]
  /\ clock = 0
  /\ pc = "first"
  /\ prevNet = NoTable
  /\ lastSample = 0
  /\ curNet = NoTable
  /\ since = [i \in Interface |-> Fresh(i)]
  /\ due = NoTable

-----------------------------------------------------------------------------
(* The kernel *)

Tick ==
  /\ clock < MaxClock
  /\ clock' = clock + 1
  /\ UNCHANGED <<dev, loopVars, since, due>>

\* A counter with one byte more; it wraps at its span.
OneMore(n) == IF n + 1 = CounterSpan THEN 0 ELSE n + 1

Traffic(i, c) ==
  /\ i \in DOMAIN dev
  /\ since[i].bytes[c] < MaxBytes
  /\ dev' = [dev EXCEPT ![i][c] = OneMore(@)]
  /\ since' = [since EXCEPT ![i].bytes[c] = @ + 1,
                            ![i].wrapped =
                              IF OneMore(dev[i][c]) = 0 THEN @ \cup {c} ELSE @]
  /\ UNCHANGED <<clock, loopVars, due>>

\* An interface appears, with its counters at zero.
Appear(i) ==
  /\ i \notin DOMAIN dev
  /\ dev' = [j \in DOMAIN dev \cup {i} |->
               IF j = i THEN [c \in Counter |-> 0] ELSE dev[j]]
  /\ UNCHANGED <<clock, loopVars, since, due>>

Vanish(i) ==
  /\ i \in DOMAIN dev
  /\ dev' = [j \in DOMAIN dev \ {i} |-> dev[j]]
  /\ since' = [since EXCEPT ![i].away = TRUE]
  /\ UNCHANGED <<clock, loopVars, due>>

\* An interface takes another name, and its counters with it.
Rename(i, j) ==
  /\ i \in DOMAIN dev
  /\ j \notin DOMAIN dev
  /\ dev' = [k \in (DOMAIN dev \ {i}) \cup {j} |->
               IF k = j THEN dev[i] ELSE dev[k]]
  /\ since' = [since EXCEPT ![i].away = TRUE, ![j].renamed = TRUE]
  /\ UNCHANGED <<clock, loopVars, due>>

-----------------------------------------------------------------------------
(* The main loop *)

\* The first sample,
FirstSample ==
  /\ pc = "first"
  /\ pc' = "start"
  /\ prevNet' = dev
  /\ since' = [i \in Interface |-> Fresh(i)]
  /\ UNCHANGED <<kernelVars, lastSample, curNet, due>>

\* and then its time.
Start ==
  /\ pc = "start"
  /\ pc' = "sample"
  /\ lastSample' = clock
  /\ UNCHANGED <<kernelVars, prevNet, curNet, since, due>>

\* A tick's sample.
Sample ==
  /\ pc = "sample"
  /\ pc' = "frame"
  /\ curNet' = dev
  /\ due' = since
  /\ since' = [i \in Interface |-> Fresh(i)]
  /\ UNCHANGED <<kernelVars, prevNet, lastSample>>

\* Mutant: the difference of unsigned counters without its guard.
DeltaUnguarded(cur, prev) == (cur - prev) % CounterSpan

\* Mutant: a signed difference.
DeltaSigned(cur, prev) == cur - prev

\* The difference of two counters, zero where it would be negative.
Delta(cur, prev) == IF cur >= prev THEN cur - prev ELSE 0

\* The interfaces of both samples; none if no time has gone by.
ComputeNetThroughput(prev, cur, elapsed) ==
  IF elapsed <= 0
  THEN NoTable
  ELSE [i \in DOMAIN prev \cap DOMAIN cur |->
          [c \in Counter |-> Delta(cur[i][c], prev[i][c])]]

\* The time since the previous sample, once the current one has been taken, and
\* what the frame shows: the bytes of each rate, to be divided by elapsed.
elapsed == clock - lastSample
netRates == ComputeNetThroughput(prevNet, curNet, elapsed)

\* Mutant: a frame without rates does not replace the previous sample.
FrameKeeping ==
  /\ pc = "frame"
  /\ pc' = "sample"
  /\ prevNet' = IF elapsed <= 0 THEN prevNet ELSE curNet
  /\ lastSample' = clock
  /\ curNet' = NoTable
  /\ due' = NoTable
  /\ UNCHANGED <<kernelVars, since>>

\* Mutant: the time of the previous sample is not replaced.
FrameLate ==
  /\ pc = "frame"
  /\ pc' = "sample"
  /\ prevNet' = curNet
  /\ curNet' = NoTable
  /\ due' = NoTable
  /\ UNCHANGED <<kernelVars, lastSample, since>>

\* The time is taken and the frame rendered; then the current sample and its
\* time become the previous ones.
Frame ==
  /\ pc = "frame"
  /\ pc' = "sample"
  /\ prevNet' = curNet
  /\ lastSample' = clock
  /\ curNet' = NoTable
  /\ due' = NoTable
  /\ UNCHANGED <<kernelVars, since>>

-----------------------------------------------------------------------------
KernelStep ==
  \/ Tick
  \/ \E i \in Interface :
       \/ \E c \in Counter : Traffic(i, c)
       \/ Appear(i)
       \/ Vanish(i)
       \/ \E j \in Interface : Rename(i, j)

LoopStep == FirstSample \/ Start \/ Sample \/ Frame

Next == KernelStep \/ LoopStep

Spec == Init /\ [][Next]_vars

-----------------------------------------------------------------------------
\* The types of the variables, and of what a frame shows.
ThroughputTypeOK ==
  /\ IsTable(dev, Reading)
  /\ clock \in Nat
  /\ pc \in {"first", "start", "sample", "frame"}
  /\ IsTable(prevNet, Reading)
  /\ lastSample \in Nat /\ lastSample <= clock
  /\ IsTable(curNet, Reading)
  /\ since \in [Interface -> History]
  /\ due \in (IF pc = "frame" THEN [Interface -> History] ELSE {NoTable})
  /\ pc = "frame" => IsTable(netRates, Reading)

\* A frame never shows more bytes for a name than went through it between the
\* two samples, whatever resets, replacements and wraps there were, unless an
\* interface was renamed to it (net.go:112-120).
NeverOverstated ==
  pc = "frame" =>
    \A i \in DOMAIN netRates, c \in Counter :
      ~due[i].renamed => netRates[i][c] <= due[i].bytes[c]

\* An interface that was there all the time is in the frame with exactly the
\* bytes of the interval, unless its counter wrapped or no time went by; so the
\* frames of such intervals leave nothing out and show nothing twice
\* (main.go:118-135).
SteadyExact ==
  pc = "frame" /\ elapsed > 0 =>
    \A i \in Interface, c \in Counter :
      ~due[i].away /\ c \notin due[i].wrapped =>
        i \in DOMAIN netRates /\ netRates[i][c] = due[i].bytes[c]

\* The time that the bytes are divided by is the gap between the two samples, but
\* for the two delays between a sample and the reading of the clock for it: it
\* is longer by no more than this sample's, and shorter by no more than the
\* previous one's, which ended within the gap.  So a slow tick, a tick that came
\* late, and frames without elapsed time leave no rate over the wrong interval
\* (main.go:97, 118-119, 135, net.go:93-94).
GapMeasured ==
  pc = "frame" =>
    \A i \in Interface :
      LET gap    == since[i].from - due[i].from
          before == lastSample - due[i].from
          late   == clock - since[i].from
      IN  /\ before \in 0 .. gap
          /\ gap - before <= elapsed /\ elapsed <= gap + late

-----------------------------------------------------------------------------
(* The inductive invariant behind them. *)

\* What the history h tells of the counters of two samples.
Explains(h, old, new) ==
  \A i \in Interface :
    /\ ~h[i].renamed /\ i \in DOMAIN old \cap DOMAIN new =>
         \A c \in Counter : new[i][c] <= old[i][c] + h[i].bytes[c]
    /\ ~h[i].away =>
         /\ i \in DOMAIN old \cap DOMAIN new
         /\ \A c \in Counter \ h[i].wrapped :
              new[i][c] = old[i][c] + h[i].bytes[c]

\* The history since the last sample explains the counters by it, and the one
\* of the interval before explains it by the sample before; the clock was read
\* after the sample that a rate is counted from, and before the next one.
NetworkInv ==
  /\ pc \in {"start", "sample"} => Explains(since, prevNet, dev)
  /\ pc = "frame" => Explains(since, curNet, dev)
  /\ pc = "frame" => Explains(due, prevNet, curNet)
  /\ pc = "sample" => \A i \in Interface : since[i].from <= lastSample
  /\ pc = "frame" => \A i \in Interface :
       due[i].from <= lastSample /\ lastSample <= since[i].from
  /\ \A i \in Interface : since[i].from <= clock
=============================================================================
