------------------------- MODULE BlockLatencyProofs -------------------------
(***************************************************************************)
(* Proofs about the kernel half, for any requests, map size, histogram     *)
(* size and number of CPUs.                                                *)
(***************************************************************************)
EXTENDS BlockLatency, NatLemmas

-----------------------------------------------------------------------------
(* The helpers. *)

\* pack_key gives a natural number: no key is mistaken for a free element.
LEMMA KeyType ==
  ASSUME NEW r \in Requests
  PROVE  KeyOf(r) \in Nat /\ KeyOf(r) # NoKey
<1>1. dev[r] \in Nat /\ sector[r] \in Nat /\ SectorSpan \in Nat \ {0}
  BY BlockLatencyAssumption
<1>2. dev[r] * SectorSpan \in Nat
  BY <1>1
<1>3. sector[r] % SectorSpan \in Nat
  BY <1>1
<1>. QED
  BY <1>2, <1>3 DEF KeyOf, pack_key, NoKey

\* A set of numbers up to 23 that is not empty has a last one, which is what
\* Max returns.
LEMMA MaxIsLast ==
  ASSUME NEW S \in SUBSET (0 .. 23), S # {}
  PROVE  Max(S) \in S /\ \A i \in S : i <= Max(S)
<1>1. PICK m \in S : \A i \in S : i <= m
  <2>1. S \subseteq Nat /\ 23 \in Nat /\ \A i \in S : i <= 23
    OBVIOUS
  <2>. QED
    BY <2>1, GreatestNat
<1>2. \A i \in S : m >= i
  BY <1>1
<1>3. Max(S) \in S /\ \A i \in S : Max(S) >= i
  BY <1>2 DEF Max
<1>. QED
  BY <1>3

\* The ladder has 23 thresholds; bucket_for returns the last that is reached,
\* or 0, after its clamp.
LEMMA LastReached ==
  ASSUME NEW us \in Int
  PROVE  \E m \in 0 .. 23 :
           /\ bucket_for(us) = Clamp(m)
           /\ m > 0 => us >= Ladder[m]
           /\ \A i \in 1 .. 23 : i > m => ~(us >= Ladder[i])
<1>. DEFINE S == {0} \cup {i \in DOMAIN Ladder : us >= Ladder[i]}
<1>1. DOMAIN Ladder = 1 .. 23
  BY DEF Ladder
<1>2. S \in SUBSET (0 .. 23) /\ S # {}
  BY <1>1
<1>3. Max(S) \in S /\ \A i \in S : i <= Max(S)
  <2>. HIDE DEF S
  <2>. QED
    BY <1>2, MaxIsLast
<1>4. Max(S) > 0 => us >= Ladder[Max(S)]
  BY <1>3
<1>5. \A i \in 1 .. 23 : us >= Ladder[i] => i \in S
  BY <1>1
<1>6. bucket_for(us) = Clamp(Max(S))
  BY DEF bucket_for
<1>. HIDE DEF S
<1>7. Max(S) \in 0 .. 23
  BY <1>2, <1>3
<1>8. ASSUME NEW i \in 1 .. 23, i > Max(S) PROVE ~(us >= Ladder[i])
  <2>1. i \notin S
    BY <1>3, <1>7, <1>8
  <2>. QED
    BY <1>5, <2>1
<1>. QED
  BY <1>4, <1>6, <1>7, <1>8

\* bucket_for stays within the histogram for every latency, so no sample is
\* dropped for its bucket index (block_latency.c:64-96, 127-129).
THEOREM BucketInRange ==
  ASSUME NEW us \in Int
  PROVE  bucket_for(us) \in Buckets
<1>1. HIST_BUCKETS \in 1 .. 24
  BY BlockLatencyAssumption
<1>2. PICK m \in 0 .. 23 : bucket_for(us) = Clamp(m)
  BY LastReached
<1>. QED
  BY <1>1, <1>2 DEF Clamp, Buckets

-----------------------------------------------------------------------------
(* Types. *)

LEMMA TypeInit == Init => TypeOK
<1>. SUFFICES ASSUME Init PROVE TypeOK
  OBVIOUS
<1>1. 0 \in Time
  BY BlockLatencyAssumption DEF Time
<1>. QED
  BY <1>1 DEF Init, TypeOK, Links, Slots, NoKey, NULL, States

LEMMA TypeStep == TypeOK /\ [Next]_kernelVars => TypeOK'
<1>. SUFFICES ASSUME TypeOK, [Next]_kernelVars PROVE TypeOK'
  OBVIOUS
<1>. USE DEF TypeOK
<1>1. CASE Tick
  BY <1>1, BlockLatencyAssumption DEF Tick, Time
<1>2. ASSUME NEW r \in Requests, ProbeStep(r) PROVE TypeOK'
  <2>. KeyOf(r) \in Int
    BY KeyType
  <2>1. ASSUME NEW state \in {"untimed", "updating"}, Issued(r, state)
        PROVE  TypeOK'
    BY <2>1 DEF Issued, States, Live
  <2>2. CASE IssueUntraced(r) \/ IssueProbe(r)
    BY <2>1, <2>2 DEF IssueUntraced, IssueProbe
  <2>3. CASE StoreStart(r)
    BY <2>3 DEF StoreStart, Update, NoKey, States, Live, Timed
  <2>4. CASE CompleteUntraced(r)
    BY <2>4 DEF CompleteUntraced, States
  <2>5. CASE LookupStart(r)
    BY <2>5 DEF LookupStart, Lookup, States, Live, Timed
  <2>6. CASE ReadClock(r)
    BY <2>6 DEF ReadClock, States, Live, Timed
  <2>7. CASE LoadStart(r)
    BY <2>7 DEF LoadStart, States, Live, Timed, NULL
  <2>8. CASE DeleteStart(r)
    BY <2>8 DEF DeleteStart, Delete, NoKey, States, Probing
  <2>9. CASE Count(r)
    <3>. DEFINE b == BucketOf(now[r], val[r])
    <3>1. hist' = [hist EXCEPT ![b] = @ \cup {r}]
      BY <2>9 DEF Count
    <3>2. hist' \in [Buckets -> SUBSET Requests]
      <4>. HIDE DEF b
      <4>. QED  BY <3>1
    <3>3. val' \in [Requests -> Time]
      BY <2>9, BlockLatencyAssumption DEF Count, Time
    <3>4. st' \in [Requests -> States]
      BY <2>9 DEF Count, States
    <3>. QED
      BY <2>9, <3>2, <3>3, <3>4 DEF Count
  <2>. QED
    BY <1>2, <2>2, <2>3, <2>4, <2>5, <2>6, <2>7, <2>8, <2>9 DEF ProbeStep
<1>3. CASE Attach
  BY <1>3 DEF Attach, Links
<1>4. CASE Detach
  BY <1>4 DEF Detach, Links
<1>5. ASSUME NEW b \in Buckets, PutZero(b) PROVE TypeOK'
  BY <1>5 DEF PutZero
<1>6. CASE UNCHANGED kernelVars
  BY <1>6 DEF kernelVars
<1>. QED
  BY <1>1, <1>2, <1>3, <1>4, <1>5, <1>6 DEF Next, KernelNext, UserNext

\* Every variable keeps its type.
THEOREM TypeCorrect == Spec => []TypeOK
BY TypeInit, TypeStep, PTL DEF Spec

-----------------------------------------------------------------------------
(* What each step can disturb. *)

\* Only the two probes' map operations change start_times.
LEMMA TableSteps ==
  ASSUME [Next]_kernelVars
  PROVE  \/ UNCHANGED start_times
         \/ \E r \in Requests :
              StoreStart(r) /\ Update(KeyOf(r), issuedAt[r])
         \/ \E r \in Requests : DeleteStart(r)
<1>1. ASSUME NEW r \in Requests, ProbeStep(r), ~StoreStart(r), ~DeleteStart(r)
      PROVE  UNCHANGED start_times
  BY <1>1 DEF ProbeStep, IssueUntraced, IssueProbe, Issued, CompleteUntraced,
     LookupStart, ReadClock, LoadStart, Count
<1>2. ASSUME NEW r \in Requests, StoreStart(r)
      PROVE  UNCHANGED start_times \/ Update(KeyOf(r), issuedAt[r])
  BY <1>2 DEF StoreStart
<1>. QED
  BY <1>1, <1>2 DEF Next, KernelNext, UserNext, Tick, Attach, Detach, PutZero,
     kernelVars

\* A request gets hold of its key only by being issued.
LEMMA LiveSteps ==
  ASSUME TypeOK, [Next]_kernelVars, NEW r \in Requests, st'[r] \in Live
  PROVE  st[r] \in Live \/ IssueUntraced(r) \/ IssueProbe(r)
<1>1. CASE UNCHANGED st
  BY <1>1
<1>2. ASSUME NEW q \in Requests, ProbeStep(q)
      PROVE  st[r] \in Live \/ IssueUntraced(r) \/ IssueProbe(r)
  <2>1. CASE IssueUntraced(q) \/ IssueProbe(q)
    BY <2>1 DEF IssueUntraced, IssueProbe, Issued, TypeOK
  <2>2. CASE StoreStart(q)
    BY <2>2 DEF StoreStart, TypeOK, Live
  <2>3. CASE CompleteUntraced(q) \/ LookupStart(q)
    BY <2>3 DEF CompleteUntraced, LookupStart, TypeOK, Live, Timed
  <2>4. CASE ReadClock(q) \/ LoadStart(q)
    BY <2>4 DEF ReadClock, LoadStart, TypeOK, Live, Timed
  <2>5. CASE DeleteStart(q) \/ Count(q)
    BY <2>5 DEF DeleteStart, Count, TypeOK, Live, Timed
  <2>. QED
    BY <1>2, <2>1, <2>2, <2>3, <2>4, <2>5 DEF ProbeStep
<1>. QED
  BY <1>1, <1>2 DEF Next, KernelNext, UserNext, Tick, Attach, Detach, PutZero,
     kernelVars

\* A key once aliased stays so, and it becomes so only by an issue.
LEMMA AliasSteps ==
  ASSUME [Next]_kernelVars
  PROVE  /\ aliased \subseteq aliased'
         /\ \/ UNCHANGED aliased
            \/ \E r \in Requests : IssueUntraced(r) \/ IssueProbe(r)
<1>1. ASSUME NEW r, IssueUntraced(r) \/ IssueProbe(r)
      PROVE  aliased \subseteq aliased'
  BY <1>1 DEF IssueUntraced, IssueProbe, Issued
<1>2. ASSUME NEW r \in Requests, ProbeStep(r),
             ~IssueUntraced(r), ~IssueProbe(r)
      PROVE  UNCHANGED aliased
  BY <1>2 DEF ProbeStep, StoreStart,
     CompleteUntraced, LookupStart, ReadClock, LoadStart, DeleteStart, Count
<1>. QED
  BY <1>1, <1>2 DEF Next, KernelNext, UserNext, Tick, Attach, Detach, PutZero,
     kernelVars

\* The links never go back to a stage where exactness is claimed.
LEMMA OpenSteps ==
  ASSUME [Next]_kernelVars
  PROVE  /\ Open' => Open
         /\ links' = "unattached" => links = "unattached"
<1>1. ASSUME NEW r \in Requests, ProbeStep(r) PROVE UNCHANGED links
  BY <1>1 DEF ProbeStep, IssueUntraced, IssueProbe, Issued, StoreStart,
     CompleteUntraced, LookupStart, ReadClock, LoadStart, DeleteStart, Count
<1>. QED
  BY <1>1 DEF Next, KernelNext, UserNext, Tick, Attach, Detach, PutZero,
     kernelVars, Open

-----------------------------------------------------------------------------
(* KernelInv is inductive. *)

LEMMA InvInit == Init => KernelInv
<1>. SUFFICES ASSUME Init PROVE KernelInv
  OBVIOUS
<1>1. OneEntry /\ LiveAlone /\ NothingYet /\ OnlyCounted
  BY DEF Init, OneEntry, LiveAlone, NothingYet, OnlyCounted, Live, Timed
<1>2. StartKnown
  BY DEF Init, StartKnown, StartOf
<1>3. IssuedFirst
  BY DEF Init, IssuedFirst, ClockRead
<1>. QED
  BY <1>1, <1>2, <1>3 DEF KernelInv

LEMMA IssuedFirstStep ==
  TypeOK /\ IssuedFirst /\ [Next]_kernelVars => IssuedFirst'
<1>. SUFFICES ASSUME TypeOK, IssuedFirst, [Next]_kernelVars, NEW r \in Requests
              PROVE  /\ issuedAt'[r] <= clock'
                     /\ st'[r] \in ClockRead => issuedAt'[r] <= now'[r]
  BY DEF IssuedFirst
<1>. USE DEF TypeOK, IssuedFirst, ClockRead
<1>1. clock \in Nat /\ issuedAt[r] \in Nat
  BY BlockLatencyAssumption DEF Time
<1>2. CASE Tick
  BY <1>1, <1>2 DEF Tick
<1>3. ASSUME NEW q \in Requests, ProbeStep(q)
      PROVE  /\ issuedAt'[r] <= clock'
             /\ st'[r] \in ClockRead => issuedAt'[r] <= now'[r]
  <2>1. CASE IssueUntraced(q) \/ IssueProbe(q)
    BY <1>1, <2>1 DEF IssueUntraced, IssueProbe, Issued
  <2>2. CASE StoreStart(q) \/ CompleteUntraced(q) \/ LookupStart(q)
    BY <2>2 DEF StoreStart, CompleteUntraced, LookupStart
  <2>3. CASE ReadClock(q)
    BY <2>3 DEF ReadClock
  <2>4. CASE LoadStart(q)
    BY <2>4 DEF LoadStart
  <2>5. CASE DeleteStart(q) \/ Count(q)
    BY <2>5 DEF DeleteStart, Count
  <2>. QED
    BY <1>3, <2>1, <2>2, <2>3, <2>4, <2>5 DEF ProbeStep
<1>4. CASE UNCHANGED <<clock, st, issuedAt, now>>
  BY <1>4
<1>. QED
  BY <1>2, <1>3, <1>4 DEF Next, KernelNext, UserNext, Attach, Detach, PutZero,
     kernelVars

LEMMA OneEntryStep == TypeOK /\ OneEntry /\ [Next]_kernelVars => OneEntry'
<1>. SUFFICES ASSUME TypeOK, OneEntry, [Next]_kernelVars PROVE OneEntry'
  OBVIOUS
<1>. USE DEF TypeOK, OneEntry
<1>1. CASE UNCHANGED start_times
  BY <1>1
<1>2. ASSUME NEW r \in Requests, Update(KeyOf(r), issuedAt[r])
      PROVE  OneEntry'
  BY <1>2 DEF Update, Used, Lookup
<1>3. ASSUME NEW r \in Requests, DeleteStart(r)
      PROVE  OneEntry'
  BY <1>3 DEF DeleteStart, Delete, Lookup
<1>. QED
  BY <1>1, <1>2, <1>3, TableSteps

LEMMA LiveAloneStep == TypeOK /\ LiveAlone /\ [Next]_kernelVars => LiveAlone'
<1>. SUFFICES ASSUME TypeOK, LiveAlone, [Next]_kernelVars,
                     NEW r \in Requests, NEW q \in Requests, r # q,
                     {st'[r], st'[q]} \subseteq Live, KeyOf(r) = KeyOf(q)
              PROVE  KeyOf(r) \in aliased'
  BY DEF LiveAlone, Clean
<1>1. CASE st[r] \in Live /\ st[q] \in Live
  BY <1>1, AliasSteps DEF LiveAlone, Clean
<1>2. ASSUME NEW x \in Requests, NEW y \in Requests, x # y,
             KeyOf(x) = KeyOf(y), st'[y] \in Live,
             IssueUntraced(x) \/ IssueProbe(x)
      PROVE  KeyOf(x) \in aliased'
  <2>1. st[y] \in Live
    BY <1>2 DEF IssueUntraced, IssueProbe, Issued, TypeOK
  <2>. QED
    BY <1>2, <2>1 DEF IssueUntraced, IssueProbe, Issued
<1>. QED
  BY <1>1, <1>2, LiveSteps

LEMMA NothingYetStep == TypeOK /\ NothingYet /\ [Next]_kernelVars => NothingYet'
<1>. SUFFICES ASSUME TypeOK, NothingYet, [Next]_kernelVars,
                     links' = "unattached"
              PROVE  /\ \A s \in Slots : start_times'[s].key = NoKey
                     /\ \A r \in Requests : st'[r] \in {"new", "untimed", "untraced"}
  BY DEF NothingYet
<1>1. links = "unattached"
  BY OpenSteps
<1>2. \A r \in Requests : st[r] \in {"new", "untimed", "untraced"}
  BY <1>1 DEF NothingYet
<1>3. UNCHANGED start_times
  BY <1>2, TableSteps DEF StoreStart, DeleteStart
<1>4. ASSUME NEW r \in Requests, ProbeStep(r)
      PROVE  IssueUntraced(r) \/ CompleteUntraced(r)
  BY <1>1, <1>2, <1>4 DEF ProbeStep, IssueProbe, StoreStart, LookupStart,
     ReadClock, LoadStart, DeleteStart, Count, IssueOn, CompleteOn
<1>5. CASE UNCHANGED st
  BY <1>1, <1>3, <1>5 DEF NothingYet
<1>6. ASSUME NEW r \in Requests, IssueUntraced(r) \/ CompleteUntraced(r)
      PROVE  \A q \in Requests : st'[q] \in {"new", "untimed", "untraced"}
  BY <1>2, <1>6 DEF IssueUntraced, Issued, CompleteUntraced, TypeOK
<1>. QED
  BY <1>1, <1>3, <1>4, <1>5, <1>6 DEF NothingYet, Next, KernelNext, UserNext,
     Tick, Attach, Detach, PutZero, kernelVars

LEMMA OnlyCountedStep ==
  TypeOK /\ OnlyCounted /\ [Next]_kernelVars => OnlyCounted'
<1>. SUFFICES ASSUME TypeOK, OnlyCounted, [Next]_kernelVars PROVE OnlyCounted'
  OBVIOUS
<1>. USE DEF TypeOK, OnlyCounted
<1>1. ASSUME NEW r \in Requests, ProbeStep(r) PROVE OnlyCounted'
  <2>1. CASE Count(r)
    <3>. DEFINE b == BucketOf(now[r], val[r])
    <3>1. hist' = [hist EXCEPT ![b] = @ \cup {r}]
      BY <2>1 DEF Count
    <3>2. \A c \in Buckets : hist'[c] \subseteq hist[c] \cup {r}
      <4>. HIDE DEF b
      <4>. QED  BY <3>1
    <3>. QED
      BY <2>1, <3>2 DEF Count
  <2>2. CASE ~Count(r)
    <3>1. UNCHANGED hist
      BY <1>1, <2>2 DEF ProbeStep, IssueUntraced, IssueProbe, Issued,
         StoreStart, CompleteUntraced, LookupStart, ReadClock, LoadStart,
         DeleteStart
    <3>2. \A q \in Requests : st[q] = "counted" => st'[q] = "counted"
      BY <1>1, <2>2 DEF ProbeStep, IssueUntraced, IssueProbe, Issued,
         StoreStart, CompleteUntraced, LookupStart, ReadClock, LoadStart,
         DeleteStart
    <3>. QED
      BY <3>1, <3>2
  <2>. QED
    BY <2>1, <2>2
<1>2. ASSUME NEW b \in Buckets, PutZero(b) PROVE OnlyCounted'
  BY <1>2 DEF PutZero
<1>. QED
  BY <1>1, <1>2 DEF Next, KernelNext, UserNext, Tick, Attach, Detach,
     kernelVars

\* What is known of the start of r survives a step of the probe of another
\* request: while r is live, only requests of other keys touch the map.
LEMMA OtherProbe ==
  ASSUME TypeOK, LiveAlone, [Next]_kernelVars,
         NEW r \in Requests, Clean(r), StartOf(r),
         NEW q \in Requests, q # r, ProbeStep(q)
  PROVE  StartOf(r)'
<1>. USE DEF TypeOK
<1>1. /\ st'[r] = st[r] /\ issuedAt'[r] = issuedAt[r]
      /\ start'[r] = start[r] /\ val'[r] = val[r]
      /\ UNCHANGED links
  BY DEF ProbeStep, IssueUntraced, IssueProbe, Issued, StoreStart,
     CompleteUntraced, LookupStart, ReadClock, LoadStart, DeleteStart, Count
<1>2. CASE UNCHANGED start_times
  BY <1>1, <1>2 DEF StartOf, EntryOf, Open, Lookup
<1>3. CASE ~(UNCHANGED start_times) /\ st[r] \in Live
  <2>1. /\ st[q] \in Live
        /\ Update(KeyOf(q), issuedAt[q]) \/ Delete(KeyOf(q))
    BY <1>3 DEF ProbeStep, IssueUntraced, IssueProbe, Issued, StoreStart,
       CompleteUntraced, LookupStart, ReadClock, LoadStart, DeleteStart, Count,
       Live, Timed
  <2>2. KeyOf(q) # KeyOf(r) /\ KeyOf(r) # NoKey
    BY <1>3, <2>1, KeyType DEF LiveAlone
  <2>3. \A s \in Slots : start_times[s].key = KeyOf(r) =>
          start_times'[s] = start_times[s]
    BY <2>1, <2>2 DEF Update, Delete, Used, Lookup
  <2>4. \A s \in Slots : start_times'[s].key = KeyOf(r) =>
          start_times[s].key = KeyOf(r)
    BY <2>1, <2>2 DEF Update, Delete, Used, Lookup
  <2>. QED
    BY <1>1, <2>3, <2>4 DEF StartOf, EntryOf, Open, Lookup
<1>4. CASE st[r] \notin Live
  BY <1>1, <1>4 DEF StartOf, Open, Live, Timed
<1>. QED
  BY <1>2, <1>3, <1>4

\* It is established and kept by the steps of the probes of r.
LEMMA OwnProbe ==
  ASSUME TypeOK, OneEntry, NothingYet, [Next]_kernelVars,
         NEW r \in Requests, Clean(r), StartOf(r), ProbeStep(r)
  PROVE  StartOf(r)'
<1>. USE DEF TypeOK, StartOf, EntryOf
<1>. KeyOf(r) # NoKey
  BY KeyType
<1>1. CASE IssueUntraced(r)
  <2>1. Open => links = "unattached"
    BY <1>1 DEF IssueUntraced, IssueOn, Open, Links
  <2>2. Open => Lookup(KeyOf(r))' = {}
    BY <1>1, <2>1 DEF IssueUntraced, Issued, NothingYet, Lookup
  <2>. QED
    BY <1>1, <2>2 DEF IssueUntraced, Issued, Open
<1>2. CASE IssueProbe(r)
  BY <1>2 DEF IssueProbe, Issued
<1>3. CASE StoreStart(r)
  <2>1. CASE UpdateFails(KeyOf(r))
    BY <1>3, <2>1 DEF StoreStart, UpdateFails, Lookup
  <2>2. CASE ~UpdateFails(KeyOf(r))
    BY <1>3, <2>2 DEF StoreStart, Update
  <2>. QED
    BY <2>1, <2>2
<1>4. CASE CompleteUntraced(r) \/ Count(r)
  BY <1>4 DEF CompleteUntraced, Count
<1>5. CASE LookupStart(r)
  <2>1. ASSUME NEW s \in Lookup(KeyOf(r)), Open
        PROVE  start_times[s] = EntryOf(r)
    <3>1. st[r] = "inflight"
      BY <1>5, <2>1 DEF LookupStart
    <3>2. PICK t \in Slots : start_times[t] = EntryOf(r)
      BY <3>1
    <3>3. s = t
      BY <2>1, <3>2 DEF OneEntry, Lookup
    <3>. QED
      BY <3>2, <3>3
  <2>. QED
    BY <1>5, <2>1 DEF LookupStart, Open
<1>6. CASE ReadClock(r)
  BY <1>6 DEF ReadClock, Open
<1>7. CASE LoadStart(r)
  BY <1>7 DEF LoadStart, Open
<1>8. CASE DeleteStart(r)
  BY <1>8 DEF DeleteStart, Open
<1>. QED
  BY <1>1, <1>2, <1>3, <1>4, <1>5, <1>6, <1>7, <1>8 DEF ProbeStep

LEMMA StartKnownStep ==
  TypeOK /\ KernelInv /\ [Next]_kernelVars => StartKnown'
<1>. SUFFICES ASSUME TypeOK, KernelInv, [Next]_kernelVars,
                     NEW r \in Requests, Clean(r)'
              PROVE  StartOf(r)'
  BY DEF StartKnown
<1>1. Clean(r) /\ StartOf(r)
  BY AliasSteps DEF Clean, KeyOf, KernelInv, StartKnown
<1>2. CASE \E q \in Requests : ProbeStep(q)
  BY <1>1, <1>2, OtherProbe, OwnProbe DEF KernelInv
<1>3. CASE UNCHANGED <<start_times, st, issuedAt, start, val>>
  BY <1>1, <1>3, OpenSteps DEF StartOf, EntryOf, Lookup
<1>. QED
  BY <1>2, <1>3 DEF Next, KernelNext, UserNext, Tick, Attach, Detach, PutZero,
     kernelVars

LEMMA InvStep == TypeOK /\ KernelInv /\ [Next]_kernelVars => KernelInv'
BY IssuedFirstStep, OneEntryStep, LiveAloneStep, NothingYetStep,
   StartKnownStep, OnlyCountedStep DEF KernelInv

\* KernelInv is an invariant of the two programs and their maps.
THEOREM KernelInvariant == Spec => []KernelInv
BY InvInit, InvStep, TypeInit, TypeStep, PTL DEF Spec

-----------------------------------------------------------------------------
(* What the histogram promises. *)

\* A step leaves the record of a counted request alone.
LEMMA CountedKept ==
  ASSUME TypeOK, [Next]_kernelVars, NEW r \in Requests, st[r] = "counted"
  PROVE  /\ st'[r] = "counted"
         /\ issuedAt'[r] = issuedAt[r] /\ now'[r] = now[r]
<1>1. ASSUME NEW q \in Requests, ProbeStep(q)
      PROVE  /\ st'[r] = "counted"
             /\ issuedAt'[r] = issuedAt[r] /\ now'[r] = now[r]
  BY <1>1 DEF TypeOK, ProbeStep, IssueUntraced, IssueProbe, Issued, StoreStart,
     CompleteUntraced, LookupStart, ReadClock, LoadStart, DeleteStart, Count
<1>. QED
  BY <1>1 DEF Next, KernelNext, UserNext, Tick, Attach, Detach, PutZero,
     kernelVars

\* A request enters the histogram when it is counted, under its own latency.
LEMMA HistSteps ==
  ASSUME TypeOK, KernelInv, [Next]_kernelVars,
         NEW b \in Buckets, NEW r \in hist'[b], r \notin hist[b]
  PROVE  /\ r \in Requests
         /\ Count(r)
         /\ b = BucketOf(now[r], val[r])
<1>1. ASSUME NEW q \in Requests, ProbeStep(q)
      PROVE  q = r /\ Count(r) /\ b = BucketOf(now[r], val[r])
  <2>1. CASE Count(q)
    <3>. DEFINE c == BucketOf(now[q], val[q])
    <3>1. hist' = [hist EXCEPT ![c] = @ \cup {q}]
      BY <2>1 DEF Count
    <3>2. q = r /\ b = c
      <4>. HIDE DEF c
      <4>. QED  BY <3>1 DEF TypeOK
    <3>. QED
      BY <2>1, <3>2
  <2>2. CASE ~Count(q)
    BY <1>1, <2>2 DEF ProbeStep, IssueUntraced, IssueProbe, Issued, StoreStart,
       CompleteUntraced, LookupStart, ReadClock, LoadStart, DeleteStart
  <2>. QED
    BY <2>1, <2>2
<1>2. ASSUME NEW c \in Buckets, PutZero(c) PROVE FALSE
  BY <1>2 DEF PutZero, TypeOK
<1>. QED
  BY <1>1, <1>2 DEF Next, KernelNext, UserNext, Tick, Attach, Detach,
     kernelVars

LEMMA ExactStep ==
  TypeOK /\ KernelInv /\ ExactSamples /\ [Next]_kernelVars => ExactSamples'
<1>. SUFFICES ASSUME TypeOK, KernelInv, ExactSamples, [Next]_kernelVars, Open',
                     NEW b \in Buckets, NEW r \in hist'[b], Clean(r)'
              PROVE  b = BucketOf(now'[r], issuedAt'[r])
  BY DEF ExactSamples, BucketOf, bucket_for, Delta
<1>1. Open /\ Clean(r)
  BY OpenSteps, AliasSteps DEF Clean, KeyOf
<1>2. CASE r \in hist[b]
  <2>1. r \in Requests /\ st[r] = "counted"
    BY <1>2 DEF TypeOK, KernelInv, OnlyCounted
  <2>. QED
    BY <1>1, <1>2, <2>1, CountedKept DEF ExactSamples
<1>3. CASE r \notin hist[b]
  <2>1. r \in Requests /\ Count(r) /\ b = BucketOf(now[r], val[r])
    BY <1>3, HistSteps
  <2>2. val[r] = issuedAt[r]
    BY <1>1, <2>1 DEF Count, KernelInv, StartKnown, StartOf
  <2>3. now'[r] = now[r] /\ issuedAt'[r] = issuedAt[r]
    BY <2>1 DEF Count
  <2>. QED
    BY <2>1, <2>2, <2>3
<1>. QED
  BY <1>2, <1>3

\* Whatever the interleaving of probes on any number of CPUs, every sample of
\* a request whose key was never shared is its own latency.
THEOREM SamplesExact == Spec => []ExactSamples
<1>1. Init => ExactSamples
  BY DEF Init, ExactSamples
<1>. QED
  BY <1>1, TypeInit, TypeStep, InvInit, InvStep, ExactStep, PTL DEF Spec

LEMMA MatchStep ==
  ASSUME TypeOK, KernelInv, [Next]_kernelVars, Open,
         NEW r \in Requests, Clean(r)
  PROVE  /\ st[r] = "inflight" => st'[r] # "missed"
         /\ st[r] = "untimed" => st'[r] # "looked"
<1>1. StartOf(r)
  BY DEF KernelInv, StartKnown
<1>2. CASE UNCHANGED st
  BY <1>2
<1>3. ASSUME NEW q \in Requests, ProbeStep(q), q # r
      PROVE  st'[r] = st[r]
  BY <1>3 DEF TypeOK, ProbeStep, IssueUntraced, IssueProbe, Issued, StoreStart,
     CompleteUntraced, LookupStart, ReadClock, LoadStart, DeleteStart, Count
<1>4. CASE LookupStart(r)
  BY <1>1, <1>4 DEF TypeOK, LookupStart, StartOf, EntryOf, Lookup
<1>5. CASE ProbeStep(r) /\ ~LookupStart(r)
  BY <1>5 DEF TypeOK, ProbeStep, IssueUntraced, IssueProbe, Issued, StoreStart,
     CompleteUntraced, ReadClock, LoadStart, DeleteStart, Count
<1>. QED
  BY <1>2, <1>3, <1>4, <1>5 DEF Next, KernelNext, UserNext, Tick, Attach,
     Detach, PutZero, kernelVars

\* A recorded start is always found, and one that was not recorded is never
\* replaced by another request's.
THEOREM StartsMatch == Spec => StartMatchesIssue
<1>1. TypeOK /\ KernelInv /\ [Next]_kernelVars =>
        [\A r \in Requests : Open /\ Clean(r) =>
           /\ st[r] = "inflight" => st'[r] # "missed"
           /\ st[r] = "untimed" => st'[r] # "looked"]_kernelVars
  BY MatchStep
<1>. QED
  BY <1>1, TypeInit, TypeStep, InvInit, InvStep, PTL
     DEF Spec, StartMatchesIssue

\* A request with its start recorded keeps it until it deletes its own entry.
LEMMA OwnerKept ==
  ASSUME TypeOK, [Next]_kernelVars,
         NEW s \in Slots, start_times'[s] = start_times[s],
         NEW r \in Requests, KeyOf(r) = start_times[s].key,
         st[r] \in Timed \cup {"untraced"}
  PROVE  /\ issuedAt'[r] = issuedAt[r]
         /\ st'[r] \in Timed \cup {"untraced"}
<1>. USE DEF TypeOK, Timed
<1>. KeyOf(r) # NoKey
  BY KeyType
<1>1. CASE UNCHANGED <<st, issuedAt>>
  BY <1>1
<1>2. ASSUME NEW q \in Requests, ProbeStep(q), q # r
      PROVE  st'[r] = st[r] /\ issuedAt'[r] = issuedAt[r]
  BY <1>2 DEF ProbeStep, IssueUntraced, IssueProbe, Issued, StoreStart,
     CompleteUntraced, LookupStart, ReadClock, LoadStart, DeleteStart, Count
<1>3. CASE ProbeStep(r)
  <2>1. ~DeleteStart(r)
    BY DEF DeleteStart, Delete, Lookup
  <2>2. CASE LookupStart(r)
    BY <2>2 DEF LookupStart, Lookup
  <2>3. CASE ~LookupStart(r)
    BY <1>3, <2>1, <2>3 DEF ProbeStep, IssueUntraced, IssueProbe, Issued,
       StoreStart, CompleteUntraced, ReadClock, LoadStart, Count
  <2>. QED
    BY <2>2, <2>3
<1>. QED
  BY <1>1, <1>2, <1>3 DEF Next, KernelNext, UserNext, Tick, Attach, Detach,
     PutZero, kernelVars

LEMMA NoEntryLeftStep ==
  TypeOK /\ NoEntryLeft /\ [Next]_kernelVars => NoEntryLeft'
<1>. SUFFICES ASSUME TypeOK, NoEntryLeft, [Next]_kernelVars, NEW s \in Slots,
                     start_times'[s].key \notin {NoKey} \cup aliased'
              PROVE  \E r \in Requests :
                       /\ KeyOf(r) = start_times'[s].key
                       /\ issuedAt'[r] = start_times'[s].ts
                       /\ st'[r] \in Timed \cup {"untraced"}
  BY DEF NoEntryLeft, KeyOf
<1>1. CASE start_times'[s] = start_times[s]
  <2>1. PICK r \in Requests :
          /\ KeyOf(r) = start_times[s].key
          /\ issuedAt[r] = start_times[s].ts
          /\ st[r] \in Timed \cup {"untraced"}
    BY <1>1, AliasSteps DEF NoEntryLeft
  <2>. QED
    BY <1>1, <2>1, OwnerKept
<1>2. ASSUME NEW r \in Requests, StoreStart(r), Update(KeyOf(r), issuedAt[r]),
             start_times'[s] # start_times[s]
      PROVE  /\ KeyOf(r) = start_times'[s].key
             /\ issuedAt'[r] = start_times'[s].ts
             /\ st'[r] \in Timed \cup {"untraced"}
  <2>1. start_times'[s] = [key |-> KeyOf(r), ts |-> issuedAt[r]]
    BY <1>2 DEF Update, TypeOK
  <2>2. ~UpdateFails(KeyOf(r))
    BY <1>2 DEF StoreStart
  <2>. QED
    BY <1>2, <2>1, <2>2 DEF StoreStart, TypeOK, Timed
<1>3. ASSUME NEW r \in Requests, DeleteStart(r)
      PROVE  start_times'[s] = start_times[s]
  BY <1>3 DEF DeleteStart, Delete, TypeOK
<1>. QED
  BY <1>1, <1>2, <1>3, TableSteps

\* Measured requests leave nothing behind in start_times.
THEOREM NothingLeft == Spec => []NoEntryLeft
<1>1. Init => NoEntryLeft
  BY DEF Init, NoEntryLeft
<1>. QED
  BY <1>1, TypeInit, TypeStep, NoEntryLeftStep, PTL DEF Spec

-----------------------------------------------------------------------------
(* The buckets of the kernel and the labels of user space. *)

\* User space's powers of two are natural numbers that double from 1.
LEMMA ShiftEquation ==
  /\ Shift \in [Nat -> Nat]
  /\ \A i \in Nat :
       Shift[i] = IF i = 0 THEN 1 ELSE 2 * Shift[i - 1]
<1>. DEFINE double   == [x \in Nat |-> 2 * x]
            pre      == [i \in Nat |-> IF i = 0 THEN 0 ELSE i - 1]
            Doubling(f) == [i \in Nat |-> IF i = 0 THEN 1 ELSE 2 * f[i - 1]]
<1>1. 1 \in Nat /\ {0} \in SUBSET Nat
  OBVIOUS
<1>2. double \in [Nat -> Nat] /\ pre \in [Nat -> Nat]
  OBVIOUS
<1>3. \A i \in Nat \ {0} : pre[i] < i
  OBVIOUS
<1>4. PICK f \in [Nat -> Nat] : IsRecursion(f, {0}, 1, double, pre)
  <2>. HIDE DEF double, pre
  <2>. QED
    BY <1>1, <1>2, <1>3, RecursionExists
<1>5. f = Doubling(f)
  <2>1. ASSUME NEW i \in Nat
        PROVE  f[i] = IF i = 0 THEN 1 ELSE 2 * f[i - 1]
    <3>1. f[i] = IF i \in {0} THEN 1 ELSE double[f[pre[i]]]
      <4>. HIDE DEF double, pre
      <4>. QED
        BY <1>4 DEF IsRecursion
    <3>2. f[pre[i]] \in Nat
      OBVIOUS
    <3>. QED
      BY <3>1, <3>2
  <2>. QED
    BY <2>1
<1>6. Shift = CHOOSE g : g = Doubling(g)
  BY DEF Shift
<1>7. Shift = Doubling(Shift)
  <2>. HIDE DEF Doubling
  <2>. QED
    BY <1>5, <1>6
<1>8. \A i \in Nat : Shift[i] = IF i = 0 THEN 1 ELSE 2 * Shift[i - 1]
  <2>1. \A i \in Nat : Doubling(Shift)[i] = IF i = 0 THEN 1 ELSE 2 * Shift[i - 1]
    OBVIOUS
  <2>. HIDE DEF Doubling
  <2>. QED
    BY <1>7, <2>1
<1>9. \A i \in Nat : Shift[i] \in Nat
  <2>. DEFINE Wrong == {i \in Nat : Shift[i] \notin Nat}
  <2>1. SUFFICES ASSUME Wrong # {} PROVE FALSE
    OBVIOUS
  <2>2. PICK i \in Wrong : \A k \in Wrong : i <= k
    <3>1. Wrong \subseteq Nat
      OBVIOUS
    <3>. HIDE DEF Wrong
    <3>. QED
      BY <2>1, <3>1, LeastNat
  <2>3. i \in Nat /\ Shift[i] \notin Nat
    OBVIOUS
  <2>4. i # 0 /\ Shift[i - 1] \notin Nat
    BY <1>8, <2>3
  <2>5. i - 1 \in Wrong
    BY <2>3, <2>4
  <2>. HIDE DEF Wrong
  <2>. QED
    BY <2>2, <2>3, <2>5
<1>10. Shift = [i \in Nat |-> Shift[i]]
  <2>1. Doubling(Shift) = [i \in Nat |-> Doubling(Shift)[i]]
    OBVIOUS
  <2>. HIDE DEF Doubling
  <2>. QED
    BY <1>7, <2>1
<1>. QED
  BY <1>8, <1>9, <1>10

\* A larger shift gives a larger number.
LEMMA ShiftsGrow ==
  ASSUME NEW i \in Nat, NEW j \in Nat, i <= j
  PROVE  Shift[i] <= Shift[j]
<1>. DEFINE Wrong == {k \in Nat : i <= k /\ ~(Shift[i] <= Shift[k])}
<1>1. SUFFICES ASSUME Wrong # {} PROVE FALSE
  OBVIOUS
<1>2. PICK k \in Wrong : \A l \in Wrong : k <= l
  <2>1. Wrong \subseteq Nat
    OBVIOUS
  <2>. HIDE DEF Wrong
  <2>. QED
    BY <1>1, <2>1, LeastNat
<1>3. k \in Nat /\ i <= k /\ ~(Shift[i] <= Shift[k])
  OBVIOUS
<1>4. Shift[i] \in Nat /\ Shift[k] \in Nat /\ Shift[k - 1] \in Nat
      /\ k # i
  BY <1>3, ShiftEquation
<1>5. k - 1 \in Nat /\ i <= k - 1 /\ Shift[k] = 2 * Shift[k - 1]
  BY <1>3, <1>4, ShiftEquation
<1>6. k - 1 \in Wrong
  BY <1>3, <1>4, <1>5
<1>. HIDE DEF Wrong
<1>. QED
  BY <1>2, <1>3, <1>6

\* The kernel's ladder is user space's shifts, written out.
LEMMA LadderIsShift ==
  ASSUME NEW i \in 1 .. 23
  PROVE  Ladder[i] = Shift[i - 1]
<1>1. \A k \in Nat : k # 0 => Shift[k] = 2 * Shift[k - 1]
  BY ShiftEquation
<1>2. Shift[0] = 1
  BY ShiftEquation
<1>3. /\ Shift[1] = 2 /\ Shift[2] = 4 /\ Shift[3] = 8 /\ Shift[4] = 16
      /\ Shift[5] = 32 /\ Shift[6] = 64
  BY <1>2, <1>1
<1>4. /\ Shift[7] = 128 /\ Shift[8] = 256 /\ Shift[9] = 512
      /\ Shift[10] = 1024 /\ Shift[11] = 2048 /\ Shift[12] = 4096
  BY <1>3, <1>1
<1>5. /\ Shift[13] = 8192 /\ Shift[14] = 16384 /\ Shift[15] = 32768
      /\ Shift[16] = 65536 /\ Shift[17] = 131072
  BY <1>4, <1>1
<1>6. /\ Shift[18] = 262144 /\ Shift[19] = 524288 /\ Shift[20] = 1048576
      /\ Shift[21] = 2097152 /\ Shift[22] = 4194304
  BY <1>5, <1>1
<1>7. CASE i \in 1 .. 7
  BY <1>2, <1>3, <1>7 DEF Ladder
<1>8. CASE i \in 8 .. 13
  BY <1>4, <1>8 DEF Ladder
<1>9. CASE i \in 14 .. 18
  BY <1>5, <1>9 DEF Ladder
<1>10. CASE i \in 19 .. 23
  BY <1>6, <1>10 DEF Ladder
<1>. QED
  BY <1>7, <1>8, <1>9, <1>10

\* So bucket_for returns the one bucket on the scale that the shifts put the
\* latency in, and the last one beyond it.
LEMMA BucketByShift ==
  ASSUME NEW us \in Nat
  PROVE  LET b == bucket_for(us)
         IN  /\ b \in Buckets
             /\ b > 0 => Shift[b - 1] <= us
             /\ us < Shift[HIST_BUCKETS - 1] => us < Shift[b]
             /\ us >= Shift[HIST_BUCKETS - 1] => b = HIST_BUCKETS - 1
<1>. DEFINE n == HIST_BUCKETS - 1
<1>1. n \in 0 .. 23 /\ HIST_BUCKETS = n + 1
  BY BlockLatencyAssumption
<1>2. \A i \in Nat : Shift[i] \in Nat
  BY ShiftEquation
<1>3. PICK m \in 0 .. 23 :
        /\ bucket_for(us) = Clamp(m)
        /\ m > 0 => us >= Ladder[m]
        /\ \A i \in 1 .. 23 : i > m => ~(us >= Ladder[i])
  BY LastReached
<1>4. m > 0 => us >= Shift[m - 1]
  BY <1>3, LadderIsShift
<1>5. m < 23 => us < Shift[m]
  <2>1. SUFFICES ASSUME m < 23 PROVE us < Shift[m]
    OBVIOUS
  <2>2. m + 1 \in 1 .. 23 /\ ~(us >= Ladder[m + 1])
    BY <1>3, <2>1
  <2>3. Ladder[m + 1] = Shift[(m + 1) - 1]
    BY <2>2, LadderIsShift
  <2>4. Ladder[m + 1] = Shift[m]
    BY <2>3
  <2>. QED
    BY <1>2, <2>2, <2>4
<1>. HIDE DEF n
<1>6. CASE m <= n
  <2>1. bucket_for(us) = m /\ m \in Buckets
    BY <1>1, <1>3, <1>6 DEF Clamp, Buckets
  <2>2. us < Shift[n] => us < Shift[m]
    BY <1>1, <1>5, <1>6
  <2>3. us >= Shift[n] => m = n
    <3>1. SUFFICES ASSUME us >= Shift[n], m < n PROVE FALSE
      BY <1>1, <1>6
    <3>2. us < Shift[m]
      BY <1>1, <1>5, <3>1
    <3>3. Shift[m] <= Shift[n]
      BY <1>1, <1>6, ShiftsGrow
    <3>. QED
      BY <1>1, <1>2, <3>1, <3>2, <3>3
  <2>. QED
    BY <1>4, <2>1, <2>2, <2>3 DEF n
<1>7. CASE m > n
  <2>1. bucket_for(us) = n /\ n \in Buckets
    BY <1>1, <1>3, <1>7 DEF Clamp, Buckets
  <2>2. m - 1 \in Nat /\ n \in Nat /\ n <= m - 1
    BY <1>1, <1>7
  <2>3. Shift[n] <= Shift[m - 1]
    BY <2>2, ShiftsGrow
  <2>4. Shift[n] \in Nat /\ Shift[m - 1] \in Nat
    BY <1>2, <2>2
  <2>5. us >= Shift[n]
    BY <1>4, <2>2, <2>3, <2>4
  <2>6. n > 0 => Shift[n - 1] <= us
    <3>1. SUFFICES ASSUME n > 0 PROVE Shift[n - 1] <= us
      OBVIOUS
    <3>2. n - 1 \in Nat /\ n - 1 <= n
      BY <1>1, <3>1
    <3>3. Shift[n - 1] <= Shift[n] /\ Shift[n - 1] \in Nat
      BY <1>2, <2>2, <3>2, ShiftsGrow
    <3>. QED
      BY <2>4, <2>5, <3>3
  <2>. QED
    BY <2>1, <2>5, <2>6 DEF n
<1>. QED
  BY <1>1, <1>6, <1>7

\* The latency that the completion probe computes, in microseconds.
LEMMA Measured ==
  ASSUME NEW t \in Nat, NEW us \in Nat
  PROVE  BucketOf(t + us * NsPerUs, t) = bucket_for(us)
<1>1. NsPerUs \in Nat \ {0}
  BY BlockLatencyAssumption
<1>. DEFINE ns == us * NsPerUs
<1>2. ns \in Nat
  BY <1>1
<1>3. ns \div NsPerUs = us
  <2>. DEFINE q == ns \div NsPerUs
  <2>1. q \in Int /\ q * NsPerUs <= ns /\ ns < (q + 1) * NsPerUs
    BY <1>1, <1>2
  <2>. HIDE DEF q
  <2>2. q <= us
    <3>1. SUFFICES ASSUME q >= us + 1 PROVE FALSE
      BY <2>1
    <3>2. q * NsPerUs >= (us + 1) * NsPerUs
      BY <1>1, <2>1, <3>1
    <3>. QED
      BY <1>1, <2>1, <3>2
  <2>3. q >= us
    <3>1. SUFFICES ASSUME q + 1 <= us PROVE FALSE
      BY <2>1
    <3>2. (q + 1) * NsPerUs <= us * NsPerUs
      BY <1>1, <2>1, <3>1
    <3>. QED
      BY <1>1, <2>1, <3>2
  <2>. QED
    BY <2>1, <2>2, <2>3 DEF q
<1>. HIDE DEF ns
<1>4. Delta(t + ns, t) = ns
  BY <1>2 DEF Delta
<1>. QED
  BY <1>3, <1>4 DEF BucketOf, ns

\* The printed scale ends with the last threshold's double.
LEMMA ScaleEndIsShift == ScaleEnd = Shift[HIST_BUCKETS - 1]
<1>1. HIST_BUCKETS - 1 \in Nat
  BY BlockLatencyAssumption
<1>2. Shift[HIST_BUCKETS - 1] = IF HIST_BUCKETS - 1 = 0 THEN 1
                                ELSE 2 * Shift[(HIST_BUCKETS - 1) - 1]
  BY <1>1, ShiftEquation
<1>. QED
  BY <1>2 DEF ScaleEnd, bucketLabel

\* The row of a latency says what is true of it, whatever the number of
\* buckets.
LEMMA RowTrue ==
  ASSUME NEW us \in Nat
  PROVE  RowSays(bucket_for(us), us)
<1>. DEFINE b == bucket_for(us)
<1>1. /\ b \in Buckets
      /\ b > 0 => Shift[b - 1] <= us
      /\ us < Shift[HIST_BUCKETS - 1] => us < Shift[b]
      /\ us >= Shift[HIST_BUCKETS - 1] => b = HIST_BUCKETS - 1
  BY BucketByShift
<1>. HIDE DEF b
<1>2. b \in Nat /\ HIST_BUCKETS - 1 \in Nat
  BY <1>1, BlockLatencyAssumption DEF Buckets
<1>3. Shift[b] = IF b = 0 THEN 1 ELSE 2 * Shift[b - 1]
  BY <1>2, ShiftEquation
<1>4. bucketLabel(b).lo <= us
  BY <1>1, <1>2 DEF bucketLabel
<1>5. bucketLabel(b).hi = Shift[b]
  BY <1>3 DEF bucketLabel
<1>6. Shift[HIST_BUCKETS - 1] \in Nat
  BY <1>2, ShiftEquation
<1>7. ScaleEnd = Shift[HIST_BUCKETS - 1]
  BY ScaleEndIsShift
<1>8. RowSays(b, us)
  BY <1>1, <1>4, <1>5, <1>6, <1>7 DEF RowSays
<1>. QED
  BY <1>8 DEF b

\* What is counted as the latency of a request never wraps.
LEMMA OwnLatency ==
  ASSUME TypeOK, KernelInv, NEW r \in Requests, st[r] = "counted"
  PROVE  LET us == (now[r] - issuedAt[r]) \div NsPerUs
         IN  us \in Nat /\ BucketOf(now[r], issuedAt[r]) = bucket_for(us)
<1>. DEFINE ns == now[r] - issuedAt[r]
<1>1. now[r] \in Nat /\ issuedAt[r] \in Nat /\ issuedAt[r] <= now[r]
  BY BlockLatencyAssumption DEF TypeOK, Time, KernelInv, IssuedFirst, ClockRead
<1>2. Delta(now[r], issuedAt[r]) = ns /\ ns \in Nat
  BY <1>1 DEF Delta
<1>. HIDE DEF ns
<1>3. ns \div NsPerUs \in Nat
  <2>1. NsPerUs \in Nat \ {0}
    BY BlockLatencyAssumption
  <2>. DEFINE q == ns \div NsPerUs
  <2>2. q \in Int /\ ns < (q + 1) * NsPerUs
    BY <1>2, <2>1
  <2>. HIDE DEF q
  <2>3. q >= 0
    <3>1. SUFFICES ASSUME q + 1 <= 0 PROVE FALSE
      BY <2>2
    <3>2. (q + 1) * NsPerUs <= 0
      BY <2>1, <2>2, <3>1
    <3>. QED
      BY <1>2, <2>1, <2>2, <3>2
  <2>. QED
    BY <2>2, <2>3 DEF q
<1>. QED
  BY <1>2, <1>3 DEF BucketOf, ns

\* The kernel's ladder and user space's labels agree: a latency on the printed
\* scale is counted in the bucket whose label has it between its two ends, for
\* any number of buckets that the ladder serves; a longer one is in the last
\* bucket, about whose printed upper end nothing is claimed
\* (block_latency.c:64-96, loader.go:156-165).
THEOREM LabelsAgree == Spec => []LabelsMatch
<1>1. TypeOK => LabelsMatch
  <2>. SUFFICES ASSUME TypeOK, NEW us \in 0 .. 2 * ScaleEnd
                PROVE  RowSays(BucketOf(clock + us * NsPerUs, clock), us)
    BY DEF LabelsMatch
  <2>1. clock \in Nat /\ us \in Nat
    <3>1. HIST_BUCKETS - 1 \in Nat
      BY BlockLatencyAssumption
    <3>2. ScaleEnd \in Nat
      BY <3>1, ScaleEndIsShift, ShiftEquation
    <3>. QED
      BY <3>2, BlockLatencyAssumption DEF TypeOK, Time
  <2>2. BucketOf(clock + us * NsPerUs, clock) = bucket_for(us)
    BY <2>1, Measured
  <2>. QED
    BY <2>1, <2>2, RowTrue
<1>. QED
  BY <1>1, TypeCorrect, PTL
=============================================================================
