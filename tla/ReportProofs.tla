---------------------------- MODULE ReportProofs ----------------------------
(***************************************************************************)
(* The proof that the collector, reading and resetting bucket by bucket    *)
(* while probes count, implements IntervalReport.                          *)
(***************************************************************************)
EXTENDS CollectorProofs

\* Nothing is due while nothing is read.
LEMMA DueIdle ==
  ASSUME FrameKnown, coll \notin {"read", "reset", "render"}
  PROVE  Due = {} /\ Held = {r \in Requests : InHist(r)}
BY DEF FrameKnown, Due, Held, InFrame, NoBuckets

LEMMA DueHeld == Due \subseteq Held
BY DEF Due, Held, InHist

LEMMA ReportInit == CollectorInit => R!Init
<1>. SUFFICES ASSUME CollectorInit PROVE R!Init
  OBVIOUS
<1>. USE DEF CollectorInit, Init
<1>1. Mode = "off" /\ Recorded = {}
  BY DEF Mode, Recorded
<1>2. Held = {} /\ Due = {}
  BY DEF Held, Due, InFrame, InHist, NoBuckets
<1>. QED
  BY <1>1, <1>2 DEF R!Init

-----------------------------------------------------------------------------
(* Steps of the probes record requests. *)

LEMMA RecordStep ==
  ASSUME CollectorTypeOK, KernelInv, CollectorInv, KernelStep
  PROVE  [R!Next]_(R!vars)
<1>. USE DEF CollectorTypeOK, TypeOK
<1>1. UNCHANGED <<coll, bucket, buckets, failed, shown>>
  BY DEF KernelStep
<1>2. UNCHANGED Mode
  BY <1>1 DEF Mode
<1>3. ASSUME NEW r \in Requests, Count(r)
      PROVE  R!Record(r)
  <2>. DEFINE c == BucketOf(now[r], val[r])
  <2>1. Delta(now[r], val[r]) \div NsPerUs \in Int
    BY BlockLatencyAssumption DEF Delta, Time
  <2>2. c \in Buckets
    BY <2>1, BucketInRange DEF BucketOf
  <2>3. hist' = [hist EXCEPT ![c] = @ \cup {r}]
    BY <1>3 DEF Count
  <2>4. st[r] = "deleted" /\ st' = [st EXCEPT ![r] = "counted"]
    BY <1>3 DEF Count
  <2>. HIDE DEF c
  <2>5. r \notin Recorded /\ Recorded' = Recorded \cup {r}
    BY <2>4 DEF Recorded
  <2>6. Held' = Held \cup {r}
    BY <1>1, <2>2, <2>3 DEF Held, InFrame, InHist
  <2>7. Due' = Due \/ (coll = "read" /\ Due' = Due \cup {r})
    <3>1. \A q \in Requests : InFrame(q)' <=> InFrame(q)
      BY <1>1 DEF InFrame
    <3>2. CASE coll # "read"
      BY <1>1, <3>1, <3>2 DEF Due
    <3>3. CASE coll = "read" /\ c < bucket
      <4>1. \A b \in Buckets : b >= bucket => hist'[b] = hist[b]
        BY <2>2, <2>3, <3>3 DEF Buckets
      <4>. QED
        BY <1>1, <3>1, <4>1 DEF Due
    <3>4. CASE coll = "read" /\ c >= bucket
      <4>1. r \in hist'[c] /\ hist'[c] = hist[c] \cup {r}
        BY <2>2, <2>3
      <4>2. \A b \in Buckets : b # c => hist'[b] = hist[b]
        BY <2>3
      <4>. QED
        BY <1>1, <2>2, <3>1, <3>4, <4>1, <4>2 DEF Due
    <3>. QED
      BY <2>2, <3>2, <3>3, <3>4 DEF Buckets
  <2>8. coll = "read" => Mode = "draining"
    BY DEF Mode
  <2>. QED
    BY <1>1, <1>2, <2>5, <2>6, <2>7, <2>8 DEF R!Record
<1>4. ASSUME UNCHANGED hist, \A r \in Requests : ~Count(r)
      PROVE  UNCHANGED R!vars
  <2>1. UNCHANGED Recorded
    BY <1>4 DEF KernelStep, KernelNext, Tick, ProbeStep, IssueUntraced,
       IssueProbe, Issued, StoreStart, CompleteUntraced, LookupStart,
       ReadClock, LoadStart, DeleteStart, Recorded
  <2>2. UNCHANGED <<Held, Due>>
    BY <1>1, <1>4 DEF Held, Due, InFrame, InHist
  <2>. QED
    BY <1>1, <1>2, <2>1, <2>2 DEF R!vars
<1>5. (\A r \in Requests : ~Count(r)) => UNCHANGED hist
  BY DEF KernelStep, KernelNext, Tick, ProbeStep, IssueUntraced, IssueProbe,
     Issued, StoreStart, CompleteUntraced, LookupStart, ReadClock, LoadStart,
     DeleteStart
<1>. QED
  BY <1>3, <1>4, <1>5 DEF R!Next

-----------------------------------------------------------------------------
(* Steps of user space begin, drain and end rounds. *)

\* Nothing but the read and reset of buckets changes what is held or due.
LEMMA SameHeld ==
  ASSUME UNCHANGED <<hist, st, buckets>>
  PROVE  UNCHANGED <<Recorded, Held>>
BY DEF Recorded, Held, InFrame, InHist

LEMMA SetupStep ==
  ASSUME CollectorTypeOK, CollectorInv,
         LoadFails \/ LoadObjects \/ AttachLink \/ AttachFails
  PROVE  [R!Next]_(R!vars)
<1>1. UNCHANGED <<hist, st, buckets, failed, shown>>
  BY DEF LoadFails, LoadObjects, AttachLink, AttachFails, Attach, kernelVars
<1>2. coll \in {"start", "attachIssue", "attachComplete"}
      /\ coll' \in {"attachIssue", "attachComplete", "wait", "closing", "closed"}
  BY DEF LoadFails, LoadObjects, AttachLink, AttachFails
<1>3. UNCHANGED <<Recorded, Held>>
  BY <1>1, SameHeld
<1>4. Due = {} /\ Due' = {}
  BY <1>1, <1>2 DEF Due, InFrame, CollectorInv, FrameKnown, NoBuckets
<1>5. Mode = "off" /\ Mode' \in {"off", "idle", "stopped"}
  BY <1>2 DEF Mode
<1>6. CASE Mode' = "off"
  BY <1>1, <1>3, <1>4, <1>5, <1>6 DEF R!vars
<1>7. CASE Mode' = "idle"
  BY <1>1, <1>3, <1>4, <1>5, <1>7 DEF R!Next, R!Start
<1>8. CASE Mode' = "stopped"
  BY <1>1, <1>3, <1>4, <1>5, <1>8 DEF R!Next, R!Stop
<1>. QED
  BY <1>5, <1>6, <1>7, <1>8

LEMMA BeginStep ==
  ASSUME CollectorTypeOK, CollectorInv, BeginRead
  PROVE  R!Begin
<1>1. UNCHANGED <<hist, st, buckets, failed, shown>>
  BY DEF BeginRead, kernelVars, CollectorInv, FrameKnown
<1>2. UNCHANGED <<Recorded, Held>>
  BY <1>1, SameHeld
<1>3. Due' = Held
  <2>1. \A b \in Buckets : b >= 0
    BY BlockLatencyAssumption DEF Buckets
  <2>2. \A r \in Requests : ~InFrame(r) /\ ~InFrame(r)'
    BY <1>1 DEF BeginRead, InFrame, NoBuckets
  <2>3. bucket' = 0 /\ coll' = "read" /\ hist' = hist
    BY <1>1 DEF BeginRead
  <2>. QED
    BY <2>1, <2>2, <2>3 DEF Due, Held, InHist
<1>4. Mode = "idle" /\ Mode' = "draining"
  BY DEF BeginRead, Mode
<1>. QED
  BY <1>1, <1>2, <1>3, <1>4 DEF R!Begin

\* Of what is due, a read only moves it to the frame.
LEMMA ReadStep ==
  ASSUME CollectorTypeOK, CollectorInv, ReadBucket
  PROVE  UNCHANGED R!vars
<1>. USE DEF CollectorTypeOK, TypeOK
<1>. HIST_BUCKETS \in Nat /\ bucket \in Int /\ bucket \in Buckets
  BY BlockLatencyAssumption DEF Buckets
<1>1. UNCHANGED <<hist, st, failed, shown>> /\ coll = "read"
  BY DEF ReadBucket, kernelVars
<1>2. coll' \in {"read", "reset"}
  BY DEF ReadBucket, NextBucket
<1>3. UNCHANGED <<Mode, Recorded>>
  BY <1>1, <1>2 DEF Mode, Recorded
<1>4. \A r \in Requests : InFrame(r)' <=> InFrame(r) \/ r \in hist[bucket]
  <2>1. buckets[bucket] = {}
    BY <1>1 DEF CollectorInv, FrameKnown
  <2>2. buckets' = [buckets EXCEPT ![bucket] = hist[bucket]]
    BY DEF ReadBucket
  <2>. QED
    BY <2>1, <2>2 DEF InFrame
<1>5. UNCHANGED Held
  BY <1>1, <1>4 DEF Held, InHist
<1>6. Due = {r \in Requests :
               InFrame(r)' \/ \E b \in Buckets : b > bucket /\ r \in hist[b]}
  <2>1. \A b \in Buckets : b >= bucket <=> b = bucket \/ b > bucket
    BY DEF Buckets
  <2>. QED
    BY <1>1, <1>4, <2>1 DEF Due
<1>7. CASE bucket + 1 < HIST_BUCKETS
  <2>1. bucket' = bucket + 1 /\ coll' = "read"
    BY <1>1, <1>7 DEF ReadBucket, NextBucket
  <2>2. \A b \in Buckets : b >= bucket' <=> b > bucket
    BY <2>1 DEF Buckets
  <2>3. UNCHANGED Due
    BY <1>1, <1>6, <2>1, <2>2 DEF Due
  <2>. QED
    BY <1>1, <1>3, <1>5, <2>3 DEF R!vars
<1>8. CASE ~(bucket + 1 < HIST_BUCKETS)
  <2>1. coll' = "reset"
    BY <1>8 DEF ReadBucket, NextBucket
  <2>2. \A b \in Buckets : ~(b > bucket)
    BY <1>8 DEF Buckets
  <2>3. UNCHANGED Due
    BY <1>6, <2>1, <2>2 DEF Due
  <2>. QED
    BY <1>1, <1>3, <1>5, <2>3 DEF R!vars
<1>. QED
  BY <1>7, <1>8

LEMMA ReadFailsStep ==
  ASSUME CollectorTypeOK, CollectorInv, ReadFails
  PROVE  R!ReadFault
<1>1. /\ UNCHANGED <<hist, st, shown>>
      /\ failed' = failed \cup {"read"}
      /\ coll = "read" /\ coll' = "reset" /\ buckets' = NoBuckets
  BY DEF ReadFails, kernelVars
<1>2. UNCHANGED <<Mode, Recorded>>
  BY <1>1 DEF Mode, Recorded
<1>3. Due' = {} /\ Held' \subseteq Held
  BY <1>1 DEF Due, Held, InFrame, InHist, NoBuckets
<1>. QED
  BY <1>1, <1>2, <1>3 DEF R!ReadFault, Mode

\* A reset keeps what is in the frame.
LEMMA ResetStep ==
  ASSUME CollectorTypeOK, CollectorInv, ResetBucket
  PROVE  R!Drain
<1>1. UNCHANGED <<st, buckets, failed, shown>> /\ coll = "reset"
  BY DEF ResetBucket, PutZero
<1>2. coll' \in {"reset", "render"}
  BY <1>1 DEF ResetBucket, NextBucket
<1>3. Mode = "draining" /\ Mode' \in {"draining", "ready"}
  BY <1>1, <1>2 DEF Mode
<1>4. UNCHANGED <<Recorded, Due>>
  BY <1>1, <1>2 DEF Recorded, Due, InFrame
<1>5. Due \subseteq Held' /\ Held' \subseteq Held
  <2>1. \A b \in Buckets : hist'[b] \subseteq hist[b]
    BY DEF ResetBucket, PutZero, CollectorTypeOK, TypeOK
  <2>. QED
    BY <1>1, <2>1 DEF Due, Held, InFrame, InHist
<1>. QED
  BY <1>1, <1>3, <1>4, <1>5 DEF R!Drain

LEMMA ResetFailsStep ==
  ASSUME CollectorTypeOK, CollectorInv, ResetFails
  PROVE  R!ResetFault
<1>1. /\ UNCHANGED <<hist, st, buckets, shown>>
      /\ failed' = failed \cup {"reset"}
      /\ coll = "reset" /\ coll' = "render"
  BY DEF ResetFails, kernelVars
<1>2. UNCHANGED <<Recorded, Held>>
  BY <1>1, SameHeld
<1>3. UNCHANGED Due
  BY <1>1 DEF Due, InFrame
<1>. QED
  BY <1>1, <1>2, <1>3 DEF R!ResetFault, Mode

\* A frame shows what is due, which is no longer held unless a reset has failed.
LEMMA RenderStep ==
  ASSUME CollectorTypeOK, CollectorInv, Render
  PROVE  R!Report
<1>1. /\ UNCHANGED <<hist, st, failed>>
      /\ coll = "render" /\ coll' = "wait" /\ buckets' = NoBuckets
  BY DEF Render, kernelVars
<1>2. UNCHANGED Recorded
  BY <1>1 DEF Recorded
<1>3. Due = {r \in Requests : InFrame(r)} /\ Due' = {}
  BY <1>1 DEF Due, InFrame, NoBuckets
<1>4. Held' = {r \in Requests : InHist(r)}
  BY <1>1 DEF Held, InFrame, InHist, NoBuckets
<1>5. Held \ Due \subseteq Held' /\ Held' \subseteq Held
  BY <1>3, <1>4 DEF Held
<1>6. ASSUME "reset" \notin failed PROVE Held' = Held \ Due
  <2>1. Window = {}
    BY <1>1 DEF Window
  <2>2. \A r \in Requests : InFrame(r) => ~InHist(r)
    BY <1>6, <2>1 DEF CollectorInv, ReadOnce, InHist
  <2>. QED
    BY <1>3, <1>4, <2>2 DEF Held
<1>7. shown' = [r \in Requests |->
                  IF r \in Due /\ shown[r] < 2 THEN shown[r] + 1 ELSE shown[r]]
  BY <1>3 DEF Render
<1>8. Mode = "ready" /\ Mode' = "idle"
  BY <1>1 DEF Mode
<1>. QED
  BY <1>1, <1>2, <1>3, <1>5, <1>6, <1>7, <1>8 DEF R!Report

LEMMA EndStep ==
  ASSUME CollectorTypeOK, CollectorInv,
         BeginClose \/ Exit \/ CloseLink \/ CloseObjects
  PROVE  [R!Next]_(R!vars)
<1>1. UNCHANGED <<hist, st, failed, shown>> /\ coll' \in {"closing", "closed"}
  BY DEF BeginClose, Exit, CloseLink, Detach, CloseObjects, userVars, kernelVars
<1>2. UNCHANGED Recorded
  BY <1>1 DEF Recorded
<1>3. CASE coll \in {"closing", "closed"}
  <2>1. UNCHANGED buckets
    BY <1>3 DEF BeginClose, Exit, CloseLink, CloseObjects, userVars
  <2>2. UNCHANGED <<Mode, Held, Due>>
    BY <1>1, <1>3, <2>1 DEF Mode, Held, Due, InFrame, InHist
  <2>. QED
    BY <1>1, <1>2, <2>2 DEF R!vars
<1>4. CASE coll \notin {"closing", "closed"}
  <2>1. coll \in Phases /\ coll \notin {"closing", "closed"} /\ buckets' = NoBuckets
    BY <1>4 DEF CollectorTypeOK, CollectorInv, FrameKnown, BeginClose, Exit,
       CloseLink, CloseObjects
  <2>2. Mode # "stopped" /\ Mode' = "stopped"
    BY <1>1, <2>1 DEF Mode, Phases
  <2>3. Due' = {}
    BY <1>1, <2>1 DEF Due, InFrame, NoBuckets
  <2>4. Held \ Due \subseteq Held' /\ Held' \subseteq Held
    BY <1>1, <2>1 DEF Held, Due, InFrame, InHist, NoBuckets
  <2>. QED
    BY <1>1, <1>2, <2>2, <2>3, <2>4 DEF R!Next, R!Stop
<1>. QED
  BY <1>3, <1>4

LEMMA IdleStep ==
  ASSUME UNCHANGED vars
  PROVE  UNCHANGED R!vars
BY DEF vars, kernelVars, userVars, R!vars, Mode, Recorded, Held, Due, InFrame,
   InHist

LEMMA ReportStep ==
  CollectorTypeOK /\ KernelInv /\ CollectorInv /\ [CollectorNext]_vars
    => [R!Next]_(R!vars)
<1>. SUFFICES ASSUME CollectorTypeOK, KernelInv, CollectorInv,
                     [CollectorNext]_vars
              PROVE  [R!Next]_(R!vars)
  OBVIOUS
<1>1. CASE KernelStep
  BY <1>1, RecordStep
<1>2. CASE LoadFails \/ LoadObjects \/ AttachLink \/ AttachFails
  BY <1>2, SetupStep
<1>3. CASE BeginRead
  BY <1>3, BeginStep DEF R!Next
<1>4. CASE ReadBucket
  BY <1>4, ReadStep
<1>5. CASE ReadFails
  BY <1>5, ReadFailsStep DEF R!Next
<1>6. CASE ResetBucket
  BY <1>6, ResetStep DEF R!Next
<1>7. CASE ResetFails
  BY <1>7, ResetFailsStep DEF R!Next
<1>8. CASE Render
  BY <1>8, RenderStep DEF R!Next
<1>9. CASE BeginClose \/ Exit \/ CloseLink \/ CloseObjects
  BY <1>9, EndStep
<1>10. CASE UNCHANGED vars
  BY <1>10, IdleStep
<1>. QED
  BY <1>1, <1>2, <1>3, <1>4, <1>5, <1>6, <1>7, <1>8, <1>9, <1>10
     DEF CollectorNext, UserStep, LoopStep

-----------------------------------------------------------------------------
\* The collector keeps the promise of IntervalReport, for any number of buckets,
\* requests and CPUs: every tick shows what was in the histogram when it began,
\* and loses at most what was counted while it read and reset (main.go:123-128,
\* loader.go:80-111).
THEOREM CollectorImplementsReport == CollectorSpec => ReportsIntervals
<1>1. CollectorSpec => []KernelInv
  BY CollectorImplementsKernel, KernelInvariant, PTL
<1>. QED
  BY <1>1, ReportInit, ReportStep, CollectorTypeCorrect, CollectorInvariant, PTL
     DEF CollectorSpec, ReportsIntervals, R!Spec
=============================================================================
