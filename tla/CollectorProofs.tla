-------------------------- MODULE CollectorProofs --------------------------
(***************************************************************************)
(* Proofs about the collector as a whole: user space and the probes.       *)
(***************************************************************************)
EXTENDS Collector, BlockLatencyProofs

-----------------------------------------------------------------------------
(* The collector implements the kernel half: whatever user space does, what *)
(* was proved of the probes and their maps holds.                           *)

LEMMA UserStepsAreKernelSteps ==
  ASSUME CollectorTypeOK, [CollectorNext]_vars
  PROVE  [Next]_kernelVars
<1>1. CASE KernelStep
  BY <1>1 DEF KernelStep, Next
<1>2. CASE AttachLink \/ CloseLink
  BY <1>2 DEF AttachLink, CloseLink, Next, UserNext
<1>3. CASE ResetBucket
  BY <1>3 DEF ResetBucket, Next, UserNext, CollectorTypeOK
<1>4. CASE LoadFails \/ LoadObjects \/ AttachFails \/ BeginRead \/ ReadBucket
  BY <1>4 DEF LoadFails, LoadObjects, AttachFails, BeginRead, ReadBucket
<1>5. CASE ReadFails \/ ResetFails \/ Render \/ BeginClose \/ Exit \/ CloseObjects
  BY <1>5 DEF ReadFails, ResetFails, Render, BeginClose, Exit, CloseObjects
<1>6. CASE UNCHANGED vars
  BY <1>6 DEF vars
<1>. QED
  BY <1>1, <1>2, <1>3, <1>4, <1>5, <1>6 DEF CollectorNext, UserStep, LoopStep

\* The buckets that were read and not yet reset are buckets of the histogram.
LEMMA WindowType ==
  ASSUME CollectorTypeOK
  PROVE  Window \subseteq Buckets
<1>1. HIST_BUCKETS \in Nat /\ bucket \in Int
  BY BlockLatencyAssumption DEF CollectorTypeOK, Buckets
<1>. QED
  BY <1>1 DEF CollectorTypeOK, Buckets, Window

LEMMA CollectorTypeInit == CollectorInit => CollectorTypeOK
<1>. SUFFICES ASSUME CollectorInit PROVE CollectorTypeOK
  OBVIOUS
<1>1. TypeOK
  BY TypeInit DEF CollectorInit
<1>2. 0 \in Buckets
  BY BlockLatencyAssumption DEF Buckets
<1>3. NoBuckets \in [Buckets -> SUBSET Requests]
  BY DEF NoBuckets
<1>4. shown \in [Requests -> 0 .. 2]
  BY DEF CollectorInit
<1>5. coll \in Phases /\ failed \in SUBSET {"read", "reset"}
  BY DEF CollectorInit, Phases
<1>. QED
  BY <1>1, <1>2, <1>3, <1>4, <1>5 DEF CollectorInit, CollectorTypeOK

LEMMA CollectorTypeStep ==
  CollectorTypeOK /\ [CollectorNext]_vars => CollectorTypeOK'
<1>. SUFFICES ASSUME CollectorTypeOK, [CollectorNext]_vars
              PROVE  CollectorTypeOK'
  OBVIOUS
<1>1. TypeOK'
  BY UserStepsAreKernelSteps, TypeStep DEF CollectorTypeOK
<1>. USE DEF CollectorTypeOK, Phases
<1>2. 0 \in Buckets
  BY BlockLatencyAssumption DEF Buckets
<1>3. ASSUME NEW after \in Phases, NextBucket(after)
      PROVE  bucket' \in Buckets /\ coll' \in Phases
  BY <1>2, <1>3, BlockLatencyAssumption DEF NextBucket, Buckets
<1>4. CASE KernelStep
  <2>1. hist' \in [Buckets -> SUBSET Requests]
    BY <1>1 DEF TypeOK
  <2>2. \A b \in Window : hist'[b] \ hist[b] \subseteq Requests
    BY <2>1, WindowType
  <2>3. unseen' \subseteq Requests /\ again' = again
    BY <1>4, <2>2 DEF KernelStep
  <2>. QED
    BY <1>1, <1>4, <2>3 DEF KernelStep
<1>5. CASE LoadFails \/ LoadObjects \/ AttachLink \/ AttachFails
  BY <1>1, <1>5 DEF LoadFails, LoadObjects, AttachLink, AttachFails
<1>6. CASE BeginRead \/ ReadFails \/ ResetFails
  BY <1>1, <1>2, <1>6 DEF BeginRead, ReadFails, ResetFails, NoBuckets
<1>7. CASE ReadBucket \/ ResetBucket
  BY <1>1, <1>3, <1>7 DEF ReadBucket, ResetBucket, TypeOK
<1>8. CASE Render
  BY <1>1, <1>8 DEF Render, NoBuckets
<1>9. CASE BeginClose \/ Exit \/ CloseLink \/ CloseObjects
  BY <1>1, <1>9 DEF BeginClose, Exit, CloseLink, CloseObjects, userVars,
     NoBuckets
<1>10. CASE UNCHANGED vars
  BY <1>1, <1>10 DEF vars, userVars
<1>. QED
  BY <1>4, <1>5, <1>6, <1>7, <1>8, <1>9, <1>10
     DEF CollectorNext, UserStep, LoopStep

\* Every variable keeps its type, and the loop index stays in the histogram.
THEOREM CollectorTypeCorrect == CollectorSpec => []CollectorTypeOK
BY CollectorTypeInit, CollectorTypeStep, PTL DEF CollectorSpec

\* The collector implements the specification of the kernel half.
THEOREM CollectorImplementsKernel == CollectorSpec => Spec
<1>1. CollectorInit => Init
  BY DEF CollectorInit
<1>2. CollectorTypeOK /\ [CollectorNext]_vars => [Next]_kernelVars
  BY UserStepsAreKernelSteps
<1>. QED
  BY <1>1, <1>2, CollectorTypeInit, CollectorTypeStep, PTL
     DEF CollectorSpec, Spec

-----------------------------------------------------------------------------
(* What a step of the kernel can do to what user space relies on. *)

LEMMA KernelSteps ==
  ASSUME CollectorTypeOK, KernelInv, KernelStep
  PROVE  /\ UNCHANGED <<links, coll, objs, bucket, buckets, failed, again, shown>>
         /\ \A b \in Buckets : hist[b] \subseteq hist'[b]
         /\ \A b \in Buckets : \A r \in hist'[b] \ hist[b] :
              st[r] # "counted" /\ st'[r] = "counted"
         /\ \A b, c \in Buckets : b # c =>
              (hist'[b] \ hist[b]) \cap (hist'[c] \ hist[c]) = {}
<1>. USE DEF CollectorTypeOK, TypeOK
<1>0. [Next]_kernelVars
  BY DEF KernelStep, Next
<1>1. UNCHANGED links
  <2>1. ASSUME NEW r \in Requests, ProbeStep(r) PROVE UNCHANGED links
    BY <2>1 DEF ProbeStep, IssueUntraced, IssueProbe, Issued, StoreStart,
       CompleteUntraced, LookupStart, ReadClock, LoadStart, DeleteStart, Count
  <2>. QED
    BY <2>1 DEF KernelStep, KernelNext, Tick
<1>2. ASSUME NEW b \in Buckets PROVE hist[b] \subseteq hist'[b]
  <2>1. ASSUME NEW r \in Requests, Count(r) PROVE hist[b] \subseteq hist'[b]
    <3>. DEFINE c == BucketOf(now[r], val[r])
    <3>1. hist' = [hist EXCEPT ![c] = @ \cup {r}]
      BY <2>1 DEF Count
    <3>. HIDE DEF c
    <3>. QED  BY <3>1
  <2>2. ASSUME NEW r \in Requests, ProbeStep(r), ~Count(r)
        PROVE  UNCHANGED hist
    BY <2>2 DEF ProbeStep, IssueUntraced, IssueProbe, Issued, StoreStart,
       CompleteUntraced, LookupStart, ReadClock, LoadStart, DeleteStart
  <2>. QED
    BY <2>1, <2>2 DEF KernelStep, KernelNext, Tick
<1>3. ASSUME NEW b \in Buckets, NEW r \in hist'[b] \ hist[b]
      PROVE  /\ st[r] # "counted" /\ st'[r] = "counted"
             /\ b = BucketOf(now[r], val[r])
  BY <1>0, HistSteps DEF Count
<1>. QED
  BY <1>1, <1>2, <1>3 DEF KernelStep

-----------------------------------------------------------------------------
(* CollectorInv is inductive. *)

LEMMA HoldsStep ==
  CollectorTypeOK /\ KernelInv /\ Holds /\ [CollectorNext]_vars => Holds'
<1>. SUFFICES ASSUME CollectorTypeOK, KernelInv, Holds, [CollectorNext]_vars
              PROVE  Holds'
  OBVIOUS
<1>. USE DEF Holds, Ticking
<1>1. CASE KernelStep
  BY <1>1, KernelSteps
<1>2. CASE LoadFails \/ LoadObjects \/ AttachLink \/ AttachFails
  BY <1>2 DEF LoadFails, LoadObjects, AttachLink, AttachFails, Attach,
     kernelVars
<1>3. CASE LoopStep \/ ReadFails \/ ResetFails
  BY <1>3 DEF LoopStep, BeginRead, ReadBucket, ResetBucket, Render, ReadFails,
     ResetFails, NextBucket, PutZero, kernelVars
<1>4. CASE BeginClose \/ Exit \/ CloseLink \/ CloseObjects
  <2>1. CASE CloseObjects
    BY <2>1 DEF CloseObjects, kernelVars, IssueOn, CompleteOn,
       CollectorTypeOK, TypeOK, Links
  <2>2. CASE BeginClose \/ Exit \/ CloseLink
    BY <2>2 DEF BeginClose, Exit, CloseLink, userVars
  <2>. QED
    BY <1>4, <2>1, <2>2
<1>5. CASE UNCHANGED vars
  BY <1>5 DEF vars, userVars, kernelVars
<1>. QED
  BY <1>1, <1>2, <1>3, <1>4, <1>5 DEF CollectorNext, UserStep

LEMMA ReleasedStep ==
  CollectorTypeOK /\ KernelInv /\ Holds /\ Released /\ [CollectorNext]_vars
    => Released'
<1>. SUFFICES ASSUME CollectorTypeOK, KernelInv, Holds, Released,
                     [CollectorNext]_vars
              PROVE  Released'
  OBVIOUS
<1>. USE DEF Released, IssueOn, CompleteOn
<1>1. CASE KernelStep
  BY <1>1, KernelSteps
<1>2. CASE LoadFails \/ LoadObjects \/ AttachLink \/ AttachFails
  BY <1>2 DEF LoadFails, LoadObjects, AttachLink, AttachFails, Attach,
     kernelVars, Holds
<1>3. CASE LoopStep \/ ReadFails \/ ResetFails
  BY <1>3 DEF LoopStep, BeginRead, ReadBucket, ResetBucket, Render, ReadFails,
     ResetFails, NextBucket, PutZero, kernelVars
<1>4. CASE BeginClose \/ Exit \/ CloseLink \/ CloseObjects
  BY <1>4 DEF BeginClose, Exit, CloseLink, Detach, CloseObjects, userVars,
     kernelVars
<1>5. CASE UNCHANGED vars
  BY <1>5 DEF vars, userVars, kernelVars
<1>. QED
  BY <1>1, <1>2, <1>3, <1>4, <1>5 DEF CollectorNext, UserStep

\* What the frame holds of one request.
LEMMA FrameStep ==
  ASSUME CollectorTypeOK, KernelInv, ExactSamples, Holds, FrameKnown,
         [CollectorNext]_vars,
         NEW b \in Buckets, NEW r \in buckets'[b]
  PROVE  st'[r] = "counted" /\ (Clean(r)' => b = BucketOf(now'[r], issuedAt'[r]))
<1>. USE DEF CollectorTypeOK, TypeOK
<1>1. CASE r \in buckets[b]
  <2>1. /\ r \in Requests /\ st[r] = "counted"
        /\ Clean(r) => b = BucketOf(now[r], issuedAt[r])
    BY <1>1 DEF FrameKnown
  <2>2. Clean(r)' => Clean(r)
    BY UserStepsAreKernelSteps, AliasSteps DEF Clean, KeyOf
  <2>. QED
    BY <2>1, <2>2, CountedKept, UserStepsAreKernelSteps
<1>2. CASE r \notin buckets[b]
  <2>1. ReadBucket
    <3>1. CASE KernelStep
      BY <1>2, <3>1 DEF KernelStep
    <3>2. CASE LoadFails \/ LoadObjects \/ AttachLink \/ AttachFails
               \/ ResetBucket \/ ResetFails \/ BeginClose \/ CloseLink
               \/ CloseObjects \/ UNCHANGED vars
      BY <1>2, <3>2 DEF LoadFails, LoadObjects, AttachLink, AttachFails,
         ResetBucket, ResetFails, BeginClose, CloseLink, CloseObjects, userVars,
         vars
    <3>3. CASE BeginRead \/ ReadFails \/ Render \/ Exit
      BY <3>3 DEF BeginRead, ReadFails, Render, Exit, NoBuckets
    <3>. QED
      BY <3>1, <3>2, <3>3 DEF CollectorNext, UserStep, LoopStep
  <2>2. b = bucket /\ r \in hist[b] /\ UNCHANGED kernelVars
    BY <1>2, <2>1 DEF ReadBucket
  <2>3. Open
    BY <2>1 DEF ReadBucket, Holds, Ticking, Open
  <2>. QED
    BY <2>2, <2>3 DEF KernelInv, OnlyCounted, ExactSamples, kernelVars, Clean,
       KeyOf
<1>. QED
  BY <1>1, <1>2

LEMMA FrameKnownStep ==
  CollectorTypeOK /\ KernelInv /\ ExactSamples /\ Holds /\ FrameKnown
    /\ [CollectorNext]_vars => FrameKnown'
<1>. SUFFICES ASSUME CollectorTypeOK, KernelInv, ExactSamples, Holds,
                     FrameKnown, [CollectorNext]_vars
              PROVE  FrameKnown'
  OBVIOUS
<1>1. \A b \in Buckets : \A r \in buckets'[b] :
        st'[r] = "counted" /\ (Clean(r)' => b = BucketOf(now'[r], issuedAt'[r]))
  BY FrameStep
<1>2. /\ coll' \notin {"read", "reset", "render"} => buckets' = NoBuckets
      /\ coll' = "read" => \A b \in Buckets :
           IF b < bucket' THEN buckets'[b] \subseteq hist'[b] ELSE buckets'[b] = {}
  <2>. USE DEF FrameKnown, NoBuckets
  <2>1. CASE KernelStep
    <3>1. UNCHANGED <<coll, bucket, buckets>>
      BY <2>1 DEF KernelStep
    <3>2. \A b \in Buckets : hist[b] \subseteq hist'[b]
      BY <2>1, KernelSteps
    <3>. QED
      BY <3>1, <3>2
  <2>2. CASE LoadFails \/ LoadObjects \/ AttachLink \/ AttachFails
    BY <2>2 DEF LoadFails, LoadObjects, AttachLink, AttachFails
  <2>3. CASE BeginRead \/ ReadFails \/ ResetFails \/ Render
    BY <2>3, BlockLatencyAssumption
       DEF Buckets, BeginRead, ReadFails, ResetFails, Render
  <2>4. CASE ReadBucket
    BY <2>4, BlockLatencyAssumption
       DEF ReadBucket, NextBucket, CollectorTypeOK, TypeOK, Buckets, kernelVars
  <2>5. CASE ResetBucket
    BY <2>5 DEF ResetBucket, NextBucket
  <2>6. CASE BeginClose \/ Exit \/ CloseLink \/ CloseObjects
    BY <2>6 DEF BeginClose, Exit, CloseLink, CloseObjects, userVars
  <2>7. CASE UNCHANGED vars
    BY <2>7 DEF vars, userVars, kernelVars
  <2>. QED
    BY <2>1, <2>2, <2>3, <2>4, <2>5, <2>6, <2>7
       DEF CollectorNext, UserStep, LoopStep
<1>. QED
  BY <1>1, <1>2 DEF FrameKnown, Clean, KeyOf, BucketOf, bucket_for, Delta

LEMMA CountedOnceStep ==
  CollectorTypeOK /\ KernelInv /\ FrameKnown /\ CountedOnce
    /\ [CollectorNext]_vars => CountedOnce'
<1>. SUFFICES ASSUME CollectorTypeOK, KernelInv, FrameKnown, CountedOnce,
                     [CollectorNext]_vars
              PROVE  CountedOnce'
  OBVIOUS
<1>. USE DEF CollectorTypeOK, TypeOK
<1>1. ASSUME NEW b \in Buckets, NEW c \in Buckets, b # c
      PROVE  hist'[b] \cap hist'[c] = {}
  <2>1. CASE KernelStep
    <3>1. \A d \in Buckets : \A r \in hist[d] : st[r] = "counted"
      BY DEF KernelInv, OnlyCounted
    <3>2. /\ hist[b] \cap hist[c] = {}
          /\ (hist'[b] \ hist[b]) \cap (hist'[c] \ hist[c]) = {}
      BY <1>1, <2>1, KernelSteps DEF CountedOnce
    <3>3. (hist'[b] \ hist[b]) \cap hist[c] = {}
      BY <2>1, <3>1, KernelSteps
    <3>4. (hist'[c] \ hist[c]) \cap hist[b] = {}
      BY <2>1, <3>1, KernelSteps
    <3>. QED
      BY <3>2, <3>3, <3>4
  <2>2. CASE ResetBucket
    BY <1>1, <2>2 DEF ResetBucket, PutZero, CountedOnce
  <2>3. CASE UNCHANGED hist
    BY <1>1, <2>3 DEF CountedOnce
  <2>. QED
    BY <2>1, <2>2, <2>3 DEF CollectorNext, UserStep, LoopStep, LoadFails,
       LoadObjects, AttachLink, AttachFails, Attach, BeginRead, ReadBucket,
       ReadFails, ResetFails, Render, BeginClose, Exit, CloseLink, Detach,
       CloseObjects, kernelVars, vars
<1>2. ASSUME NEW r \in Requests, shown'[r] > 0
      PROVE  st'[r] = "counted"
  <2>1. st[r] = "counted"
    <3>1. CASE Render
      BY <1>2, <3>1 DEF Render, InFrame, FrameKnown, CountedOnce
    <3>2. CASE UNCHANGED shown
      BY <1>2, <3>2 DEF CountedOnce
    <3>. QED
      BY <3>1, <3>2 DEF CollectorNext, KernelStep, UserStep, LoopStep,
         LoadFails, LoadObjects, AttachLink, AttachFails, BeginRead,
         ReadBucket, ReadFails, ResetBucket, ResetFails, BeginClose, Exit,
         CloseLink, CloseObjects, userVars, vars
  <2>. QED
    BY <2>1, CountedKept, UserStepsAreKernelSteps
<1>. QED
  BY <1>1, <1>2 DEF CountedOnce

LEMMA WipesKnownStep ==
  CollectorTypeOK /\ KernelInv /\ WipesKnown /\ [CollectorNext]_vars
    => WipesKnown'
<1>. SUFFICES ASSUME CollectorTypeOK, KernelInv, WipesKnown,
                     [CollectorNext]_vars, NEW b \in Window'
              PROVE  hist'[b] \subseteq buckets'[b] \cup unseen'
  BY DEF WipesKnown
<1>. USE DEF CollectorTypeOK, TypeOK
<1>. HIST_BUCKETS \in Nat /\ bucket \in Int
  BY BlockLatencyAssumption DEF Buckets
<1>1. CASE KernelStep
  <2>1. b \in Window /\ b \in Buckets
    BY <1>1, WindowType DEF KernelStep, Window
  <2>2. hist[b] \subseteq buckets[b] \cup unseen
    BY <2>1 DEF WipesKnown
  <2>3. hist'[b] \ hist[b] \subseteq unseen' /\ unseen \subseteq unseen'
    BY <1>1, <2>1 DEF KernelStep
  <2>. QED
    BY <1>1, <2>2, <2>3 DEF KernelStep
<1>2. CASE ReadBucket
  <2>1. UNCHANGED <<kernelVars, unseen>>
    BY <1>2 DEF ReadBucket
  <2>2. b \in Buckets /\ (b \in Window \/ b = bucket)
    BY <1>2 DEF ReadBucket, NextBucket, Window, Buckets
  <2>. QED
    BY <1>2, <2>1, <2>2 DEF ReadBucket, WipesKnown, kernelVars
<1>3. CASE ResetBucket
  <2>1. b \in Window /\ b # bucket
    BY <1>3 DEF ResetBucket, NextBucket, Window, Buckets
  <2>. QED
    BY <1>3, <2>1, WindowType DEF ResetBucket, PutZero, WipesKnown
<1>4. CASE BeginRead
  BY <1>4 DEF BeginRead, Window
<1>5. CASE ReadFails
  BY <1>5, WindowType DEF ReadFails, InHist, Window, Buckets, kernelVars
<1>6. CASE LoadFails \/ LoadObjects \/ AttachLink \/ AttachFails
  BY <1>6 DEF LoadFails, LoadObjects, AttachLink, AttachFails, Window
<1>7. CASE ResetFails \/ Render \/ BeginClose \/ Exit \/ CloseObjects
  BY <1>7 DEF ResetFails, Render, BeginClose, Exit, CloseObjects, Window
<1>8. CASE CloseLink \/ UNCHANGED vars
  BY <1>8 DEF CloseLink, Detach, WipesKnown, Window, userVars, vars, kernelVars
<1>. QED
  BY <1>1, <1>2, <1>3, <1>4, <1>5, <1>6, <1>7, <1>8
     DEF CollectorNext, UserStep, LoopStep

LEMMA LostStep ==
  CollectorTypeOK /\ KernelInv /\ WipesKnown /\ FrameKnown /\ LostOnlyInWindow
    /\ [CollectorNext]_vars => LostOnlyInWindow'
<1>. SUFFICES ASSUME CollectorTypeOK, KernelInv, WipesKnown, FrameKnown,
                     LostOnlyInWindow, [CollectorNext]_vars,
                     Running', NEW r \in Requests, st'[r] = "counted"
              PROVE  \/ shown'[r] > 0 \/ InFrame(r)' \/ InHist(r)'
                     \/ r \in unseen'
  BY DEF LostOnlyInWindow
<1>. USE DEF CollectorTypeOK, TypeOK
<1>1. Running
  BY DEF Running, CollectorNext, KernelStep, UserStep, LoopStep, LoadFails,
     LoadObjects, AttachLink, AttachFails, BeginRead, ReadBucket, ReadFails,
     ResetBucket, ResetFails, NextBucket, Render, BeginClose, Exit, CloseLink,
     CloseObjects, userVars, vars
<1>. DEFINE Kept == shown[r] > 0 \/ InFrame(r) \/ InHist(r) \/ r \in unseen
<1>2. st[r] = "counted" => Kept
  BY <1>1 DEF LostOnlyInWindow
<1>3. CASE KernelStep
  <2>1. CASE st[r] = "counted"
    BY <1>2, <1>3, <2>1, KernelSteps DEF KernelStep, InFrame, InHist
  <2>2. CASE st[r] # "counted"
    <3>1. Count(r)
      BY <1>3, <2>2 DEF KernelStep, KernelNext, Tick, ProbeStep, IssueUntraced,
         IssueProbe, Issued, StoreStart, CompleteUntraced, LookupStart,
         ReadClock, LoadStart, DeleteStart, Count
    <3>2. Delta(now[r], val[r]) \div NsPerUs \in Int
      BY BlockLatencyAssumption DEF Delta, Time
    <3>3. BucketOf(now[r], val[r]) \in Buckets
      BY <3>2, BucketInRange DEF BucketOf
    <3>4. r \in hist'[BucketOf(now[r], val[r])]
      BY <3>1, <3>3 DEF Count
    <3>. QED
      BY <3>3, <3>4 DEF InHist
  <2>. QED
    BY <2>1, <2>2
<1>4. CASE ResetBucket
  <2>1. st[r] = "counted" /\ UNCHANGED <<buckets, shown, unseen>>
    BY <1>4 DEF ResetBucket, PutZero
  <2>2. bucket \in Window
    BY <1>4, BlockLatencyAssumption DEF ResetBucket, Window, Buckets
  <2>3. hist[bucket] \subseteq buckets[bucket] \cup unseen
    BY <1>1, <2>2 DEF WipesKnown
  <2>4. \A b \in Buckets : b # bucket => hist'[b] = hist[b]
    BY <1>4 DEF ResetBucket, PutZero
  <2>. QED
    BY <1>2, <2>1, <2>3, <2>4 DEF InFrame, InHist
<1>5. CASE ReadBucket
  <2>1. UNCHANGED <<kernelVars, shown, unseen>> /\ coll = "read"
    BY <1>5 DEF ReadBucket
  <2>2. buckets[bucket] = {}
    BY <2>1, BlockLatencyAssumption DEF FrameKnown, Buckets
  <2>3. InFrame(r) => InFrame(r)'
    BY <1>5, <2>2 DEF ReadBucket, InFrame
  <2>. QED
    BY <1>2, <2>1, <2>3 DEF kernelVars, InHist
<1>6. CASE Render
  BY <1>2, <1>6 DEF Render, kernelVars, InHist
<1>7. CASE BeginRead
  BY <1>2, <1>7 DEF BeginRead, kernelVars, InHist, InFrame, FrameKnown
<1>8. CASE LoadFails \/ LoadObjects \/ AttachLink \/ AttachFails
  BY <1>2, <1>8 DEF LoadFails, LoadObjects, AttachLink, AttachFails, Attach,
     kernelVars, InHist, InFrame
<1>9. CASE ReadFails
  <2>1. CASE shown[r] > 0 \/ InHist(r) \/ r \in unseen
    BY <1>9, <2>1 DEF ReadFails, kernelVars, InHist
  <2>2. CASE InFrame(r)
    <3>1. InHist(r)
      BY <1>9, <2>2, BlockLatencyAssumption
         DEF ReadFails, FrameKnown, InFrame, InHist, Buckets
    <3>. QED
      BY <1>9, <3>1 DEF ReadFails
  <2>. QED
    BY <1>2, <1>9, <2>1, <2>2 DEF ReadFails, kernelVars
<1>10. CASE ResetFails
  BY <1>2, <1>10 DEF ResetFails, kernelVars, InHist, InFrame
<1>11. CASE BeginClose \/ Exit \/ CloseLink \/ CloseObjects
  BY <1>1, <1>11 DEF BeginClose, Exit, CloseLink, CloseObjects, Running
<1>12. CASE UNCHANGED vars
  BY <1>2, <1>12 DEF vars, userVars, kernelVars, InHist, InFrame
<1>. QED
  BY <1>3, <1>4, <1>5, <1>6, <1>7, <1>8, <1>9, <1>10,
     <1>11, <1>12
     DEF CollectorNext, UserStep, LoopStep

LEMMA ReadOnceStep ==
  CollectorTypeOK /\ KernelInv /\ FrameKnown /\ CountedOnce /\ ReadOnce
    /\ [CollectorNext]_vars => ReadOnce'
<1>. SUFFICES ASSUME CollectorTypeOK, KernelInv, FrameKnown, CountedOnce,
                     ReadOnce, [CollectorNext]_vars
              PROVE  ReadOnce'
  OBVIOUS
<1>0. "reset" \notin failed' => again' = {}
  BY DEF ReadOnce, CollectorNext, KernelStep, UserStep, LoopStep, LoadFails,
     LoadObjects, AttachLink, AttachFails, BeginRead, ReadBucket, ReadFails,
     ResetBucket, ResetFails, Render, BeginClose, Exit, CloseLink,
     CloseObjects, userVars, vars
<1>. SUFFICES ASSUME NEW r \in Requests, r \notin again'
              PROVE  /\ shown'[r] > 0 => ~InFrame(r)' /\ ~InHist(r)'
                     /\ InFrame(r)' => \A b \in Buckets :
                          r \in hist'[b] => b \in Window'
  BY <1>0 DEF ReadOnce
<1>. USE DEF CollectorTypeOK, TypeOK
<1>. HIST_BUCKETS \in Nat /\ bucket \in Int
  BY BlockLatencyAssumption DEF Buckets
<1>1. r \notin again
  BY DEF CollectorNext, KernelStep, UserStep, LoopStep, LoadFails,
     LoadObjects, AttachLink, AttachFails, BeginRead, ReadBucket, ReadFails,
     ResetBucket, ResetFails, Render, BeginClose, Exit, CloseLink,
     CloseObjects, userVars, vars
<1>2. /\ shown[r] > 0 => ~InFrame(r) /\ ~InHist(r)
      /\ InFrame(r) => \A b \in Buckets : r \in hist[b] => b \in Window
  BY <1>1 DEF ReadOnce
<1>3. CASE KernelStep
  <2>1. (shown[r] > 0 \/ InFrame(r)) => st[r] = "counted"
    BY DEF InFrame, FrameKnown, CountedOnce
  <2>2. st[r] = "counted" => \A b \in Buckets : r \in hist'[b] => r \in hist[b]
    BY <1>3, KernelSteps
  <2>. QED
    BY <1>2, <1>3, <2>1, <2>2 DEF KernelStep, InFrame, InHist, Window
<1>4. CASE ReadBucket
  <2>1. UNCHANGED <<kernelVars, shown>>
    BY <1>4 DEF ReadBucket
  <2>2. \A b \in Buckets : r \in buckets'[b] =>
          r \in buckets[b] \/ (b = bucket /\ r \in hist[bucket])
    BY <1>4 DEF ReadBucket
  <2>3. Window \subseteq Window' /\ bucket \in Window'
    BY <1>4 DEF ReadBucket, NextBucket, Window, Buckets
  <2>4. r \in hist[bucket] => \A b \in Buckets : r \in hist[b] => b = bucket
    BY DEF CountedOnce
  <2>. QED
    BY <1>2, <2>1, <2>2, <2>3, <2>4 DEF InFrame, InHist, kernelVars
<1>5. CASE ResetBucket
  <2>1. UNCHANGED <<buckets, shown>>
    BY <1>5 DEF ResetBucket
  <2>2. \A b \in Buckets : r \in hist'[b] => r \in hist[b] /\ b # bucket
    BY <1>5 DEF ResetBucket, PutZero
  <2>3. \A b \in Window : b # bucket => b \in Window'
    BY <1>5 DEF ResetBucket, NextBucket, Window, Buckets
  <2>. QED
    BY <1>2, <2>1, <2>2, <2>3 DEF InFrame, InHist
<1>6. CASE Render
  <2>1. Window = {} /\ UNCHANGED kernelVars /\ ~InFrame(r)'
    BY <1>6 DEF Render, Window, InFrame, NoBuckets
  <2>. QED
    BY <1>2, <1>6, <2>1 DEF Render, InHist, kernelVars
<1>7. CASE BeginRead \/ ReadFails \/ Exit
  <2>1. UNCHANGED <<kernelVars, shown>> /\ ~InFrame(r)'
    BY <1>7 DEF BeginRead, ReadFails, Exit, InFrame, NoBuckets
  <2>. QED
    BY <1>2, <2>1 DEF InHist, kernelVars
<1>8. CASE ResetFails
  <2>1. UNCHANGED <<kernelVars, buckets, shown>> /\ ~(InFrame(r) /\ InHist(r))
    BY <1>8 DEF ResetFails
  <2>. QED
    BY <1>2, <2>1 DEF InFrame, InHist, kernelVars
<1>9. CASE LoadFails \/ LoadObjects \/ AttachLink \/ AttachFails
           \/ BeginClose \/ CloseLink \/ CloseObjects
  <2>1. UNCHANGED <<hist, buckets, shown>> /\ Window = {}
    BY <1>9 DEF LoadFails, LoadObjects, AttachLink, AttachFails, Attach,
       BeginClose, CloseLink, Detach, CloseObjects, userVars, kernelVars, Window
  <2>. QED
    BY <1>2, <2>1 DEF InFrame, InHist
<1>10. CASE UNCHANGED vars
  BY <1>2, <1>10 DEF vars, userVars, kernelVars, InFrame, InHist, Window
<1>. QED
  BY <1>3, <1>4, <1>5, <1>6, <1>7, <1>8, <1>9, <1>10
     DEF CollectorNext, UserStep, LoopStep

LEMMA ShownOnceStep ==
  CollectorTypeOK /\ ReadOnce /\ ShownOnce /\ [CollectorNext]_vars => ShownOnce'
<1>. SUFFICES ASSUME CollectorTypeOK, ReadOnce, ShownOnce, [CollectorNext]_vars
              PROVE  ShownOnce'
  OBVIOUS
<1>. USE DEF CollectorTypeOK, ShownOnce
<1>1. CASE Render
  BY <1>1 DEF Render, ReadOnce
<1>2. CASE UNCHANGED shown /\ again \subseteq again'
  BY <1>2
<1>. QED
  BY <1>1, <1>2 DEF CollectorNext, KernelStep, UserStep, LoopStep, LoadFails,
     LoadObjects, AttachLink, AttachFails, BeginRead, ReadBucket, ReadFails,
     ResetBucket, ResetFails, BeginClose, Exit, CloseLink, CloseObjects,
     userVars, vars

LEMMA CollectorInvInit == CollectorInit => CollectorInv
<1>. SUFFICES ASSUME CollectorInit PROVE CollectorInv
  OBVIOUS
<1>. USE DEF CollectorInit, Init
<1>1. Holds /\ Released
  BY DEF Holds, Released, Ticking, IssueOn, CompleteOn
<1>2. FrameKnown
  BY DEF FrameKnown, NoBuckets
<1>3. CountedOnce /\ ShownOnce
  BY DEF CountedOnce, ShownOnce
<1>4. ReadOnce /\ WipesKnown /\ LostOnlyInWindow
  BY DEF ReadOnce, WipesKnown, LostOnlyInWindow, InFrame, InHist, NoBuckets,
     Window
<1>. QED
  BY <1>1, <1>2, <1>3, <1>4 DEF CollectorInv

LEMMA CollectorInvStep ==
  CollectorTypeOK /\ KernelInv /\ ExactSamples /\ CollectorInv
    /\ [CollectorNext]_vars => CollectorInv'
BY HoldsStep, ReleasedStep, FrameKnownStep, CountedOnceStep, ReadOnceStep,
   WipesKnownStep, ShownOnceStep, LostStep DEF CollectorInv

\* CollectorInv is an invariant of user space and the probes together.
THEOREM CollectorInvariant == CollectorSpec => []CollectorInv
<1>1. CollectorSpec => [](KernelInv /\ ExactSamples)
  BY CollectorImplementsKernel, KernelInvariant, SamplesExact, PTL
<1>. QED
  BY <1>1, CollectorTypeCorrect, CollectorInvInit, CollectorInvStep, PTL
     DEF CollectorSpec

-----------------------------------------------------------------------------
(* What the frames promise, for any histogram size and any requests. *)

\* Every frame shows the latencies of requests with a key of their own in the
\* right buckets.
THEOREM FramesExact == CollectorSpec => []FrameExact
<1>1. CollectorInv => FrameExact
  BY DEF CollectorInv, FrameKnown, FrameExact
<1>. QED
  BY <1>1, CollectorInvariant, PTL

\* The label of every row has the latency of the requests it stands for between
\* its two ends, but for latencies beyond the whole printed scale: of those it
\* is only claimed that they are in the last row (loader.go:156-165,
\* block_latency.c:95).
THEOREM FramesLabelled == CollectorSpec => []LabelsTrue
<1>1. CollectorTypeOK /\ KernelInv /\ CollectorInv => LabelsTrue
  <2>. SUFFICES ASSUME CollectorTypeOK, KernelInv, CollectorInv,
                       NEW b \in Buckets, NEW r \in buckets[b],
                       r \in Requests, Clean(r)
                PROVE  RowSays(b, (now[r] - issuedAt[r]) \div NsPerUs)
    BY DEF LabelsTrue, CollectorTypeOK
  <2>. DEFINE us == (now[r] - issuedAt[r]) \div NsPerUs
  <2>1. st[r] = "counted" /\ b = BucketOf(now[r], issuedAt[r])
    BY DEF CollectorInv, FrameKnown
  <2>2. us \in Nat /\ b = bucket_for(us)
    BY <2>1, OwnLatency DEF CollectorTypeOK
  <2>. HIDE DEF us
  <2>3. RowSays(b, us)
    BY <2>2, RowTrue
  <2>. QED
    BY <2>3 DEF us
<1>2. CollectorSpec => []KernelInv
  BY CollectorImplementsKernel, KernelInvariant, PTL
<1>. QED
  BY <1>1, <1>2, CollectorTypeCorrect, CollectorInvariant, PTL

\* Only a request that a failed reset has left in the histogram, its frame
\* already read, is ever shown twice; no other reset and no other tick is
\* affected by the failure (main.go:123-128, loader.go:103-111).
THEOREM NeverShownTwice == CollectorSpec => []ShownOnce
<1>1. CollectorInv => ShownOnce
  BY DEF CollectorInv
<1>. QED
  BY <1>1, CollectorInvariant, PTL

\* Samples are lost only between the read of their bucket and its reset, or in
\* the very tick whose read has failed: a failure of one tick excuses no loss of
\* another (main.go:127-128).
THEOREM LossesBounded == CollectorSpec => []LostOnlyInWindow
<1>1. CollectorInv => LostOnlyInWindow
  BY DEF CollectorInv
<1>. QED
  BY <1>1, CollectorInvariant, PTL

\* Every way out of NewCollector and Close releases links and objects.
THEOREM AllReleased == CollectorSpec => []Released
<1>1. CollectorInv => Released
  BY DEF CollectorInv
<1>. QED
  BY <1>1, CollectorInvariant, PTL
=============================================================================
