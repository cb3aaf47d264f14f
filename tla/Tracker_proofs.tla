--------------------------- MODULE Tracker_proofs ---------------------------
(***************************************************************************)
(* Proofs about the tracker: the asynchronous pipeline (AsyncTracker), for *)
(* any number of images and with or without the visualisation of tracked   *)
(* points, and then tracking once and replaying (TrackerCache), for any    *)
(* bags, settings, images and tolerance.                                   *)
(***************************************************************************)
EXTENDS AsyncTracker, TrackerCache, FiniteSetTheorems, SequenceTheorems,
        WellFoundedInduction, TLAPS

-----------------------------------------------------------------------------
(* The asynchronous pipeline.                                              *)

Busy == bg \in {"step", "snap", "seed", "push"}

\* Where each image fed so far is: behind prevChain every image is answered,
\* cur (if any) is next, and inputQ holds the rest in feed order.
Positions ==
  /\ Busy <=> cur # NoFrame
  /\ active =>
       /\ \A k \in 1..Len(inputQ) : inputQ[k] = nFed - Len(inputQ) + k
       /\ cur # NoFrame => cur = nFed - Len(inputQ)
       /\ prevChain = nFed - Len(inputQ) - (IF cur = NoFrame THEN 0 ELSE 1)
       /\ \A k \in 1..Len(resultQ) : resultQ[k].n = prevChain - Len(resultQ) + k
  /\ \A k \in 1..Len(resultQ) : resultQ[k].prev = resultQ[k].n - 1

\* The shutdown protocol: who may still touch what.
Shutdown ==
  /\ stop => main # "loop"
  /\ main = "joined" => bg = "gone"
  /\ main # "loop" /\ main # "joined" => active
  /\ bg = "gone" => inputQ = <<>> /\ (active => main # "loop")
  /\ ~active => inputQ = <<>> /\ bg = "gone"

\* The anchor set of the moment was selected on an image already answered,
\* or on cur once its own snapshot is taken.
AnchorAge ==
  /\ hasPrev => anchors >= 1
  /\ anchors <= prevChain \/ (bg = "push" /\ anchors = cur)
  /\ bg \in {"test", "commit", "asleep", "gone", "step"} => ~out.ok
  /\ out.ok => hasPrev
  /\ out.ok /\ bg \in {"seed", "push"} => out.anchors \in 1..prevChain
  /\ \A k \in 1..Len(resultQ) :
       resultQ[k].ok => resultQ[k].anchors \in 1..(resultQ[k].n - 1)

IInv == TypeOK /\ Positions /\ Shutdown /\ AnchorAge
-----------------------------------------------------------------------------

LEMMA InitIInv == Init => IInv
<1> SUFFICES ASSUME Init PROVE IInv
  OBVIOUS
<1>1. TypeOK
  BY EmptySeq DEF Init, TypeOK, BgStates, NoOut, NoFrame
<1>2. Len(inputQ) = 0 /\ Len(resultQ) = 0
  BY DEF Init
<1>3. Positions
  <2>1. ~Busy /\ cur = NoFrame /\ prevChain = 0 /\ nFed = 0
    BY DEF Init, Busy, NoFrame
  <2> QED
    BY <1>2, <2>1 DEF Positions
<1>4. Shutdown /\ AnchorAge
  BY <1>2 DEF Init, Shutdown, AnchorAge, NoOut, NoFrame
<1> QED
  BY <1>1, <1>3, <1>4 DEF IInv

LEMMA NextTypeOK == TypeOK /\ [Next]_vars => TypeOK'
<1> SUFFICES ASSUME TypeOK, [Next]_vars PROVE TypeOK'
  OBVIOUS
<1> USE DEF TypeOK, NoFrame
<1>1. CASE FeedImage
  <2>1. nFed + 1 \in Nat /\ Append(inputQ, nFed + 1) \in Seq(Nat)
    BY AppendProperties
  <2>2. bg' \in BgStates
    BY <1>1 DEF FeedImage, Notified, BgStates
  <2> QED
    BY <1>1, <2>1, <2>2 DEF FeedImage, Enqueued
<1>2. CASE ConsumeResult
  BY <1>2, HeadTailProperties DEF ConsumeResult
<1>3. CASE MaybeDrawUvTracking
  BY <1>3 DEF MaybeDrawUvTracking
<1>4. CASE RequestStop \/ NotifyStop \/ JoinStop
  BY <1>4 DEF RequestStop, NotifyStop, JoinStop, Notified, BgStates
<1>5. CASE TestPredicate
  <2>1. inputQ # <<>> => Head(inputQ) \in Nat /\ Tail(inputQ) \in Seq(Nat)
    BY HeadTailProperties
  <2> QED
    BY <1>5, <2>1 DEF TestPredicate, Finished, Working, BgStates
<1>6. CASE FallAsleep \/ SpuriousWakeup
  BY <1>6 DEF FallAsleep, SpuriousWakeup, Working, BgStates
<1>7. CASE StepBackend
  <2>1. PICK tracked \in BOOLEAN : out' = [NoOut EXCEPT !.ok = tracked]
    BY <1>7 DEF StepBackend
  <2>2. out' \in [ok : BOOLEAN, uv : Nat, anchors : Nat]
    BY <2>1 DEF NoOut
  <2>3. bg' \in BgStates /\ uvCurr' \in Nat
    BY <1>7 DEF StepBackend, BgStates
  <2> QED
    BY <1>7, <2>2, <2>3 DEF StepBackend, Working
<1>8. CASE Snapshot \/ Reseed
  BY <1>8 DEF Snapshot, Reseed, Working, BgStates
<1>9. CASE PushResult
  <2>1. resultQ' \in Seq(ResultType)
    BY <1>9, AppendProperties DEF PushResult, FrameStamp, FrameAnchors, NextChain, ResultType
  <2> QED
    BY <1>9, <2>1 DEF PushResult, FrameStamp, FrameAnchors, NextChain, Working, BgStates, NoOut
<1>10. CASE UNCHANGED vars
  BY <1>10 DEF vars
<1> QED
  BY <1>1, <1>2, <1>3, <1>4, <1>5, <1>6, <1>7, <1>8, <1>9, <1>10
     DEF Next, Background

\* Every state of the pipeline is well typed.
THEOREM TypeCorrect == Spec => []TypeOK
<1>1. Init => TypeOK
  BY InitIInv DEF IInv
<1> QED
  BY <1>1, NextTypeOK, PTL DEF Spec

-----------------------------------------------------------------------------
(* The queue operations, as first-order facts about positions.             *)

LEMMA LenNat == TypeOK => Len(inputQ) \in Nat /\ Len(resultQ) \in Nat
  BY LenProperties DEF TypeOK

LEMMA PositionsStep == IInv /\ [Next]_vars => Positions'
<1> SUFFICES ASSUME IInv, [Next]_vars PROVE Positions'
  OBVIOUS
<1>0. /\ Len(inputQ) \in Nat /\ Len(resultQ) \in Nat
      /\ nFed \in Nat /\ cur \in Nat /\ prevChain \in Nat /\ active \in BOOLEAN
      /\ inputQ \in Seq(Nat) /\ resultQ \in Seq(ResultType)
  BY LenNat DEF IInv, TypeOK
<1>e. Positions /\ Shutdown
  BY DEF IInv
<1> USE <1>0, <1>e DEF NoFrame
<1>1. CASE FeedImage
  <2>1. CASE active
    <3>1. /\ inputQ' = Append(inputQ, nFed + 1) /\ nFed' = nFed + 1
          /\ UNCHANGED <<resultQ, cur, prevChain, active>>
          /\ bg' = bg \/ (bg = "asleep" /\ bg' = "test")
      BY <1>1, <2>1 DEF FeedImage, Notified, Enqueued
    <3>2. /\ Len(inputQ') = Len(inputQ) + 1
          /\ \A k \in 1..Len(inputQ) : inputQ'[k] = inputQ[k]
          /\ inputQ'[Len(inputQ) + 1] = nFed + 1
      BY <3>1, AppendProperties
    <3>3. \A k \in 1..Len(inputQ') : inputQ'[k] = nFed' - Len(inputQ') + k
      <4> SUFFICES ASSUME NEW k \in 1..Len(inputQ')
                   PROVE  inputQ'[k] = nFed' - Len(inputQ') + k
        OBVIOUS
      <4>1. CASE k = Len(inputQ) + 1
        BY <4>1, <3>1, <3>2
      <4>2. CASE k \in 1..Len(inputQ)
        BY <4>2, <2>1, <3>1, <3>2 DEF Positions
      <4> QED
        BY <4>1, <4>2, <3>2
    <3>4. nFed' - Len(inputQ') = nFed - Len(inputQ)
      BY <3>1, <3>2
    <3>5. Busy' <=> Busy
      BY <3>1 DEF Busy
    <3> QED
      BY <2>1, <3>1, <3>3, <3>4, <3>5 DEF Positions
  <2>2. CASE ~active
    BY <1>1, <2>2 DEF FeedImage, Positions, Busy
  <2> QED
    BY <2>1, <2>2
<1>2. CASE ConsumeResult
  <2>1. /\ Len(resultQ') = Len(resultQ) - 1
        /\ \A k \in 1..Len(resultQ') : resultQ'[k] = resultQ[k + 1]
    BY <1>2, HeadTailProperties DEF ConsumeResult
  <2> QED
    BY <1>2, <2>1 DEF ConsumeResult, Positions, Busy
<1>3. CASE MaybeDrawUvTracking
  BY <1>3 DEF MaybeDrawUvTracking, Positions, Busy
<1>4. CASE RequestStop
  BY <1>4 DEF RequestStop, Positions, Busy
<1>5. CASE NotifyStop
  BY <1>5 DEF NotifyStop, Notified, Positions, Busy
<1>6. CASE JoinStop
  BY <1>6 DEF JoinStop, Positions, Busy
<1>7. CASE TestPredicate
  <2>1. CASE inputQ # <<>>
    <3>1. /\ Len(inputQ') = Len(inputQ) - 1 /\ Len(inputQ) >= 1
          /\ \A k \in 1..Len(inputQ') : inputQ'[k] = inputQ[k + 1]
          /\ cur' = inputQ[1]
      <4>1. inputQ' = Tail(inputQ) /\ cur' = Head(inputQ)
        BY <1>7, <2>1 DEF TestPredicate, Finished
      <4>2. Len(inputQ) >= 1
        BY <2>1, EmptySeq
      <4>3. Head(inputQ) = inputQ[1]
        BY <2>1
      <4> QED
        BY <2>1, <4>1, <4>2, <4>3, HeadTailProperties
    <3>2. /\ bg = "test" /\ bg' = "step"
          /\ UNCHANGED <<nFed, active, resultQ, prevChain>>
      BY <1>7, <2>1 DEF TestPredicate, Finished, Working
    <3>3. active
      BY <2>1 DEF Shutdown
    <3>4. cur = 0 /\ cur' = nFed - Len(inputQ) + 1
      BY <3>1, <3>2, <3>3 DEF Positions, Busy
    <3>5. prevChain = nFed - Len(inputQ)
      BY <3>3, <3>4 DEF Positions
    <3>6. cur' # 0 /\ cur' = nFed - Len(inputQ')
      BY <3>1, <3>4, <3>5
    <3>7. \A k \in 1..Len(inputQ') : inputQ'[k] = nFed - Len(inputQ') + k
      BY <3>1, <3>3 DEF Positions
    <3>8. Busy'
      BY <3>2 DEF Busy
    <3> QED
      BY <3>1, <3>2, <3>3, <3>5, <3>6, <3>7, <3>8 DEF Positions
  <2>2. CASE inputQ = <<>>
    BY <1>7, <2>2 DEF TestPredicate, Finished, Working, Positions, Busy
  <2> QED
    BY <2>1, <2>2
<1>8. CASE FallAsleep \/ SpuriousWakeup
  BY <1>8 DEF FallAsleep, SpuriousWakeup, Working, Positions, Busy
<1>9. CASE StepBackend
  <2>1. bg = "step" /\ bg' \in {"snap", "seed"}
    BY <1>9 DEF StepBackend
  <2>2. UNCHANGED <<nFed, active, inputQ, resultQ, cur, prevChain>>
    BY <1>9 DEF StepBackend, Working
  <2> QED
    BY <2>1, <2>2 DEF Positions, Busy
<1>10. CASE Snapshot \/ Reseed
  <2>1. CASE Snapshot
    BY <2>1 DEF Snapshot, Working, Positions, Busy
  <2>2. CASE Reseed
    BY <2>2 DEF Reseed, Working, Positions, Busy
  <2> QED
    BY <1>10, <2>1, <2>2
<1>11. CASE PushResult
  <2> DEFINE r == [n |-> cur, prev |-> prevChain, ok |-> out.ok,
                   uv |-> out.uv, anchors |-> out.anchors]
  <2>1. r \in ResultType
    BY DEF ResultType, IInv, TypeOK
  <2>2. /\ Len(resultQ') = Len(resultQ) + 1
        /\ \A k \in 1..Len(resultQ) : resultQ'[k] = resultQ[k]
        /\ resultQ'[Len(resultQ) + 1].n = cur
        /\ resultQ'[Len(resultQ) + 1].prev = prevChain
    BY <1>11, <2>1, AppendProperties DEF PushResult, FrameStamp, FrameAnchors, NextChain
  <2>3. /\ bg = "push" /\ bg' = "test" /\ cur' = 0 /\ prevChain' = cur
        /\ UNCHANGED <<nFed, active, inputQ>>
    BY <1>11 DEF PushResult, FrameStamp, FrameAnchors, NextChain, Working
  <2>4. active /\ cur # 0
    BY <2>3 DEF Shutdown, Positions, Busy
  <2>5. cur = nFed - Len(inputQ) /\ prevChain = cur - 1
    BY <2>4 DEF Positions
  <2>6. \A k \in 1..Len(resultQ') :
          resultQ'[k].n = cur - Len(resultQ') + k /\ resultQ'[k].prev = resultQ'[k].n - 1
    <3> SUFFICES ASSUME NEW k \in 1..Len(resultQ')
                 PROVE  /\ resultQ'[k].n = cur - Len(resultQ') + k
                        /\ resultQ'[k].prev = resultQ'[k].n - 1
      OBVIOUS
    <3>1. CASE k = Len(resultQ) + 1
      BY <3>1, <2>2, <2>5
    <3>2. CASE k \in 1..Len(resultQ)
      <4>1. resultQ'[k] = resultQ[k]
        BY <3>2, <2>2
      <4>2. resultQ[k].n = prevChain - Len(resultQ) + k
        BY <3>2, <2>4 DEF Positions
      <4>3. resultQ[k].prev = resultQ[k].n - 1
        BY <3>2 DEF Positions
      <4> QED
        BY <3>2, <4>1, <4>2, <4>3, <2>2, <2>5
    <3> QED
      BY <3>1, <3>2, <2>2
  <2>7. (Busy <=> cur # NoFrame)'
    BY <2>3 DEF Busy
  <2>8. /\ \A k \in 1..Len(inputQ') : inputQ'[k] = nFed' - Len(inputQ') + k
        /\ prevChain' = nFed' - Len(inputQ') - 0
    BY <2>3, <2>4, <2>5 DEF Positions
  <2>9. /\ \A k \in 1..Len(resultQ') : resultQ'[k].n = prevChain' - Len(resultQ') + k
        /\ \A k \in 1..Len(resultQ') : resultQ'[k].prev = resultQ'[k].n - 1
    BY <2>3, <2>6
  <2>10. cur' = 0
    BY <2>3
  <2> HIDE <1>0, <1>e DEF NoFrame
  <2> QED
    BY <2>7, <2>8, <2>9, <2>10 DEF Positions, NoFrame
<1>12. CASE UNCHANGED vars
  BY <1>12 DEF vars, Positions, Busy
<1> QED
  BY <1>1, <1>2, <1>3, <1>4, <1>5, <1>6, <1>7, <1>8, <1>9, <1>10, <1>11, <1>12
     DEF Next, Background

LEMMA ShutdownStep == IInv /\ [Next]_vars => Shutdown'
<1> SUFFICES ASSUME IInv, [Next]_vars PROVE Shutdown'
  OBVIOUS
<1> USE DEF IInv, TypeOK, Shutdown
<1>1. CASE FeedImage
  BY <1>1 DEF FeedImage, Notified, Enqueued
<1>2. CASE ConsumeResult \/ MaybeDrawUvTracking
  BY <1>2 DEF ConsumeResult, MaybeDrawUvTracking
<1>3. CASE RequestStop \/ NotifyStop \/ JoinStop
  BY <1>3 DEF RequestStop, NotifyStop, JoinStop, Notified
<1>4. CASE TestPredicate
  BY <1>4 DEF TestPredicate, Finished, Working
<1>5. CASE FallAsleep \/ StepBackend \/ Snapshot \/ Reseed \/ PushResult
  <2>1. bg' # "gone" /\ bg # "gone" /\ UNCHANGED <<main, active, stop, inputQ>>
    BY <1>5 DEF FallAsleep, StepBackend, Snapshot, Reseed, PushResult, Working
  <2> QED
    BY <2>1
<1>6. CASE SpuriousWakeup
  BY <1>6 DEF SpuriousWakeup, Working
<1>7. CASE UNCHANGED vars
  BY <1>7 DEF vars
<1> QED
  BY <1>1, <1>2, <1>3, <1>4, <1>5, <1>6, <1>7 DEF Next, Background

LEMMA AnchorAgeStep == IInv /\ [Next]_vars => AnchorAge'
<1> SUFFICES ASSUME IInv, [Next]_vars PROVE AnchorAge'
  OBVIOUS
<1>0. /\ Len(resultQ) \in Nat /\ resultQ \in Seq(ResultType)
      /\ cur \in Nat /\ prevChain \in Nat /\ anchors \in Nat /\ bg \in BgStates
      /\ hasPrev \in BOOLEAN
      /\ out \in [ok : BOOLEAN, uv : Nat, anchors : Nat]
  BY LenNat DEF IInv, TypeOK
<1>e. Positions /\ Shutdown /\ AnchorAge
  BY DEF IInv
\* Whoever works is one image past the chain.
<1>b. Busy => active /\ cur = prevChain + 1
  BY <1>0, <1>e DEF Positions, Shutdown, Busy, NoFrame, IInv, TypeOK
<1> USE <1>0, <1>e DEF AnchorAge, NoFrame
<1>1. CASE FeedImage \/ NotifyStop
  <2>1. bg' = bg \/ (bg = "asleep" /\ bg' = "test")
    BY <1>1 DEF FeedImage, NotifyStop, Notified
  <2>2. UNCHANGED <<resultQ, cur, prevChain, out, anchors, hasPrev>>
    BY <1>1 DEF FeedImage, NotifyStop
  <2> QED
    BY <2>1, <2>2
<1>2. CASE ConsumeResult
  <2>1. /\ Len(resultQ') = Len(resultQ) - 1
        /\ \A k \in 1..Len(resultQ') : resultQ'[k] = resultQ[k + 1]
    BY <1>2, HeadTailProperties DEF ConsumeResult
  <2> QED
    BY <1>2, <2>1 DEF ConsumeResult
<1>3. CASE MaybeDrawUvTracking \/ RequestStop \/ JoinStop
  BY <1>3 DEF MaybeDrawUvTracking, RequestStop, JoinStop
<1>4. CASE TestPredicate
  <2>1. bg = "test" /\ bg' \in {"step", "gone", "commit"}
    BY <1>4 DEF TestPredicate, Finished
  <2>2. UNCHANGED <<resultQ, prevChain, out, anchors, hasPrev>>
    BY <1>4 DEF TestPredicate, Finished
  <2> QED
    BY <2>1, <2>2
<1>5. CASE FallAsleep \/ SpuriousWakeup
  BY <1>5 DEF FallAsleep, SpuriousWakeup
<1>6. CASE StepBackend
  <2>1. PICK tracked \in BOOLEAN :
          /\ tracked => hasPrev
          /\ out' = [NoOut EXCEPT !.ok = tracked]
          /\ bg' = IF tracked THEN "snap" ELSE "seed"
    BY <1>6 DEF StepBackend
  <2>2. out'.ok = tracked
    BY <2>1 DEF NoOut
  <2>3. bg = "step" /\ UNCHANGED <<resultQ, prevChain, anchors, hasPrev>>
    BY <1>6 DEF StepBackend
  <2> QED
    BY <2>1, <2>2, <2>3
<1>7. CASE Snapshot
  BY <1>7 DEF Snapshot
<1>8. CASE Reseed
  BY <1>8, <1>b DEF Reseed, Busy
<1>9. CASE PushResult
  <2> DEFINE r == [n |-> cur, prev |-> prevChain, ok |-> out.ok,
                   uv |-> out.uv, anchors |-> out.anchors]
  <2>1. bg = "push" /\ bg' = "test" /\ prevChain' = cur /\ out' = NoOut
        /\ UNCHANGED <<anchors, hasPrev>> /\ resultQ' = Append(resultQ, r)
    BY <1>9 DEF PushResult, FrameStamp, FrameAnchors, NextChain
  <2>2. r \in ResultType
    BY DEF ResultType
  <2>3. /\ Len(resultQ') = Len(resultQ) + 1
        /\ \A k \in 1..Len(resultQ) : resultQ'[k] = resultQ[k]
        /\ resultQ'[Len(resultQ) + 1] = r
    BY <2>1, <2>2, AppendProperties
  <2>4. cur = prevChain + 1
    BY <2>1, <1>b DEF Busy
  <2>5. r.ok => r.anchors \in 1..(r.n - 1)
    BY <2>1, <2>4
  <2>6. \A k \in 1..Len(resultQ') :
          resultQ'[k].ok => resultQ'[k].anchors \in 1..(resultQ'[k].n - 1)
    BY <2>3, <2>5
  <2> QED
    BY <2>1, <2>4, <2>6 DEF NoOut
<1>10. CASE UNCHANGED vars
  BY <1>10 DEF vars
<1> QED
  BY <1>1, <1>2, <1>3, <1>4, <1>5, <1>6, <1>7, <1>8, <1>9, <1>10
     DEF Next, Background

-----------------------------------------------------------------------------
(* The invariant, and what it gives.                                       *)

LEMMA Invariant == Spec => []IInv
<1>1. Init => IInv
  BY InitIInv
<1>2. IInv /\ [Next]_vars => IInv'
  BY NextTypeOK, PositionsStep, ShutdownStep, AnchorAgeStep DEF IInv
<1> QED
  BY <1>1, <1>2, PTL DEF Spec

\* Each result is chained to the image fed immediately before its own, the
\* stamp resolveAnchorPose() looks up.
THEOREM PrevCorrect == Spec => []PrevIsPredecessor
<1>1. IInv => PrevIsPredecessor
  <2> SUFFICES ASSUME IInv PROVE PrevIsPredecessor
    OBVIOUS
  <2>1. DOMAIN resultQ = 1..Len(resultQ)
    BY LenProperties DEF IInv, TypeOK
  <2> QED
    BY <2>1 DEF IInv, Positions, PrevIsPredecessor
<1> QED
  BY Invariant, <1>1, PTL

\* No result carries the anchors of the reseed on its own image, although the
\* same thread overwrites anchors_ before the result is pushed.
THEOREM AnchorsCorrect == Spec => []AnchorsPredateFrame
<1>1. IInv => AnchorsPredateFrame
  <2> SUFFICES ASSUME IInv PROVE AnchorsPredateFrame
    OBVIOUS
  <2>1. DOMAIN resultQ = 1..Len(resultQ)
    BY LenProperties DEF IInv, TypeOK
  <2> QED
    BY <2>1 DEF IInv, AnchorAge, AnchorsPredateFrame
<1> QED
  BY Invariant, <1>1, PTL

\* When stopAsyncTracking() has joined the thread, nothing fed is left over.
THEOREM JoinCorrect == Spec => []JoinLosesNothing
<1>1. IInv => JoinLosesNothing
  BY DEF IInv, Shutdown, Positions, Busy, JoinLosesNothing
<1> QED
  BY Invariant, <1>1, PTL

-----------------------------------------------------------------------------
(* The contents of the pipe, one position at a time.                       *)

LEMMA InWorkSeq == TypeOK => /\ InWork \in Seq(Nat)
                             /\ Len(InWork) = (IF cur = NoFrame THEN 0 ELSE 1)
                             /\ cur # NoFrame => InWork[1] = cur
<1> SUFFICES ASSUME TypeOK PROVE /\ InWork \in Seq(Nat)
                                 /\ Len(InWork) = (IF cur = NoFrame THEN 0 ELSE 1)
                                 /\ cur # NoFrame => InWork[1] = cur
  OBVIOUS
<1>1. cur \in Nat
  BY DEF TypeOK
<1>2. CASE cur = NoFrame
  BY <1>2, EmptySeq DEF InWork
<1>3. CASE cur # NoFrame
  BY <1>1, <1>3 DEF InWork
<1> QED
  BY <1>2, <1>3

\* The images in the pipe are the ones fed last, in feed order.
THEOREM OrderCorrect == Spec => []InFeedOrder
<1>1. IInv => InFeedOrder
  <2> SUFFICES ASSUME IInv, active PROVE \A k \in DOMAIN InPipe : InPipe[k] = nFed - Len(InPipe) + k
    BY DEF InFeedOrder
  <2> DEFINE done == [k \in DOMAIN resultQ |-> resultQ[k].n]
             w    == Len(InWork)
             r    == Len(resultQ)
             q    == Len(inputQ)
  <2>0. /\ inputQ \in Seq(Nat) /\ resultQ \in Seq(ResultType)
        /\ q \in Nat /\ r \in Nat /\ nFed \in Nat /\ cur \in Nat /\ prevChain \in Nat
    BY LenNat DEF IInv, TypeOK
  <2>1. /\ InWork \in Seq(Nat) /\ w = (IF cur = NoFrame THEN 0 ELSE 1)
        /\ cur # NoFrame => InWork[1] = cur
    BY InWorkSeq DEF IInv
  <2>2. done \in Seq(Nat) /\ Len(done) = r /\ \A k \in 1..r : done[k] = resultQ[k].n
    <3>1. DOMAIN resultQ = 1..r
      BY <2>0, LenProperties
    <3>2. \A k \in 1..r : resultQ[k].n \in Nat
      <4> SUFFICES ASSUME NEW k \in 1..r PROVE resultQ[k].n \in Nat
        OBVIOUS
      <4>1. resultQ[k] \in ResultType
        BY <2>0, ElementOfSeq
      <4> QED
        BY <4>1 DEF ResultType
    <3> QED
      BY <2>0, <3>1, <3>2
  <2> HIDE DEF done, w, r, q
  <2>3. InPipe = (done \o InWork) \o inputQ
    BY DEF InPipe, done
  <2>4. /\ done \o InWork \in Seq(Nat) /\ Len(done \o InWork) = r + w
        /\ \A k \in 1..(r + w) : (done \o InWork)[k] = IF k <= r THEN done[k] ELSE InWork[k - r]
    BY <2>1, <2>2, ConcatProperties DEF w
  <2>5. /\ InPipe \in Seq(Nat) /\ Len(InPipe) = r + w + q
        /\ \A k \in 1..(r + w + q) :
             InPipe[k] = IF k <= r + w THEN (done \o InWork)[k] ELSE inputQ[k - (r + w)]
    BY <2>0, <2>3, <2>4, ConcatProperties DEF q
  <2>6. DOMAIN InPipe = 1..(r + w + q)
    BY <2>5, LenProperties
  <2>7. /\ \A k \in 1..q : inputQ[k] = nFed - q + k
        /\ cur # NoFrame => cur = nFed - q
        /\ prevChain = nFed - q - w
        /\ \A k \in 1..r : done[k] = prevChain - r + k
    BY <2>1, <2>2 DEF IInv, Positions, q, r
  <2> SUFFICES ASSUME NEW k \in 1..(r + w + q)
               PROVE  InPipe[k] = nFed - (r + w + q) + k
    BY <2>5, <2>6
  <2>w. w \in Nat
    BY <2>1
  <2>8. CASE k <= r
    <3>1. k \in 1..r /\ k \in 1..(r + w) /\ k <= r + w
      BY <2>0, <2>w, <2>8
    <3>2. InPipe[k] = (done \o InWork)[k] /\ (done \o InWork)[k] = done[k]
      BY <3>1, <2>4, <2>5
    <3>3. InPipe[k] = prevChain - r + k
      BY <3>1, <3>2, <2>7
    <3> QED
      BY <2>0, <2>w, <2>7, <3>3
  <2>9. CASE r < k /\ k <= r + w
    <3>1. w = 1 /\ cur # NoFrame /\ k = r + 1
      BY <2>0, <2>1, <2>9
    <3>2. k \in 1..(r + w) /\ k <= r + w /\ ~(k <= r) /\ k - r = 1
      BY <2>0, <3>1
    <3>3. InPipe[k] = (done \o InWork)[k] /\ (done \o InWork)[k] = InWork[k - r]
      BY <3>2, <2>4, <2>5
    <3>4. InPipe[k] = nFed - q
      BY <3>1, <3>2, <3>3, <2>1, <2>7
    <3> QED
      BY <2>0, <3>1, <3>4
  <2>10. CASE r + w < k
    <3>1. k - (r + w) \in 1..q /\ InPipe[k] = inputQ[k - (r + w)]
      BY <2>0, <2>w, <2>5, <2>10
    <3> QED
      BY <2>0, <2>w, <2>7, <3>1
  <2> QED
    BY <2>0, <2>w, <2>8, <2>9, <2>10
<1> QED
  BY Invariant, <1>1, PTL

-----------------------------------------------------------------------------
(* The two threads implement the pipe.                                     *)

StampType == [n : Nat, prev : Nat]

LEMMA StampedSeq ==
  ASSUME NEW q \in Seq(ResultType)
  PROVE  /\ Stamped(q) \in Seq(StampType)
         /\ Len(Stamped(q)) = Len(q)
         /\ \A k \in 1..Len(q) : Stamped(q)[k] = [n |-> q[k].n, prev |-> q[k].prev]
<1>1. Len(q) \in Nat /\ DOMAIN q = 1..Len(q)
  BY LenProperties
<1>2. \A k \in 1..Len(q) : [n |-> q[k].n, prev |-> q[k].prev] \in StampType
  <2> SUFFICES ASSUME NEW k \in 1..Len(q)
               PROVE  [n |-> q[k].n, prev |-> q[k].prev] \in StampType
    OBVIOUS
  <2>1. q[k] \in ResultType
    BY ElementOfSeq
  <2> QED
    BY <2>1 DEF ResultType, StampType
<1>3. Stamped(q) = [k \in 1..Len(q) |-> [n |-> q[k].n, prev |-> q[k].prev]]
  BY <1>1 DEF Stamped
<1> QED
  BY <1>1, <1>2, <1>3

LEMMA StampedAppend ==
  ASSUME NEW q \in Seq(ResultType), NEW r \in ResultType
  PROVE  Stamped(Append(q, r)) = Append(Stamped(q), [n |-> r.n, prev |-> r.prev])
<1> DEFINE a == Append(q, r)
           v == [n |-> r.n, prev |-> r.prev]
           b == Append(Stamped(q), v)
<1>0. v \in StampType /\ Len(q) \in Nat
  BY LenProperties DEF ResultType, StampType
<1>1. /\ a \in Seq(ResultType) /\ Len(a) = Len(q) + 1
      /\ \A k \in 1..Len(q) : a[k] = q[k]
      /\ a[Len(q) + 1] = r
  BY AppendProperties
<1>2. /\ Stamped(q) \in Seq(StampType) /\ Len(Stamped(q)) = Len(q)
      /\ \A k \in 1..Len(q) : Stamped(q)[k] = [n |-> q[k].n, prev |-> q[k].prev]
  BY StampedSeq
<1>3. /\ b \in Seq(StampType) /\ Len(b) = Len(q) + 1
      /\ \A k \in 1..Len(q) : b[k] = Stamped(q)[k]
      /\ b[Len(q) + 1] = v
  BY <1>0, <1>2, AppendProperties
<1>4. /\ Stamped(a) \in Seq(StampType) /\ Len(Stamped(a)) = Len(a)
      /\ \A k \in 1..Len(a) : Stamped(a)[k] = [n |-> a[k].n, prev |-> a[k].prev]
  BY <1>1, StampedSeq
<1> HIDE DEF a, b
<1>5. ASSUME NEW k \in 1..Len(Stamped(a)) PROVE Stamped(a)[k] = b[k]
  <2>1. CASE k \in 1..Len(q)
    BY <2>1, <1>0, <1>1, <1>2, <1>3, <1>4
  <2>2. CASE k = Len(q) + 1
    BY <2>2, <1>0, <1>1, <1>3, <1>4
  <2> QED
    BY <1>0, <1>1, <1>4, <2>1, <2>2
<1>6. Len(Stamped(a)) = Len(b)
  BY <1>1, <1>3, <1>4
<1>7. Stamped(a) = b
  BY <1>3, <1>4, <1>5, <1>6, SeqEqual
<1> QED
  BY <1>7 DEF a, b

LEMMA StampedTail ==
  ASSUME NEW q \in Seq(ResultType), q # <<>>
  PROVE  Stamped(q) # <<>> /\ Stamped(Tail(q)) = Tail(Stamped(q))
<1> DEFINE a == Stamped(Tail(q))
           b == Tail(Stamped(q))
<1>0. Len(q) \in Nat \ {0}
  BY EmptySeq
<1>1. /\ Tail(q) \in Seq(ResultType) /\ Len(Tail(q)) = Len(q) - 1
      /\ \A k \in 1..Len(Tail(q)) : Tail(q)[k] = q[k + 1]
  BY HeadTailProperties
<1>2. /\ Stamped(q) \in Seq(StampType) /\ Len(Stamped(q)) = Len(q)
      /\ \A k \in 1..Len(q) : Stamped(q)[k] = [n |-> q[k].n, prev |-> q[k].prev]
  BY StampedSeq
<1>3. Stamped(q) # <<>>
  BY <1>0, <1>2, EmptySeq
<1>4. /\ b \in Seq(StampType) /\ Len(b) = Len(q) - 1
      /\ \A k \in 1..(Len(q) - 1) : b[k] = Stamped(q)[k + 1]
  BY <1>2, <1>3, HeadTailProperties
<1>5. /\ a \in Seq(StampType) /\ Len(a) = Len(q) - 1
      /\ \A k \in 1..(Len(q) - 1) : a[k] = [n |-> Tail(q)[k].n, prev |-> Tail(q)[k].prev]
  BY <1>1, StampedSeq
<1> HIDE DEF a, b
<1>6. ASSUME NEW k \in 1..Len(a) PROVE a[k] = b[k]
  <2>1. k \in 1..(Len(q) - 1) /\ k + 1 \in 1..Len(q)
    BY <1>0, <1>5
  <2> QED
    BY <2>1, <1>1, <1>2, <1>4, <1>5
<1>7. a = b
  BY <1>4, <1>5, <1>6, SeqEqual
<1> QED
  BY <1>3, <1>7 DEF a, b

LEMMA RefineInit == Init => Pipe!PipeInit
<1> SUFFICES ASSUME Init PROVE Pipe!PipeInit
  OBVIOUS
<1>1. InWork \o inputQ = <<>>
  BY EmptySeq, ConcatEmptySeq DEF Init, InWork
<1>2. Stamped(resultQ) = <<>>
  BY DEF Init, Stamped
<1> QED
  BY <1>1, <1>2 DEF Init, Pipe!PipeInit, Pipe!NoFrame, NoFrame

LEMMA RefineStep == IInv /\ [Next]_vars => [Pipe!PipeNext]_(Pipe!pipeVars)
<1> SUFFICES ASSUME IInv, [Next]_vars PROVE [Pipe!PipeNext]_(Pipe!pipeVars)
  OBVIOUS
<1> DEFINE pend == InWork \o inputQ
<1>0. /\ inputQ \in Seq(Nat) /\ resultQ \in Seq(ResultType)
      /\ nFed \in Nat /\ cur \in Nat /\ prevChain \in Nat /\ active \in BOOLEAN
      /\ out \in [ok : BOOLEAN, uv : Nat, anchors : Nat]
  BY DEF IInv, TypeOK
<1>w. InWork \in Seq(Nat)
  BY InWorkSeq DEF IInv
<1>s. ASSUME UNCHANGED <<nFed, pend, resultQ, prevChain, active>>
      PROVE  UNCHANGED (Pipe!pipeVars)
  BY <1>s DEF Pipe!pipeVars
<1>u. ASSUME UNCHANGED <<nFed, inputQ, cur, resultQ, prevChain, active>>
      PROVE  UNCHANGED (Pipe!pipeVars)
  <2>1. pend' = pend
    BY <1>u DEF InWork
  <2> QED
    BY <1>s, <1>u, <2>1
<1>1. CASE FeedImage
  <2>1. CASE active
    <3>1. /\ inputQ' = Append(inputQ, nFed + 1) /\ nFed' = nFed + 1
          /\ UNCHANGED <<resultQ, cur, prevChain, active>>
      BY <1>1, <2>1 DEF FeedImage, Enqueued
    <3>2. inputQ' = inputQ \o <<nFed + 1>> /\ <<nFed + 1>> \in Seq(Nat)
      <4>1. nFed + 1 \in Nat
        BY <1>0
      <4>2. Append(inputQ, nFed + 1) = inputQ \o <<nFed + 1>>
        BY <1>0, <4>1, AppendIsConcat
      <4>3. <<nFed + 1>> \in Seq(Nat)
        BY <4>1
      <4> QED
        BY <3>1, <4>2, <4>3
    <3>3. InWork' = InWork
      BY <3>1 DEF InWork
    <3>4. pend' = pend \o <<nFed + 1>>
      BY <1>0, <1>w, <3>2, <3>3, ConcatAssociative
    <3>5. pend \in Seq(Nat)
      BY <1>0, <1>w, ConcatProperties
    <3>6. pend' = Append(pend, nFed + 1)
      BY <1>0, <3>4, <3>5, AppendIsConcat, SMTT(20)
    <3>7. Pipe!Feed
      BY <2>1, <3>1, <3>6 DEF Pipe!Feed
    <3> QED
      BY <3>7 DEF Pipe!PipeNext
  <2>2. CASE ~active
    <3>1. nFed' = nFed + 1 /\ UNCHANGED <<inputQ, resultQ, cur, prevChain, active>>
      BY <1>1, <2>2 DEF FeedImage
    <3>2. Pipe!Feed
      BY <2>2, <3>1 DEF Pipe!Feed, InWork
    <3> QED
      BY <3>2 DEF Pipe!PipeNext
  <2> QED
    BY <2>1, <2>2
<1>2. CASE ConsumeResult
  <2>1. Stamped(resultQ) # <<>> /\ Stamped(resultQ)' = Tail(Stamped(resultQ))
    BY <1>0, <1>2, StampedTail DEF ConsumeResult
  <2>2. Pipe!ResultReady /\ Pipe!Consume
    BY <1>2, <2>1 DEF ConsumeResult, Pipe!ResultReady, Pipe!Consume, InWork
  <2> QED
    BY <2>2 DEF Pipe!PipeNext
<1>3. CASE MaybeDrawUvTracking \/ RequestStop \/ NotifyStop
  BY <1>3, <1>u DEF MaybeDrawUvTracking, RequestStop, NotifyStop
<1>4. CASE JoinStop
  <2>1. pend = <<>>
    <3>1. inputQ = <<>> /\ cur = NoFrame
      BY <1>4 DEF JoinStop, IInv, Shutdown, Positions, Busy
    <3> QED
      BY <3>1, EmptySeq, ConcatEmptySeq DEF InWork
  <2>2. active
    BY <1>4 DEF JoinStop, IInv, Shutdown
  <2>3. Pipe!Stop
    BY <1>4, <2>1, <2>2 DEF JoinStop, Pipe!Stop, InWork
  <2> QED
    BY <2>3 DEF Pipe!PipeNext
<1>5. CASE TestPredicate
  <2>1. CASE inputQ # <<>>
    <3>1. /\ cur' = Head(inputQ) /\ inputQ' = Tail(inputQ) /\ bg = "test" /\ bg' = "step"
          /\ UNCHANGED <<nFed, resultQ, prevChain, active>>
      BY <1>5, <2>1 DEF TestPredicate, Finished, Working
    <3>2. cur = NoFrame
      BY <3>1 DEF IInv, Positions, Busy
    <3>3. cur' # NoFrame
      BY <1>5, PositionsStep, <3>1 DEF Positions, Busy
    <3>4. pend = inputQ
      BY <1>0, <3>2, ConcatEmptySeq DEF InWork
    <3>5. pend' = <<Head(inputQ)>> \o Tail(inputQ)
      BY <3>1, <3>3 DEF InWork
    <3>6. <<Head(inputQ)>> \o Tail(inputQ) = inputQ
      <4>1. Len(inputQ) \in Nat \ {0} /\ Head(inputQ) = inputQ[1]
        BY <1>0, <2>1, EmptySeq
      <4>2. SubSeq(inputQ, 1, Len(inputQ)) = <<inputQ[1]>> \o SubSeq(inputQ, 2, Len(inputQ))
        BY <1>0, <4>1, SubSeqRecursiveFirst
      <4> QED
        BY <1>0, <2>1, <4>1, <4>2, SubSeqFull, TailIsSubSeq
    <3> QED
      BY <1>s, <3>1, <3>4, <3>5, <3>6
  <2>2. CASE inputQ = <<>>
    BY <1>5, <2>2, <1>u DEF TestPredicate, Finished, Working
  <2> QED
    BY <2>1, <2>2
<1>6. CASE FallAsleep \/ SpuriousWakeup \/ StepBackend \/ Snapshot \/ Reseed
  BY <1>6, <1>u DEF FallAsleep, SpuriousWakeup, StepBackend, Snapshot, Reseed, Working
<1>7. CASE PushResult
  <2> DEFINE r == [n |-> cur, prev |-> prevChain, ok |-> out.ok,
                   uv |-> out.uv, anchors |-> out.anchors]
  <2>1. /\ bg = "push" /\ resultQ' = Append(resultQ, r) /\ prevChain' = cur
        /\ cur' = NoFrame /\ UNCHANGED <<nFed, inputQ, active>>
    BY <1>7 DEF PushResult, FrameStamp, FrameAnchors, NextChain, Working
  <2>2. cur # NoFrame
    BY <2>1 DEF IInv, Positions, Busy
  <2>3. pend = <<cur>> \o inputQ /\ pend' = inputQ
    BY <1>0, <2>1, <2>2, ConcatEmptySeq DEF InWork
  <2>4. Head(<<cur>> \o inputQ) = cur /\ Tail(<<cur>> \o inputQ) = inputQ
        /\ <<cur>> \o inputQ # <<>>
    BY <1>0, SMTT(20)
  <2>5. Stamped(resultQ)' = Append(Stamped(resultQ), [n |-> cur, prev |-> prevChain])
    <3>1. r \in ResultType
      BY <1>0 DEF ResultType
    <3>2. Stamped(Append(resultQ, r)) = Append(Stamped(resultQ), [n |-> r.n, prev |-> r.prev])
      BY <1>0, <3>1, StampedAppend
    <3> QED
      BY <2>1, <3>2
  <2>6. Pipe!Answer
    BY <2>1, <2>3, <2>4, <2>5 DEF Pipe!Answer
  <2> QED
    BY <2>6 DEF Pipe!PipeNext
<1>8. CASE UNCHANGED vars
  BY <1>8, <1>u DEF vars
<1> QED
  BY <1>1, <1>2, <1>3, <1>4, <1>5, <1>6, <1>7, <1>8 DEF Next, Background

\* Refinement: what the two threads do, seen through feedImage() and
\* consumeResult(), is the pipe of TrackingPipe, the module MeasureSync uses
\* in the tracker's place.
THEOREM ImplementsPipe == Spec => PipeSpec
<1>1. Init => Pipe!PipeInit
  BY RefineInit
<1>2. IInv /\ [Next]_vars => [Pipe!PipeNext]_(Pipe!pipeVars)
  BY RefineStep
<1> QED
  BY Invariant, <1>1, <1>2, PTL DEF Spec, PipeSpec, Pipe!PipeSpec

-----------------------------------------------------------------------------
(* Tracking once and replaying.                                            *)

-----------------------------------------------------------------------------
(* Induction.  The library's induction theorems take a predicate; a set of *)
(* natural numbers with its least element says the same of a set.          *)

\* A set of natural numbers that is not empty has a least element.
LEMMA LeastNatural ==
  ASSUME NEW S \in SUBSET Nat, S # {}
  PROVE  \E m \in S : \A k \in S : m <= k
<1> DEFINE T == {1..s : s \in S}
<1>1. IsWellFoundedOn(StrictSubsetOrdering(Nat), FiniteSubsetsOf(Nat))
  BY FS_StrictSubsetOrderingWellFounded
<1>2. T \subseteq FiniteSubsetsOf(Nat)
  <2> SUFFICES ASSUME NEW s \in S PROVE 1..s \in FiniteSubsetsOf(Nat)
    OBVIOUS
  <2>1. IsFiniteSet(1..s)
    BY FS_Interval
  <2> QED  BY <2>1 DEF FiniteSubsetsOf
<1>3. T # {}
  OBVIOUS
<1> HIDE DEF T
<1>4. PICK x \in T : \A y \in T : ~(<<y, x>> \in StrictSubsetOrdering(Nat))
  BY <1>1, <1>2, <1>3, WFMin
<1>5. PICK m \in S : x = 1..m
  BY DEF T
<1>6. ASSUME NEW k \in S, k < m PROVE FALSE
  <2>1. 1..k \in T
    BY DEF T
  <2>2. 1..k \subseteq 1..m /\ m \in 1..m /\ m \notin 1..k /\ 1..k \in SUBSET Nat /\ 1..m \in SUBSET Nat
    BY <1>6
  <2> QED  BY <2>1, <2>2, <1>4, <1>5 DEF StrictSubsetOrdering
<1> QED  BY <1>6

-----------------------------------------------------------------------------
(* The binary search of findByTimestamp().                                 *)

Ranges(n) == Nat \X (0..n)

\* One turn of the search with `search' for the turns to come.
Turn(frames, t, search, range) ==
  LET half == range[2] \div 2
      mid == range[1] + half
  IN  IF range[2] = 0 THEN range[1]
      ELSE IF frames[mid + 1].t < t - Tolerance
      THEN search[<<mid + 1, range[2] - half - 1>>]
      ELSE search[<<range[1], half>>]

IsSearch(frames, t, f, n) == f = [range \in Ranges(n) |-> Turn(frames, t, f, range)]
Search(frames, t) == CHOOSE f : IsSearch(frames, t, f, Len(frames))

LEMMA LowerBoundSearch ==
  ASSUME NEW frames, NEW t
  PROVE  LowerBound(frames, t) = Search(frames, t)[<<0, Len(frames)>>] + 1
BY DEF LowerBound, Search, IsSearch, Turn, Ranges

\* A turn goes on with a shorter range.
LEMMA HalfFacts ==
  ASSUME NEW n \in Nat, NEW range \in Ranges(n), range[2] # 0
  PROVE  /\ range[2] \div 2 \in 0..(range[2] - 1)
         /\ range[2] - range[2] \div 2 - 1 \in 0..(range[2] - 1)
         /\ range[1] + range[2] \div 2 + 1 \in Nat
         /\ range[1] \in Nat /\ range[2] \in 1..n
BY DEF Ranges

LEMMA TurnShortens ==
  ASSUME NEW frames, NEW t, NEW f, NEW g, NEW n \in Nat, NEW range \in Ranges(n + 1),
         \A r \in Ranges(n) : f[r] = g[r]
  PROVE  Turn(frames, t, f, range) = Turn(frames, t, g, range)
<1>1. CASE range[2] = 0
  BY <1>1 DEF Turn
<1>2. CASE range[2] # 0
  <2> DEFINE half == range[2] \div 2
  <2>1. <<range[1] + half + 1, range[2] - half - 1>> \in Ranges(n) /\ <<range[1], half>> \in Ranges(n)
    BY <1>2, HalfFacts DEF Ranges
  <2>2. /\ f[<<range[1] + half + 1, range[2] - half - 1>>] = g[<<range[1] + half + 1, range[2] - half - 1>>]
        /\ f[<<range[1], half>>] = g[<<range[1], half>>]
    BY <2>1
  <2> QED  BY <1>2, <2>2 DEF Turn
<1> QED  BY <1>1, <1>2

\* The recursion is well founded: a search of every size exists.
LEMMA SearchExists ==
  ASSUME NEW frames, NEW t
  PROVE  \A n \in Nat : \E f : IsSearch(frames, t, f, n)
<1> DEFINE Bad == {n \in Nat : ~\E f : IsSearch(frames, t, f, n)}
<1> SUFFICES ASSUME Bad # {} PROVE FALSE
  OBVIOUS
<1>1. PICK m \in Bad : \A k \in Bad : m <= k
  BY LeastNatural
<1>2. m # 0
  <2> DEFINE f == [range \in Ranges(0) |-> range[1]]
  <2>1. \A range \in Ranges(0) : Turn(frames, t, f, range) = range[1]
    BY DEF Turn, Ranges
  <2>2. f = [range \in Ranges(0) |-> Turn(frames, t, f, range)]
    BY <2>1
  <2>3. 0 \notin Bad
    BY <2>2 DEF IsSearch
  <2> QED  BY <2>3
<1>3. m - 1 \in Nat /\ m - 1 \notin Bad
  BY <1>1, <1>2
<1>4. PICK f : IsSearch(frames, t, f, m - 1)
  BY <1>3
<1> DEFINE g == [range \in Ranges(m) |-> Turn(frames, t, f, range)]
<1>5. Ranges(m - 1) \subseteq Ranges(m)
  BY DEF Ranges
<1>6. \A r \in Ranges(m - 1) : f[r] = g[r]
  BY <1>4, <1>5 DEF IsSearch
<1>7. \A range \in Ranges(m) : Turn(frames, t, f, range) = Turn(frames, t, g, range)
  <2> HIDE DEF g
  <2>1. m - 1 + 1 = m
    BY <1>3
  <2> QED  BY <1>3, <1>6, <2>1, TurnShortens
<1>8. g = [range \in Ranges(m) |-> Turn(frames, t, g, range)]
  <2>1. \A range \in Ranges(m) : g[range] = Turn(frames, t, g, range)
    BY <1>7
  <2> QED  BY <2>1
<1>9. m \notin Bad
  BY <1>8 DEF IsSearch
<1> QED  BY <1>1, <1>9

LEMMA SearchTurns ==
  ASSUME NEW frames, NEW t, Len(frames) \in Nat, NEW range \in Ranges(Len(frames))
  PROVE  Search(frames, t)[range] = Turn(frames, t, Search(frames, t), range)
<1>1. IsSearch(frames, t, Search(frames, t), Len(frames))
  BY SearchExists DEF Search
<1> QED  BY <1>1 DEF IsSearch

Dated(frames) ==
  /\ Len(frames) \in Nat /\ DOMAIN frames = 1..Len(frames)
  /\ \A i \in DOMAIN frames : frames[i].t \in Int

\* Records in the order of their stamps.
Sorted(frames) == \A i, j \in DOMAIN frames : i < j => frames[i].t < frames[j].t

\* Whatever part of the file it is given, the search ends at the first record
\* there that is not too early.
Parts(frames, t, range, k) ==
  /\ k \in range[1]..(range[1] + range[2])
  /\ \A i \in (range[1] + 1)..k : frames[i].t < t - Tolerance
  /\ \A i \in (k + 1)..(range[1] + range[2]) : ~(frames[i].t < t - Tolerance)

LEMMA SearchParts ==
  ASSUME NEW frames, Dated(frames), Sorted(frames), NEW t \in Int
  PROVE  \A n \in 0..Len(frames) : \A first \in 0..(Len(frames) - n) :
           Parts(frames, t, <<first, n>>, Search(frames, t)[<<first, n>>])
<1> DEFINE S == Search(frames, t)
           OK(n) == \A first \in 0..(Len(frames) - n) : Parts(frames, t, <<first, n>>, S[<<first, n>>])
           Bad == {n \in 0..Len(frames) : ~OK(n)}
<1>0. Len(frames) \in Nat /\ DOMAIN frames = 1..Len(frames) /\ \A i \in DOMAIN frames : frames[i].t \in Int
  BY DEF Dated
<1>t. Tolerance \in Nat
  BY CacheAssumption
<1> SUFFICES ASSUME Bad # {} PROVE FALSE
  OBVIOUS
<1>1. PICK m \in Bad : \A k \in Bad : m <= k
  <2>1. Bad \subseteq Nat
    OBVIOUS
  <2> HIDE DEF Bad
  <2> QED  BY <2>1, LeastNatural
<1>2. m \in 0..Len(frames) /\ ~OK(m) /\ \A k \in 0..(m - 1) : OK(k)
  BY <1>0, <1>1
<1> HIDE DEF Bad
<1>3. PICK first \in 0..(Len(frames) - m) : ~Parts(frames, t, <<first, m>>, S[<<first, m>>])
  BY <1>2
<1> DEFINE half == m \div 2
           mid == first + half
<1>4. <<first, m>> \in Ranges(Len(frames))
  BY <1>0, <1>2, <1>3 DEF Ranges
<1>5. S[<<first, m>>] = Turn(frames, t, S, <<first, m>>)
  <2> HIDE DEF S
  <2> QED  BY <1>0, <1>4, SearchTurns DEF S
<1> HIDE DEF S
<1>6. m # 0
  <2> SUFFICES ASSUME m = 0 PROVE FALSE
    OBVIOUS
  <2>1. S[<<first, m>>] = first
    BY <1>5 DEF Turn
  <2> QED  BY <1>3, <2>1 DEF Parts
<1>7. half \in 0..(m - 1) /\ m - half - 1 \in 0..(m - 1)
  BY <1>2, <1>6
<1> HIDE DEF half
<1>8. mid + 1 \in 1..Len(frames) /\ mid + 1 <= first + m /\ first < mid + 1
  BY <1>0, <1>2, <1>3, <1>7
<1>m. mid \in Nat /\ first \in Nat
  BY <1>0, <1>2, <1>3, <1>7
<1>9. CASE frames[mid + 1].t < t - Tolerance
  <2>1. S[<<first, m>>] = S[<<mid + 1, m - half - 1>>]
    BY <1>5, <1>6, <1>9 DEF Turn, half
  <2>2. Parts(frames, t, <<mid + 1, m - half - 1>>, S[<<first, m>>])
    <3>1. OK(m - half - 1)
      BY <1>2, <1>7
    <3>2. mid + 1 \in 0..(Len(frames) - (m - half - 1))
      BY <1>0, <1>2, <1>3, <1>7, <1>8
    <3> HIDE DEF mid
    <3> QED  BY <2>1, <3>1, <3>2
  <2>3. mid + 1 + (m - half - 1) = first + m
    BY <1>0, <1>2, <1>3, <1>7
  <2>4. PICK k \in (mid + 1)..(first + m) : k = S[<<first, m>>]
    BY <2>2, <2>3 DEF Parts
  <2>5. \A i \in (mid + 2)..k : frames[i].t < t - Tolerance
    <3>1. \A i \in (mid + 1 + 1)..k : frames[i].t < t - Tolerance
      BY <2>2, <2>4 DEF Parts
    <3>2. mid + 1 + 1 = mid + 2
      BY <1>m
    <3> QED  BY <3>1, <3>2
  <2>6. \A i \in (k + 1)..(first + m) : ~(frames[i].t < t - Tolerance)
    BY <2>2, <2>3, <2>4 DEF Parts
  <2>7. \A i \in (first + 1)..(mid + 1) : frames[i].t < t - Tolerance
    <3> SUFFICES ASSUME NEW i \in (first + 1)..(mid + 1) PROVE frames[i].t < t - Tolerance
      OBVIOUS
    <3>1. i \in DOMAIN frames /\ mid + 1 \in DOMAIN frames /\ i <= mid + 1
      BY <1>0, <1>3, <1>8
    <3>2. frames[i].t <= frames[mid + 1].t
      BY <1>0, <3>1 DEF Sorted
    <3> QED  BY <1>0, <1>9, <1>t, <3>1, <3>2
  <2>8. k \in first..(first + m)
    BY <1>0, <1>3, <1>8, <2>4
  <2>9. \A i \in (first + 1)..k : frames[i].t < t - Tolerance
    <3> SUFFICES ASSUME NEW i \in (first + 1)..k PROVE frames[i].t < t - Tolerance
      OBVIOUS
    <3>1. mid \in Int /\ first \in Int /\ k \in Int
      BY <1>m, <2>8
    <3> HIDE DEF mid
    <3>2. i \in (first + 1)..(mid + 1) \/ i \in (mid + 2)..k
      BY <3>1
    <3> QED  BY <2>5, <2>7, <3>2
  <2> QED  BY <1>3, <2>4, <2>6, <2>8, <2>9 DEF Parts
<1>10. CASE ~(frames[mid + 1].t < t - Tolerance)
  <2>1. S[<<first, m>>] = S[<<first, half>>]
    BY <1>5, <1>6, <1>10 DEF Turn, half
  <2>2. Parts(frames, t, <<first, half>>, S[<<first, m>>])
    BY <1>0, <1>2, <1>3, <1>7, <2>1
  <2>3. PICK k \in first..(first + half) : k = S[<<first, m>>]
    BY <2>2 DEF Parts
  <2>4. \A i \in (first + 1)..k : frames[i].t < t - Tolerance
    BY <2>2, <2>3 DEF Parts
  <2>5. \A i \in (k + 1)..mid : ~(frames[i].t < t - Tolerance)
    BY <2>2, <2>3 DEF Parts
  <2>6. \A i \in (mid + 1)..(first + m) : ~(frames[i].t < t - Tolerance)
    <3> SUFFICES ASSUME NEW i \in (mid + 1)..(first + m) PROVE ~(frames[i].t < t - Tolerance)
      OBVIOUS
    <3>1. i \in DOMAIN frames /\ mid + 1 \in DOMAIN frames /\ mid + 1 <= i
      BY <1>0, <1>2, <1>3, <1>8
    <3>2. frames[mid + 1].t <= frames[i].t
      BY <1>0, <3>1 DEF Sorted
    <3> QED  BY <1>0, <1>10, <1>t, <3>1, <3>2
  <2>7. k \in first..(first + m)
    BY <1>0, <1>2, <1>3, <1>7, <2>3
  <2>8. \A i \in (k + 1)..(first + m) : ~(frames[i].t < t - Tolerance)
    <3> SUFFICES ASSUME NEW i \in (k + 1)..(first + m) PROVE ~(frames[i].t < t - Tolerance)
      OBVIOUS
    <3>1. k \in Int /\ mid \in Int
      BY <1>m, <2>7
    <3> HIDE DEF mid
    <3>2. i \in (k + 1)..mid \/ i \in (mid + 1)..(first + m)
      BY <3>1
    <3> QED  BY <2>5, <2>6, <3>2
  <2> QED  BY <1>3, <2>3, <2>4, <2>7, <2>8 DEF Parts
<1> QED  BY <1>9, <1>10

\* lower_bound on a sorted file: the first record that is not too early.
LEMMA LowerBoundFacts ==
  ASSUME NEW frames, Dated(frames), Sorted(frames), NEW t \in Int
  PROVE  /\ LowerBound(frames, t) \in 1..(Len(frames) + 1)
         /\ \A i \in 1..(LowerBound(frames, t) - 1) : frames[i].t < t - Tolerance
         /\ \A i \in LowerBound(frames, t)..Len(frames) : ~(frames[i].t < t - Tolerance)
<1>1. Len(frames) \in Nat
  BY DEF Dated
<1>2. Parts(frames, t, <<0, Len(frames)>>, Search(frames, t)[<<0, Len(frames)>>])
  BY <1>1, SearchParts
<1>3. PICK k \in 0..Len(frames) : k = Search(frames, t)[<<0, Len(frames)>>]
  BY <1>1, <1>2 DEF Parts
<1>4. LowerBound(frames, t) = k + 1
  BY <1>3, LowerBoundSearch
<1>5. /\ \A i \in 1..k : frames[i].t < t - Tolerance
      /\ \A i \in (k + 1)..Len(frames) : ~(frames[i].t < t - Tolerance)
  BY <1>1, <1>2, <1>3 DEF Parts
<1> QED  BY <1>1, <1>4, <1>5

-----------------------------------------------------------------------------
(* The images of a bag.                                                    *)

LEMMA SeqFacts ==
  ASSUME NEW S, NEW s \in Seq(S)
  PROVE  /\ Len(s) \in Nat /\ DOMAIN s = 1..Len(s)
         /\ \A i \in 1..Len(s) : s[i] \in S
OBVIOUS

LEMMA AppendFacts ==
  ASSUME NEW S, NEW s \in Seq(S), NEW e \in S
  PROVE  /\ Append(s, e) \in Seq(S)
         /\ Len(Append(s, e)) = Len(s) + 1
         /\ DOMAIN Append(s, e) = 1..(Len(s) + 1)
         /\ \A i \in 1..Len(s) : Append(s, e)[i] = s[i]
         /\ Append(s, e)[Len(s) + 1] = e
OBVIOUS

LEMMA BagFacts ==
  ASSUME NEW b \in Bags
  PROVE  /\ Len(b) \in Nat /\ DOMAIN b = 1..Len(b)
         /\ \A i \in 1..Len(b) : b[i].t \in Nat /\ b[i].empty \in BOOLEAN
         /\ \A i, j \in 1..Len(b) : i # j => ~(b[i].t - b[j].t \in -Tolerance..Tolerance)
         /\ Tolerance \in Nat /\ Tolerance > 0
<1>1. b \in Seq([t : Nat, empty : BOOLEAN, scores : Seq(Nat)])
  BY CacheAssumption
<1>2. Len(b) \in Nat /\ DOMAIN b = 1..Len(b)
  BY <1>1
<1>3. \A i \in 1..Len(b) : b[i] \in [t : Nat, empty : BOOLEAN, scores : Seq(Nat)]
  BY <1>1, SeqFacts
<1>4. Tolerance \in Nat /\ Tolerance > 0
  BY CacheAssumption
<1>5. \A i, j \in DOMAIN b : i # j => ~(b[i].t - b[j].t \in -Tolerance..Tolerance)
  BY CacheAssumption
<1> QED  BY <1>2, <1>3, <1>4, <1>5

\* No two images share a stamp.
LEMMA StampsDiffer ==
  ASSUME NEW b \in Bags, NEW i \in 1..Len(b), NEW j \in 1..Len(b), b[i].t = b[j].t
  PROVE  i = j
<1>1. b[i].t \in Int /\ b[j].t \in Int /\ Tolerance \in Nat
  BY BagFacts
<1>2. b[i].t - b[j].t \in -Tolerance..Tolerance
  BY <1>1
<1> QED  BY <1>2, BagFacts

ImageAt(b, t) == b[CHOOSE i \in 1..Len(b) : b[i].t = t]

LEMMA ImageAtStamp ==
  ASSUME NEW b \in Bags, NEW i \in 1..Len(b)
  PROVE  ImageAt(b, b[i].t) = b[i]
<1> DEFINE j == CHOOSE k \in 1..Len(b) : b[k].t = b[i].t
<1>1. j \in 1..Len(b) /\ b[j].t = b[i].t
  OBVIOUS
<1>2. j = i
  BY <1>1, StampsDiffer
<1> QED  BY <1>2 DEF ImageAt

\* What increases from image to image increases along the bag.
LEMMA IncreasingStamps ==
  ASSUME bag \in Bags, Increasing, NEW i \in 1..Len(bag), NEW j \in 1..Len(bag), i < j
  PROVE  bag[i].t < bag[j].t
<1> DEFINE Bad == {k \in (i + 1)..Len(bag) : ~(bag[i].t < bag[k].t)}
<1>0. Len(bag) \in Nat /\ \A k \in 1..Len(bag) : bag[k].t \in Int
  BY BagFacts
<1>1. SUFFICES ASSUME Bad # {} PROVE FALSE
  BY <1>0
<1>2. PICK m \in Bad : \A k \in Bad : m <= k
  <2>1. Bad \subseteq Nat
    BY <1>0
  <2> HIDE DEF Bad
  <2> QED  BY <1>1, <2>1, LeastNatural
<1>3. m \in (i + 1)..Len(bag) /\ ~(bag[i].t < bag[m].t) /\ m - 1 \notin Bad
  BY <1>0, <1>2
<1>4. m - 1 \in 1..(Len(bag) - 1) /\ m - 1 + 1 = m
  BY <1>0, <1>3
<1>5. bag[m - 1].t < bag[m].t
  BY <1>4 DEF Increasing
<1>6. m - 1 = i \/ bag[i].t < bag[m - 1].t
  BY <1>0, <1>3
<1>7. bag[m - 1].t \in Int /\ bag[m].t \in Int /\ bag[i].t \in Int
  BY <1>0, <1>3, <1>4
<1> QED  BY <1>3, <1>5, <1>6, <1>7

-----------------------------------------------------------------------------
(* The invariant.                                                          *)

\* Everything an anchor selection can give.
SelectionsOf(b) == UNION {{SelectAnchors(b[i], set) : i \in DOMAIN b} : set \in SettingSet}
Selections == {<<>>} \cup UNION {SelectionsOf(b) : b \in Bags}
Trackers == [from : Seq(Int), anchors : Selections]
Results == [t : Int, prev : Int, ok : BOOLEAN, from : Seq(Int), anchors : Selections,
            reseeded : BOOLEAN]

CacheTypeOK ==
  /\ bag \in Bags /\ tool \in SettingSet /\ run \in SettingSet
  /\ phase \in {"feeding", "writing", "ended", "running", "refused"}
  /\ next \in 1..(Len(bag) + 1) /\ counter \in Nat
  /\ tracker \in Trackers /\ shadow \in Trackers
  /\ records \in Seq(Results) /\ results \in Seq(Results) /\ live \in Seq(Results)
  /\ current \in Int /\ chain \in Int

\* What a result shows of the tracker it came from, and of the one it leaves.
Seen(tr) ==
  LET ok == tr.anchors # <<>>
  IN  [ok |-> ok, from |-> IF ok THEN tr.from ELSE <<>>, anchors |-> IF ok THEN tr.anchors ELSE <<>>]
SeenIn(r) == [ok |-> r.ok, from |-> r.from, anchors |-> r.anchors]
SeenAfter(b, r, set) ==
  IF r.reseeded THEN Seen([from |-> <<r.t>>, anchors |-> SelectAnchors(ImageAt(b, r.t), set)])
  ELSE IF r.ok THEN [ok |-> TRUE, from |-> Append(r.from, r.t), anchors |-> r.anchors]
  ELSE SeenIn(r)

\* One tracker gave the results one after the other, and is now tr.
Chained(b, rs, tr, set) ==
  /\ \A k \in DOMAIN rs : rs[k].reseeded = Reseeds(ImageAt(b, rs[k].t), set)
  /\ rs # <<>> => SeenIn(rs[1]) = Seen(NoTracker)
  /\ \A k \in 1..(Len(rs) - 1) : SeenIn(rs[k + 1]) = SeenAfter(b, rs[k], set)
  /\ Seen(tr) = IF rs = <<>> THEN Seen(NoTracker) ELSE SeenAfter(b, rs[Len(rs)], set)

\* Every result is of one of these images, and every one of them has a result.
From(b, rs, images) == \A k \in DOMAIN rs : \E i \in images : rs[k].t = b[i].t
Covers(b, rs, images) == \A i \in images : \E k \in DOMAIN rs : rs[k].t = b[i].t

\* The images the tool has tracked, and those the run has received.
Passed == IF phase = "feeding" THEN next - 1 ELSE Len(bag)
ToolFed == {i \in 1..Passed : (tool.sub > 1 => i % tool.sub = 0) /\ ~bag[i].empty}
RunFed == {i \in 1..(next - 1) : /\ run.sub > 1 => (i - next + counter + 1) % run.sub = 0
                                 /\ ~bag[i].empty}
RunLater == {i \in RunFed : results # <<>> /\ bag[i].t >= results[1].t}

ToolOK ==
  /\ phase = "feeding" => counter = IF tool.sub > 1 THEN next - 1 ELSE 0
  /\ From(bag, records, ToolFed) /\ Covers(bag, records, ToolFed)
  /\ Increasing => Sorted(records)
  /\ Chained(bag, records, tracker, tool)

\* The file is the beginning of the records; the run has them all.
FileOK ==
  /\ file = [n |-> file.n, frames |-> file.frames, grid |-> file.grid]
  /\ phase \in {"writing", "ended"} =>
       /\ file.n = Len(records)
       /\ file.frames \in Seq(Results) /\ Len(file.frames) <= Len(records)
       /\ \A k \in DOMAIN file.frames : file.frames[k] = records[k]
  /\ phase = "running" => cache = records

LookedUp(frames, r) == [Found(frames, r.t) EXCEPT !.t = r.t, !.prev = r.prev]

RunOK ==
  /\ phase # "running" => results = <<>> /\ live = <<>> /\ shadow = NoTracker /\ current = NoTime
  /\ Len(live) = Len(results)
  /\ \A k \in DOMAIN results : live[k].t = results[k].t /\ live[k].prev = results[k].prev
  /\ \A k \in DOMAIN results : results[k] = LookedUp(records, results[k])
  /\ From(bag, results, RunFed)
  /\ Increasing => Sorted(results) /\ Covers(bag, results, RunLater)
  /\ Chained(bag, live, shadow, run)
  /\ current = NoTime \/ \E i \in 1..(next - 1) : current = bag[i].t

CacheIInv == CacheTypeOK /\ ToolOK /\ FileOK /\ RunOK

-----------------------------------------------------------------------------
(* Trackers and results.                                                   *)

LEMMA NoTrackerType == NoTracker \in Trackers
<1>1. <<>> \in Seq(Int) /\ <<>> \in Selections
  BY DEF Selections
<1> QED  BY <1>1 DEF NoTracker, Trackers

LEMMA SelectionType ==
  ASSUME NEW b \in Bags, NEW i \in 1..Len(b), NEW set \in SettingSet
  PROVE  SelectAnchors(b[i], set) \in Selections
<1>1. i \in DOMAIN b
  BY BagFacts
<1> DEFINE Of(st) == {SelectAnchors(b[j], st) : j \in DOMAIN b}
<1>2. SelectAnchors(b[i], set) \in Of(set)
  BY <1>1
<1>3. SelectionsOf(b) = UNION {Of(st) : st \in SettingSet}
  BY DEF SelectionsOf
<1> HIDE DEF Of
<1>4. SelectAnchors(b[i], set) \in SelectionsOf(b)
  BY <1>2, <1>3
<1>5. SelectionsOf(b) \subseteq Selections
  BY DEF Selections
<1> QED  BY <1>4, <1>5

LEMMA SeenFacts ==
  ASSUME NEW tr
  PROVE  /\ tr.anchors # <<>> => Seen(tr) = [ok |-> TRUE, from |-> tr.from, anchors |-> tr.anchors]
         /\ tr.anchors = <<>> => Seen(tr) = [ok |-> FALSE, from |-> <<>>, anchors |-> <<>>]
<1>1. CASE tr.anchors # <<>>
  <2>1. (tr.anchors # <<>>) = TRUE
    BY <1>1
  <2> QED  BY <1>1, <2>1 DEF Seen
<1>2. CASE tr.anchors = <<>>
  <2>1. (tr.anchors # <<>>) = FALSE
    BY <1>2
  <2> QED  BY <1>2, <2>1 DEF Seen
<1> QED  BY <1>1, <1>2

LEMMA SightParts ==
  ASSUME NEW r, NEW o, NEW f, NEW a, SeenIn(r) = [ok |-> o, from |-> f, anchors |-> a]
  PROVE  r.ok = o /\ r.from = f /\ r.anchors = a
<1>1. PICK x : x = SeenIn(r)
  OBVIOUS
<1>2. x = [ok |-> r.ok, from |-> r.from, anchors |-> r.anchors]
      /\ x = [ok |-> o, from |-> f, anchors |-> a]
  BY <1>1 DEF SeenIn
<1>3. x.ok = r.ok /\ x.from = r.from /\ x.anchors = r.anchors /\ x.ok = o /\ x.from = f /\ x.anchors = a
  BY <1>2
<1> QED  BY <1>3

LEMMA TrackedFacts ==
  ASSUME NEW b \in Bags, NEW i \in 1..Len(b), NEW set \in SettingSet, NEW tr \in Trackers
  PROVE  LET r == Tracked(tr, b[i], set)
         IN  /\ r \in Results
             /\ r.t = b[i].t
             /\ r.reseeded = Reseeds(ImageAt(b, r.t), set)
             /\ SeenIn(r) = Seen(tr)
             /\ Reseeded(tr, b[i], set) \in Trackers
             /\ Seen(Reseeded(tr, b[i], set)) = SeenAfter(b, r, set)
<1> DEFINE r == Tracked(tr, b[i], set)
<1>1. b[i].t \in Int /\ ImageAt(b, b[i].t) = b[i]
  BY BagFacts, ImageAtStamp
<1>2. Reseeds(b[i], set) \in BOOLEAN
  BY DEF Reseeds
<1>3. SelectAnchors(b[i], set) \in Selections /\ <<>> \in Selections
  <2>1. <<>> \in Selections
    BY DEF Selections
  <2> QED  BY <2>1, SelectionType
<1>4. tr.from \in Seq(Int) /\ tr.anchors \in Selections /\ NoTime \in Int /\ <<>> \in Seq(Int)
  BY DEF Trackers, NoTime
<1>5. r = [t |-> b[i].t, prev |-> NoTime, ok |-> tr.anchors # <<>>,
           from |-> IF tr.anchors # <<>> THEN tr.from ELSE <<>>,
           anchors |-> IF tr.anchors # <<>> THEN tr.anchors ELSE <<>>,
           reseeded |-> Reseeds(b[i], set)]
  BY DEF Tracked
<1> HIDE DEF r
<1>6. r \in Results
  <2>1. (tr.anchors # <<>>) \in BOOLEAN
    OBVIOUS
  <2>2. CASE tr.anchors # <<>>
    BY <1>1, <1>2, <1>3, <1>4, <1>5, <2>1, <2>2 DEF Results
  <2>3. CASE tr.anchors = <<>>
    BY <1>1, <1>2, <1>3, <1>4, <1>5, <2>1, <2>3 DEF Results
  <2> QED  BY <2>2, <2>3
<1>7. r.t = b[i].t /\ r.reseeded = Reseeds(b[i], set)
  BY <1>5
<1>8. SeenIn(r) = Seen(tr)
  BY <1>5 DEF SeenIn, Seen
<1>9. Reseeded(tr, b[i], set) \in Trackers
  <2>1. <<b[i].t>> \in Seq(Int) /\ Append(tr.from, b[i].t) \in Seq(Int)
    BY <1>1, <1>4
  <2>2. [from |-> <<b[i].t>>, anchors |-> SelectAnchors(b[i], set)] \in Trackers
    BY <1>3, <2>1 DEF Trackers
  <2>3. Stepped(tr, b[i]) \in Trackers
    BY <1>4, <2>1 DEF Stepped, Trackers
  <2> QED  BY <2>2, <2>3 DEF Reseeded
<1>10. Seen(Reseeded(tr, b[i], set)) = SeenAfter(b, r, set)
  <2>1. CASE Reseeds(b[i], set)
    <3>1. Reseeded(tr, b[i], set) = [from |-> <<r.t>>, anchors |-> SelectAnchors(ImageAt(b, r.t), set)]
      BY <1>1, <1>7, <2>1 DEF Reseeded
    <3> QED  BY <1>7, <2>1, <3>1 DEF SeenAfter
  <2>2. CASE ~Reseeds(b[i], set)
    <3>1. Reseeded(tr, b[i], set) = Stepped(tr, b[i]) /\ ~r.reseeded
      BY <1>7, <2>2 DEF Reseeded
    <3>2. CASE tr.anchors = <<>>
      <4>1. Reseeded(tr, b[i], set) = tr /\ ~r.ok
        BY <1>5, <3>1, <3>2 DEF Stepped
      <4> QED  BY <1>8, <3>1, <4>1 DEF SeenAfter
    <3>3. CASE tr.anchors # <<>>
      <4>1. Reseeded(tr, b[i], set) = [from |-> Append(tr.from, b[i].t), anchors |-> tr.anchors]
        BY <3>1, <3>3 DEF Stepped
      <4>2. r.ok /\ r.from = tr.from /\ r.anchors = tr.anchors
        BY <1>5, <3>3
      <4>3. Seen(Reseeded(tr, b[i], set)) =
              [ok |-> TRUE, from |-> Append(tr.from, b[i].t), anchors |-> tr.anchors]
        <5>1. PICK tr2 : tr2 = Reseeded(tr, b[i], set)
          OBVIOUS
        <5>2. tr2.from = Append(tr.from, b[i].t) /\ tr2.anchors = tr.anchors
          BY <4>1, <5>1
        <5> QED  BY <3>3, <5>1, <5>2, SeenFacts
      <4>4. SeenAfter(b, r, set) = [ok |-> TRUE, from |-> Append(r.from, r.t), anchors |-> r.anchors]
        BY <3>1, <4>2 DEF SeenAfter
      <4>5. Append(r.from, r.t) = Append(tr.from, b[i].t)
        BY <1>7, <4>2
      <4> QED  BY <4>2, <4>3, <4>4, <4>5
    <3> QED  BY <3>2, <3>3
  <2> QED  BY <2>1, <2>2
<1> QED  BY <1>1, <1>6, <1>7, <1>8, <1>9, <1>10 DEF r

\* Chaining does not look at the predecessor's stamp.
LEMMA PrevFacts ==
  ASSUME NEW b, NEW r \in Results, NEW p \in Int
  PROVE  LET q == [r EXCEPT !.prev = p]
         IN  /\ q \in Results /\ q.t = r.t /\ q.prev = p /\ q.reseeded = r.reseeded
             /\ SeenIn(q) = SeenIn(r)
             /\ \A set : SeenAfter(b, q, set) = SeenAfter(b, r, set)
<1> DEFINE q == [r EXCEPT !.prev = p]
<1>1. q \in Results /\ q.t = r.t /\ q.prev = p /\ q.reseeded = r.reseeded
      /\ q.ok = r.ok /\ q.from = r.from /\ q.anchors = r.anchors
  BY DEF Results
<1> HIDE DEF q
<1>2. SeenIn(q) = SeenIn(r)
  BY <1>1 DEF SeenIn
<1>3. \A set : SeenAfter(b, q, set) = SeenAfter(b, r, set)
  BY <1>1, <1>2 DEF SeenAfter
<1> QED  BY <1>1, <1>2, <1>3 DEF q

LEMMA ChainedOn ==
  ASSUME NEW b, NEW rs \in Seq(Results), NEW tr, NEW set, Chained(b, rs, tr, set),
         NEW r \in Results, SeenIn(r) = Seen(tr), r.reseeded = Reseeds(ImageAt(b, r.t), set),
         NEW after, Seen(after) = SeenAfter(b, r, set)
  PROVE  Chained(b, Append(rs, r), after, set)
<1> DEFINE ss == Append(rs, r)
           n == Len(rs)
<1>1. /\ n \in Nat /\ DOMAIN rs = 1..n /\ Len(ss) = n + 1 /\ DOMAIN ss = 1..(n + 1)
      /\ \A i \in 1..n : ss[i] = rs[i]
      /\ ss[n + 1] = r
  BY SeqFacts, AppendFacts
<1>2. /\ \A k \in 1..n : rs[k].reseeded = Reseeds(ImageAt(b, rs[k].t), set)
      /\ n # 0 => SeenIn(rs[1]) = Seen(NoTracker)
      /\ \A k \in 1..(n - 1) : SeenIn(rs[k + 1]) = SeenAfter(b, rs[k], set)
      /\ Seen(tr) = IF n = 0 THEN Seen(NoTracker) ELSE SeenAfter(b, rs[n], set)
  <2>1. n = 0 <=> rs = <<>>
    OBVIOUS
  <2> QED  BY <1>1, <2>1 DEF Chained
<1>3. ss # <<>> /\ Len(ss) # 0
  BY <1>1
<1> HIDE DEF ss, n
<1>4. \A k \in DOMAIN ss : ss[k].reseeded = Reseeds(ImageAt(b, ss[k].t), set)
  <2> SUFFICES ASSUME NEW k \in 1..(n + 1) PROVE ss[k].reseeded = Reseeds(ImageAt(b, ss[k].t), set)
    BY <1>1
  <2>1. CASE k \in 1..n
    BY <1>1, <1>2, <2>1
  <2>2. CASE k = n + 1
    BY <1>1, <2>2
  <2> QED  BY <1>1, <2>1, <2>2
<1>5. SeenIn(ss[1]) = Seen(NoTracker)
  <2>1. CASE n = 0
    BY <1>1, <1>2, <2>1
  <2>2. CASE n # 0
    BY <1>1, <1>2, <2>2
  <2> QED  BY <2>1, <2>2
<1>6. \A k \in 1..(Len(ss) - 1) : SeenIn(ss[k + 1]) = SeenAfter(b, ss[k], set)
  <2> SUFFICES ASSUME NEW k \in 1..n PROVE SeenIn(ss[k + 1]) = SeenAfter(b, ss[k], set)
    BY <1>1
  <2>1. CASE k \in 1..(n - 1)
    <3>1. k + 1 \in 1..n
      BY <1>1, <2>1
    <3> QED  BY <1>1, <1>2, <2>1, <3>1
  <2>2. CASE k = n
    <3>1. n # 0 /\ ss[k] = rs[n] /\ ss[k + 1] = r
      BY <1>1, <2>2
    <3> QED  BY <1>2, <3>1
  <2> QED  BY <1>1, <2>1, <2>2
<1>7. Seen(after) = SeenAfter(b, ss[Len(ss)], set)
  BY <1>1
<1> QED  BY <1>3, <1>4, <1>5, <1>6, <1>7 DEF Chained, ss

-----------------------------------------------------------------------------
(* One more result.                                                        *)

LEMMA FromGrows ==
  ASSUME NEW b, NEW rs \in Seq(Results), NEW r \in Results, NEW F, From(b, rs, F),
         NEW G, F \subseteq G, NEW j \in G, r.t = b[j].t
  PROVE  From(b, Append(rs, r), G)
<1> DEFINE ss == Append(rs, r)
           n == Len(rs)
<1>1. /\ n \in Nat /\ DOMAIN rs = 1..n /\ DOMAIN ss = 1..(n + 1)
      /\ \A i \in 1..n : ss[i] = rs[i]
      /\ ss[n + 1] = r
  BY SeqFacts, AppendFacts
<1> HIDE DEF ss, n
<1> SUFFICES ASSUME NEW k \in 1..(n + 1) PROVE \E i \in G : ss[k].t = b[i].t
  BY <1>1 DEF From, ss
<1>2. CASE k \in 1..n
  <2>1. PICK i \in F : rs[k].t = b[i].t
    BY <1>1, <1>2 DEF From
  <2> QED  BY <1>1, <1>2, <2>1
<1>3. CASE k = n + 1
  BY <1>1, <1>3
<1> QED  BY <1>1, <1>2, <1>3

LEMMA CoversGrows ==
  ASSUME NEW b, NEW rs \in Seq(Results), NEW r \in Results, NEW F, Covers(b, rs, F),
         NEW G, NEW j, G \subseteq F \cup {j}, r.t = b[j].t
  PROVE  Covers(b, Append(rs, r), G)
<1> DEFINE ss == Append(rs, r)
           n == Len(rs)
<1>1. /\ n \in Nat /\ DOMAIN rs = 1..n /\ DOMAIN ss = 1..(n + 1) /\ n + 1 \in DOMAIN ss
      /\ \A i \in 1..n : ss[i] = rs[i] /\ i \in DOMAIN ss
      /\ ss[n + 1] = r
  BY SeqFacts, AppendFacts
<1> HIDE DEF ss, n
<1> SUFFICES ASSUME NEW i \in G PROVE \E k \in DOMAIN ss : ss[k].t = b[i].t
  BY DEF Covers, ss
<1>2. CASE i = j
  BY <1>1, <1>2
<1>3. CASE i \in F
  <2>1. PICK k \in DOMAIN rs : rs[k].t = b[i].t
    BY <1>3 DEF Covers
  <2> QED  BY <1>1, <2>1
<1> QED  BY <1>2, <1>3

LEMMA SortedGrows ==
  ASSUME bag \in Bags, Increasing, NEW rs \in Seq(Results), NEW r \in Results, Sorted(rs),
         NEW j \in 1..Len(bag), NEW F, F \subseteq 1..(j - 1), From(bag, rs, F), r.t = bag[j].t
  PROVE  Sorted(Append(rs, r))
<1> DEFINE ss == Append(rs, r)
           n == Len(rs)
<1>1. /\ n \in Nat /\ DOMAIN rs = 1..n /\ DOMAIN ss = 1..(n + 1)
      /\ \A i \in 1..n : ss[i] = rs[i]
      /\ ss[n + 1] = r
  BY SeqFacts, AppendFacts
<1>2. Len(bag) \in Nat
  BY BagFacts
<1>3. ASSUME NEW i \in 1..n PROVE rs[i].t < r.t
  <2>1. PICK k \in F : rs[i].t = bag[k].t
    BY <1>1 DEF From
  <2>2. k \in 1..Len(bag) /\ k < j
    BY <1>2, <2>1
  <2>3. bag[k].t < bag[j].t
    BY <2>2, IncreasingStamps
  <2> QED  BY <2>1, <2>3
<1> HIDE DEF ss, n
<1> SUFFICES ASSUME NEW i \in 1..(n + 1), NEW k \in 1..(n + 1), i < k PROVE ss[i].t < ss[k].t
  BY <1>1 DEF Sorted, ss
<1>4. i \in 1..n
  BY <1>1
<1>5. CASE k \in 1..n
  BY <1>1, <1>4, <1>5 DEF Sorted
<1>6. CASE k = n + 1
  BY <1>1, <1>3, <1>4, <1>6
<1> QED  BY <1>1, <1>5, <1>6

LEMMA ResultStamps ==
  ASSUME NEW rs \in Seq(Results)
  PROVE  Dated(rs)
<1>1. Len(rs) \in Nat /\ DOMAIN rs = 1..Len(rs) /\ \A i \in 1..Len(rs) : rs[i] \in Results
  BY SeqFacts
<1> QED  BY <1>1 DEF Dated, Results

-----------------------------------------------------------------------------
(* The tool's steps.                                                       *)

LEMMA CacheInitIInv ==
  CacheInit => CacheIInv
<1> SUFFICES ASSUME CacheInit PROVE CacheIInv
  OBVIOUS
<1>1. bag \in Bags /\ Len(bag) \in Nat
  BY BagFacts DEF CacheInit
<1>2. CacheTypeOK
  BY <1>1, NoTrackerType DEF CacheInit, CacheTypeOK, NoTime
<1>3. DOMAIN records = {} /\ DOMAIN results = {} /\ Len(records) = 0 /\ Len(live) = 0 /\ Len(results) = 0
      /\ DOMAIN live = {}
  BY DEF CacheInit
<1>4. Passed = 0
  BY DEF CacheInit, Passed
<1>5. ToolFed = {}
  BY <1>4 DEF ToolFed
<1>6. RunFed = {}
  BY DEF RunFed, CacheInit
<1>7. \A b, set : Chained(b, <<>>, NoTracker, set)
  BY DEF Chained
<1>8. ToolOK
  BY <1>3, <1>5, <1>7 DEF ToolOK, CacheInit, From, Covers, Sorted
<1>9. FileOK
  BY DEF FileOK, CacheInit, NoFile
<1>10. RunLater = {}
  BY <1>6 DEF RunLater
<1>11. RunOK
  BY <1>3, <1>6, <1>7, <1>10 DEF RunOK, CacheInit, From, Covers, Sorted
<1> QED  BY <1>2, <1>8, <1>9, <1>11 DEF CacheIInv

LEMMA RunUntouched ==
  ASSUME RunOK, phase # "running", phase' # "running", UNCHANGED <<results, live, shadow, current>>
  PROVE  RunOK'
<1>1. results' = <<>> /\ live' = <<>> /\ shadow' = NoTracker /\ current' = NoTime
  BY DEF RunOK
<1>2. DOMAIN results' = {} /\ Len(live') = 0 /\ Len(results') = 0 /\ DOMAIN live' = {}
  BY <1>1
<1>3. \A b, set : Chained(b, <<>>, NoTracker, set)
  BY DEF Chained
<1>4. RunLater' = {}
  BY <1>1 DEF RunLater
<1>5. Chained(bag', live', shadow', run')
  BY <1>1, <1>3
<1> QED  BY <1>1, <1>2, <1>4, <1>5 DEF RunOK, From, Covers, Sorted

LEMMA FeedToolKeeps ==
  ASSUME CacheIInv, FeedTool
  PROVE  CacheIInv'
<1>1. /\ phase = "feeding" /\ phase' = phase /\ next \in 1..Len(bag) /\ next' = next + 1
      /\ bag' = bag /\ tool' = tool /\ run' = run /\ file' = file
      /\ cache' = cache /\ current' = current /\ chain' = chain /\ results' = results
      /\ shadow' = shadow /\ live' = live /\ counter' = Counted(tool)
      /\ IF Dropped(tool) THEN UNCHANGED <<tracker, records>>
         ELSE /\ records' = Append(records, Tracked(tracker, bag[next], tool))
              /\ tracker' = Reseeded(tracker, bag[next], tool)
  BY DEF FeedTool, UnchangedByTool, CacheIInv, CacheTypeOK
<1>2. /\ bag \in Bags /\ Len(bag) \in Nat /\ next \in Nat /\ tool \in SettingSet /\ tool.sub \in Int
      /\ records \in Seq(Results) /\ tracker \in Trackers
  <2>1. bag \in Bags /\ next \in 1..(Len(bag) + 1) /\ tool \in SettingSet
    BY DEF CacheIInv, CacheTypeOK
  <2>2. Len(bag) \in Nat
    BY <2>1, BagFacts
  <2>3. tool.sub \in Int
    BY <2>1, CacheAssumption
  <2>4. records \in Seq(Results) /\ tracker \in Trackers
    BY DEF CacheIInv, CacheTypeOK
  <2> QED  BY <2>1, <2>2, <2>3, <2>4
<1>3. counter = (IF tool.sub > 1 THEN next - 1 ELSE 0) /\ counter' = (IF tool.sub > 1 THEN next ELSE 0)
  BY <1>1, <1>2 DEF CacheIInv, ToolOK, Counted
<1>4. Passed = next - 1 /\ Passed' = next
  BY <1>1, <1>2 DEF Passed
<1>5. Dropped(tool) <=> ~((tool.sub > 1 => next % tool.sub = 0) /\ ~bag[next].empty)
  BY <1>1, <1>2, <1>3 DEF Dropped, Skipped, Counted
<1> DEFINE fed == (tool.sub > 1 => next % tool.sub = 0) /\ ~bag[next].empty
<1>6. /\ ToolFed \subseteq 1..(next - 1) /\ ToolFed \subseteq ToolFed'
      /\ ToolFed' \subseteq ToolFed \cup {next}
      /\ next \in ToolFed' <=> fed
  BY <1>1, <1>2, <1>4 DEF ToolFed
<1>7. From(bag, records, ToolFed) /\ Covers(bag, records, ToolFed) /\ Chained(bag, records, tracker, tool)
      /\ (Increasing => Sorted(records))
  BY DEF CacheIInv, ToolOK
<1>8. Increasing' = Increasing
  BY <1>1 DEF Increasing
<1>9. RunOK'
  BY <1>1, RunUntouched DEF CacheIInv
<1>10. FileOK'
  BY <1>1 DEF CacheIInv, FileOK
<1>11. next' \in 1..(Len(bag) + 1) /\ counter' \in Nat
  BY <1>1, <1>2, <1>3
<1>12. CASE Dropped(tool)
  <2>1. ToolFed' = ToolFed
    BY <1>5, <1>6, <1>12
  <2>2. records' = records /\ tracker' = tracker
    BY <1>1, <1>12
  <2>3. CacheTypeOK'
    BY <1>1, <1>11, <2>2 DEF CacheIInv, CacheTypeOK
  <2>4. ToolOK'
    BY <1>1, <1>2, <1>3, <1>7, <1>8, <2>1, <2>2 DEF ToolOK
  <2> QED  BY <1>9, <1>10, <2>3, <2>4 DEF CacheIInv
<1>13. CASE ~Dropped(tool)
  <2> DEFINE r == Tracked(tracker, bag[next], tool)
  <2>1. /\ r \in Results /\ r.t = bag[next].t /\ r.reseeded = Reseeds(ImageAt(bag, r.t), tool)
        /\ SeenIn(r) = Seen(tracker)
        /\ Reseeded(tracker, bag[next], tool) \in Trackers
        /\ Seen(Reseeded(tracker, bag[next], tool)) = SeenAfter(bag, r, tool)
    BY <1>1, <1>2, TrackedFacts
  <2>2. records' = Append(records, r) /\ tracker' = Reseeded(tracker, bag[next], tool)
    BY <1>1, <1>13
  <2>3. next \in ToolFed'
    BY <1>5, <1>6, <1>13
  <2> HIDE DEF r
  <2>4. records' \in Seq(Results) /\ tracker' \in Trackers
    BY <1>2, <2>1, <2>2, AppendFacts
  <2>5. CacheTypeOK'
    BY <1>1, <1>11, <2>4 DEF CacheIInv, CacheTypeOK
  <2>6. From(bag, records', ToolFed')
    BY <1>2, <1>6, <1>7, <2>1, <2>2, <2>3, FromGrows
  <2>7. Covers(bag, records', ToolFed')
    BY <1>2, <1>6, <1>7, <2>1, <2>2, CoversGrows
  <2>8. Increasing => Sorted(records')
    BY <1>1, <1>2, <1>6, <1>7, <2>1, <2>2, SortedGrows
  <2>9. Chained(bag, records', tracker', tool)
    BY <1>2, <1>7, <2>1, <2>2, ChainedOn
  <2>10. ToolOK'
    BY <1>1, <1>2, <1>3, <1>8, <2>6, <2>7, <2>8, <2>9 DEF ToolOK
  <2> QED  BY <1>9, <1>10, <2>5, <2>10 DEF CacheIInv
<1> QED  BY <1>12, <1>13

\* What the tool knows stays while the records and the images passed do.
LEMMA ToolUntouched ==
  ASSUME CacheTypeOK, ToolOK, phase' # "feeding", Passed' = Passed, phase # "feeding" \/ next > Len(bag),
         UNCHANGED <<bag, tool, records, tracker>>
  PROVE  ToolOK'
<1>1. ToolFed' = ToolFed
  BY DEF ToolFed
<1>2. Increasing' = Increasing
  BY DEF Increasing
<1> QED  BY <1>1, <1>2 DEF ToolOK

LEMMA OpenFileKeeps ==
  ASSUME CacheIInv, OpenFile
  PROVE  CacheIInv'
<1>1. /\ phase = "feeding" /\ phase' = "writing" /\ next > Len(bag)
      /\ file' = [n |-> Len(records), frames |-> <<>>, grid |-> tool.grid]
      /\ UNCHANGED <<next, counter, tracker, records, bag, tool, run, cache, current, chain,
                     results, shadow, live>>
  BY DEF OpenFile, UnchangedByTool
<1>2. CacheTypeOK'
  BY <1>1 DEF CacheIInv, CacheTypeOK
<1>3. Len(bag) \in Nat /\ next \in 1..(Len(bag) + 1)
  BY BagFacts DEF CacheIInv, CacheTypeOK
<1>4. Passed' = Passed
  BY <1>1, <1>3 DEF Passed
<1>5. ToolOK'
  BY <1>1, <1>4, ToolUntouched DEF CacheIInv
<1>6. FileOK'
  <2>1. Len(records) \in Nat
    BY SeqFacts DEF CacheIInv, CacheTypeOK
  <2>2. /\ file' = [n |-> file'.n, frames |-> file'.frames, grid |-> file'.grid]
        /\ file'.n = Len(records') /\ file'.frames = <<>>
    BY <1>1
  <2>3. file'.frames \in Seq(Results) /\ Len(file'.frames) = 0 /\ DOMAIN file'.frames = {}
    BY <2>2
  <2> QED  BY <1>1, <2>1, <2>2, <2>3 DEF FileOK
<1>7. RunOK'
  BY <1>1, RunUntouched DEF CacheIInv
<1> QED  BY <1>2, <1>5, <1>6, <1>7 DEF CacheIInv

LEMMA WriteFrameKeeps ==
  ASSUME CacheIInv, WriteFrame
  PROVE  CacheIInv'
<1>1. /\ phase = "writing" /\ phase' = phase /\ Len(file.frames) < Len(records)
      /\ file' = [file EXCEPT !.frames = Append(@, records[Len(@) + 1])]
      /\ UNCHANGED <<next, counter, tracker, records, bag, tool, run, cache, current, chain,
                     results, shadow, live>>
  BY DEF WriteFrame, UnchangedByTool
<1>2. CacheTypeOK'
  BY <1>1 DEF CacheIInv, CacheTypeOK
<1>3. Passed' = Passed
  BY <1>1 DEF Passed
<1>4. ToolOK'
  BY <1>1, <1>3, ToolUntouched DEF CacheIInv
<1>5. FileOK'
  <2> DEFINE fs == file.frames
             n == Len(fs)
             e == records[n + 1]
  <2>1. /\ file.n = Len(records) /\ fs \in Seq(Results)
        /\ \A k \in DOMAIN fs : fs[k] = records[k]
    BY <1>1 DEF CacheIInv, FileOK
  <2>2. /\ n \in Nat /\ DOMAIN fs = 1..n /\ Len(records) \in Nat /\ n < Len(records)
        /\ \A k \in 1..Len(records) : records[k] \in Results
    BY <1>1, <2>1, SeqFacts DEF CacheIInv, CacheTypeOK
  <2> HIDE DEF n
  <2>3. e \in Results
    BY <2>2
  <2>4. /\ Append(fs, e) \in Seq(Results) /\ Len(Append(fs, e)) = n + 1
        /\ DOMAIN Append(fs, e) = 1..(n + 1)
        /\ \A i \in 1..n : Append(fs, e)[i] = fs[i]
        /\ Append(fs, e)[n + 1] = e
    BY <2>1, <2>3, AppendFacts DEF n
  <2>5. file' = [file EXCEPT !.frames = Append(fs, e)]
    BY <1>1 DEF n
  <2>6. /\ file' = [n |-> file'.n, frames |-> file'.frames, grid |-> file'.grid]
        /\ file'.n = file.n /\ file'.frames = Append(fs, e)
    <3>1. file = [n |-> file.n, frames |-> file.frames, grid |-> file.grid]
      BY DEF CacheIInv, FileOK
    <3>2. file' = [n |-> file.n, frames |-> Append(fs, e), grid |-> file.grid]
      BY <2>5, <3>1
    <3> QED  BY <3>2
  <2>7. \A k \in 1..(n + 1) : Append(fs, e)[k] = records[k]
    <3> SUFFICES ASSUME NEW k \in 1..(n + 1) PROVE Append(fs, e)[k] = records[k]
      OBVIOUS
    <3>1. CASE k \in 1..n
      BY <2>1, <2>2, <2>4, <3>1
    <3>2. CASE k = n + 1
      BY <2>4, <3>2
    <3> QED  BY <2>2, <3>1, <3>2
  <2>8. n + 1 <= Len(records)
    BY <2>2
  <2> HIDE DEF e, fs
  <2>9. phase' = "writing" /\ records' = records /\ cache' = cache
    BY <1>1
  <2>10. /\ file'.n = Len(records') /\ file'.frames \in Seq(Results)
         /\ Len(file'.frames) <= Len(records')
    BY <2>1, <2>4, <2>6, <2>8, <2>9
  <2>11. \A k \in DOMAIN file'.frames : file'.frames[k] = records'[k]
    BY <2>4, <2>6, <2>7, <2>9
  <2>12. phase' # "running"
    BY <2>9
  <2>13. file' = [n |-> file'.n, frames |-> file'.frames, grid |-> file'.grid]
    BY <2>6
  <2> QED  BY <2>10, <2>11, <2>12, <2>13 DEF FileOK
<1>6. RunOK'
  BY <1>1, RunUntouched DEF CacheIInv
<1> QED  BY <1>2, <1>4, <1>5, <1>6 DEF CacheIInv

LEMMA EndToolKeeps ==
  ASSUME CacheIInv, EndTool
  PROVE  CacheIInv'
<1>1. /\ phase = "writing" /\ phase' = "ended"
      /\ UNCHANGED <<next, counter, tracker, records, file, bag, tool, run, cache, current, chain,
                     results, shadow, live>>
  BY DEF EndTool, UnchangedByTool
<1>2. CacheTypeOK'
  BY <1>1 DEF CacheIInv, CacheTypeOK
<1>3. Passed' = Passed
  BY <1>1 DEF Passed
<1>4. ToolOK'
  BY <1>1, <1>3, ToolUntouched DEF CacheIInv
<1>5. FileOK'
  BY <1>1 DEF CacheIInv, FileOK
<1>6. RunOK'
  BY <1>1, RunUntouched DEF CacheIInv
<1> QED  BY <1>2, <1>4, <1>5, <1>6 DEF CacheIInv

-----------------------------------------------------------------------------
(* The run's steps.                                                        *)

LEMMA LoadCacheKeeps ==
  ASSUME CacheIInv, LoadCache
  PROVE  CacheIInv'
<1>1. /\ phase = "ended" /\ phase' \in {"running", "refused"}
      /\ phase' = "running" => Len(file.frames) = file.n /\ cache' = file.frames
      /\ next' \in DOMAIN bag /\ counter' = 0
      /\ UNCHANGED <<bag, tool, run, tracker, records, file, current, chain, results, shadow, live>>
  BY DEF LoadCache, Whole
<1>2. Len(bag) \in Nat /\ DOMAIN bag = 1..Len(bag)
  BY BagFacts DEF CacheIInv, CacheTypeOK
<1>3. CacheTypeOK'
  BY <1>1, <1>2 DEF CacheIInv, CacheTypeOK
<1>4. Passed' = Passed
  BY <1>1 DEF Passed
<1>5. ToolOK'
  BY <1>1, <1>4, ToolUntouched DEF CacheIInv
<1>6. FileOK'
  <2> SUFFICES ASSUME phase' = "running" PROVE cache' = records
    BY <1>1 DEF CacheIInv, FileOK
  <2>1. /\ file.frames \in Seq(Results) /\ Len(file.frames) = Len(records)
        /\ \A k \in DOMAIN file.frames : file.frames[k] = records[k]
    BY <1>1 DEF CacheIInv, FileOK
  <2>2. records \in Seq(Results)
    BY DEF CacheIInv, CacheTypeOK
  <2>3. file.frames = records
    BY <2>1, <2>2
  <2> QED  BY <1>1, <2>3
<1>7. RunOK'
  <2>1. results' = <<>> /\ live' = <<>> /\ shadow' = NoTracker /\ current' = NoTime
    BY <1>1 DEF CacheIInv, RunOK
  <2>2. DOMAIN results' = {} /\ Len(live') = 0 /\ Len(results') = 0 /\ DOMAIN live' = {}
    BY <2>1
  <2>3. \A b, set : Chained(b, <<>>, NoTracker, set)
    BY DEF Chained
  <2>4. RunLater' = {}
    BY <2>1 DEF RunLater
  <2>5. Chained(bag', live', shadow', run')
    BY <2>1, <2>3
  <2> QED  BY <2>1, <2>2, <2>4, <2>5 DEF RunOK, From, Covers, Sorted
<1> QED  BY <1>3, <1>5, <1>6, <1>7 DEF CacheIInv

LEMMA FormGroupKeeps ==
  ASSUME CacheIInv, FormGroup
  PROVE  CacheIInv'
<1>1. /\ phase = "running"
      /\ UNCHANGED <<bag, tool, run, phase, next, counter, tracker, records, file, cache,
                     chain, results, shadow, live>>
  BY DEF FormGroup
<1>2. PICK k \in DOMAIN results : current' = results[k].t
  BY DEF FormGroup
<1>3. PICK i \in RunFed : results[k].t = bag[i].t
  BY <1>2 DEF CacheIInv, RunOK, From
<1>4. i \in 1..(next - 1) /\ i \in 1..Len(bag)
  BY <1>3, BagFacts DEF RunFed, CacheIInv, CacheTypeOK
<1>5. bag[i].t \in Int
  BY <1>4, BagFacts DEF CacheIInv, CacheTypeOK
<1>6. CacheTypeOK'
  BY <1>1, <1>2, <1>3, <1>5 DEF CacheIInv, CacheTypeOK
<1>7. ToolFed' = ToolFed /\ RunFed' = RunFed /\ RunLater' = RunLater /\ Increasing' = Increasing
  BY <1>1 DEF ToolFed, Passed, RunFed, RunLater, Increasing
<1>8. ToolOK'
  BY <1>1, <1>7 DEF CacheIInv, ToolOK
<1>9. FileOK'
  BY <1>1 DEF CacheIInv, FileOK
<1>10. \E j \in 1..(next' - 1) : current' = bag'[j].t
  BY <1>1, <1>2, <1>3, <1>4
<1>11. RunOK'
  BY <1>1, <1>7, <1>10 DEF CacheIInv, RunOK
<1> QED  BY <1>6, <1>8, <1>9, <1>11 DEF CacheIInv

LEMMA StutterKeeps ==
  ASSUME CacheIInv, UNCHANGED cacheVars
  PROVE  CacheIInv'
<1>1. UNCHANGED <<bag, tool, run, phase, next, counter, tracker, records, file, cache, current,
                  chain, results, shadow, live>>
  BY DEF cacheVars
<1>2. ToolFed' = ToolFed /\ RunFed' = RunFed /\ RunLater' = RunLater /\ Increasing' = Increasing
  BY <1>1 DEF ToolFed, Passed, RunFed, RunLater, Increasing
<1>3. CacheTypeOK'
  BY <1>1 DEF CacheIInv, CacheTypeOK
<1>4. ToolOK'
  BY <1>1, <1>2 DEF CacheIInv, ToolOK
<1>5. FileOK'
  BY <1>1 DEF CacheIInv, FileOK
<1>6. RunOK'
  BY <1>1, <1>2 DEF CacheIInv, RunOK
<1> QED  BY <1>3, <1>4, <1>5, <1>6 DEF CacheIInv

\* The record an image gets is one the tool made of that very image, wherever the
\* search ended; and on records in order it is missed only when there is none.
LEMMA FoundFacts ==
  ASSUME CacheTypeOK, ToolOK, NEW i \in 1..Len(bag)
  PROVE  LET t == bag[i].t
         IN  /\ \/ Found(records, t) = NoRecord
                \/ \E k \in DOMAIN records : records[k].t = t /\ Found(records, t) = records[k]
             /\ Increasing => \A k \in DOMAIN records : records[k].t = t => Found(records, t) = records[k]
<1> DEFINE t == bag[i].t
           at == LowerBound(records, t)
<1>0. /\ bag \in Bags /\ t \in Int /\ Tolerance \in Nat /\ Tolerance > 0
      /\ records \in Seq(Results) /\ Len(records) \in Nat /\ DOMAIN records = 1..Len(records)
      /\ \A k \in 1..Len(records) : records[k].t \in Int
  <2>1. bag \in Bags /\ records \in Seq(Results)
    BY DEF CacheTypeOK
  <2>2. Dated(records)
    BY <2>1, ResultStamps
  <2> QED  BY <2>1, <2>2, BagFacts DEF Dated
<1>1. ASSUME NEW k \in DOMAIN records, -Tolerance <= records[k].t - t, records[k].t - t <= Tolerance
      PROVE  records[k].t = t
  <2>1. PICK j \in ToolFed : records[k].t = bag[j].t
    BY DEF ToolOK, From
  <2>2. j \in 1..Len(bag)
    <3>1. Passed \in Int /\ Passed <= Len(bag) /\ Len(bag) \in Nat
      BY <1>0, BagFacts DEF CacheTypeOK, Passed
    <3> QED  BY <3>1 DEF ToolFed
  <2>3. bag[j].t - bag[i].t \in -Tolerance..Tolerance
    BY <1>0, <1>1, <2>1
  <2>4. j = i
    BY <1>0, <2>2, <2>3, BagFacts
  <2> QED  BY <2>1, <2>4
<1> HIDE DEF t, at
<1>2. \A k : Matches(records, k, t) => k \in DOMAIN records /\ records[k].t = t
  <2> SUFFICES ASSUME NEW k, Matches(records, k, t) PROVE k \in DOMAIN records /\ records[k].t = t
    OBVIOUS
  <2>1. k \in DOMAIN records /\ records[k].t - t \in (1 - Tolerance)..(Tolerance - 1)
    BY DEF Matches
  <2>2. -Tolerance <= records[k].t - t /\ records[k].t - t <= Tolerance
    BY <1>0, <2>1
  <2> QED  BY <1>1, <2>1, <2>2
<1>3. Found(records, t) = IF Matches(records, at, t) THEN records[at]
                          ELSE IF Matches(records, at - 1, t) THEN records[at - 1] ELSE NoRecord
  BY DEF Found, at
<1>4. \/ Found(records, t) = NoRecord
      \/ \E k \in DOMAIN records : records[k].t = t /\ Found(records, t) = records[k]
  BY <1>2, <1>3
<1>5. ASSUME Increasing, NEW k \in DOMAIN records, records[k].t = t
      PROVE  Found(records, t) = records[k]
  <2>1. Sorted(records) /\ Dated(records)
    BY <1>0, <1>5, ResultStamps DEF ToolOK
  <2>2. /\ at \in 1..(Len(records) + 1)
        /\ \A j \in 1..(at - 1) : records[j].t < t - Tolerance
        /\ \A j \in at..Len(records) : ~(records[j].t < t - Tolerance)
    BY <1>0, <2>1, LowerBoundFacts DEF at
  <2>3. ~(k < at)
    <3> SUFFICES ASSUME k < at PROVE FALSE
      OBVIOUS
    <3>1. records[k].t < t - Tolerance
      BY <1>0, <2>2
    <3> QED  BY <1>0, <1>5, <3>1
  <2>4. ~(at < k)
    <3> SUFFICES ASSUME at < k PROVE FALSE
      OBVIOUS
    <3>1. at \in DOMAIN records /\ at \in at..Len(records)
      BY <1>0, <2>2
    <3>2. records[at].t < t /\ ~(records[at].t < t - Tolerance) /\ records[at].t \in Int
      BY <1>0, <1>5, <2>1, <2>2, <3>1 DEF Sorted
    <3>3. -Tolerance <= records[at].t - t /\ records[at].t - t <= Tolerance
      BY <1>0, <3>2
    <3>4. records[at].t = t
      BY <1>1, <3>1, <3>3
    <3> QED  BY <1>0, <3>2, <3>4
  <2>5. at = k
    BY <1>0, <2>2, <2>3, <2>4
  <2>6. Matches(records, at, t)
    <3>1. records[at].t - t = 0
      BY <1>0, <1>5, <2>5
    <3>2. 0 \in (1 - Tolerance)..(Tolerance - 1)
      BY <1>0
    <3> QED  BY <2>5, <3>1, <3>2 DEF Matches
  <2> QED  BY <1>3, <2>5, <2>6
<1> QED  BY <1>4, <1>5 DEF t

LEMMA LookedUpFacts ==
  ASSUME CacheTypeOK, ToolOK, NEW i \in 1..Len(bag), NEW p \in Int
  PROVE  LET r == [Found(records, bag[i].t) EXCEPT !.t = bag[i].t, !.prev = p]
         IN  r \in Results /\ r.t = bag[i].t /\ r.prev = p /\ r = LookedUp(records, r)
<1> DEFINE f == Found(records, bag[i].t)
           r == [f EXCEPT !.t = bag[i].t, !.prev = p]
<1>1. f \in Results
  <2>1. NoRecord \in Results
    BY DEF NoRecord, Results, Selections, NoTime
  <2>2. \A k \in DOMAIN records : records[k] \in Results
    BY SeqFacts DEF CacheTypeOK
  <2> QED  BY <2>1, <2>2, FoundFacts
<1>2. bag[i].t \in Int
  BY BagFacts DEF CacheTypeOK
<1> HIDE DEF f
<1>3. r \in Results /\ r.t = bag[i].t /\ r.prev = p
  BY <1>1, <1>2 DEF Results
<1>4. r = [f EXCEPT !.t = r.t, !.prev = r.prev]
  BY <1>3
<1>5. f = Found(records, r.t)
  BY <1>3 DEF f
<1>6. r = LookedUp(records, r)
  BY <1>4, <1>5 DEF LookedUp
<1> QED  BY <1>3, <1>6 DEF f

\* The images received so far, and the one that arrives.
LEMMA ReceivedFacts ==
  ASSUME CacheTypeOK, ImageCallback
  PROVE  /\ next \in 1..Len(bag) /\ next \in Nat
         /\ RunFed \subseteq 1..(next - 1) /\ RunFed \subseteq RunFed'
         /\ RunFed' \subseteq RunFed \cup {next}
         /\ next \in RunFed' <=> ~Skipped(run) /\ ~bag[next].empty
<1>1. next' = next + 1 /\ bag' = bag /\ run' = run /\ counter' = Counted(run) /\ next <= Len(bag)
  BY DEF ImageCallback
<1>2. Len(bag) \in Nat /\ next \in 1..Len(bag) /\ counter \in Nat /\ run.sub \in Int
  BY <1>1, BagFacts, CacheAssumption DEF CacheTypeOK
<1>3. CASE run.sub > 1
  <2>1. counter' = counter + 1
    BY <1>1, <1>3 DEF Counted
  <2>2. \A i \in Int : i - next' + counter' + 1 = i - next + counter + 1
    BY <1>1, <1>2, <2>1
  <2>3. RunFed' = {i \in 1..next : (i - next + counter + 1) % run.sub = 0 /\ ~bag[i].empty}
    <3>1. \A i \in 1..next : i - next' + counter' + 1 = i - next + counter + 1
      BY <2>2
    <3>2. next' - 1 = next
      BY <1>1, <1>2
    <3>3. RunFed' = {i \in 1..next : (i - next' + counter' + 1) % run.sub = 0 /\ ~bag[i].empty}
      BY <1>1, <1>3, <3>2 DEF RunFed
    <3> QED  BY <3>1, <3>3
  <2>4. RunFed = {i \in 1..(next - 1) : (i - next + counter + 1) % run.sub = 0 /\ ~bag[i].empty}
    BY <1>3 DEF RunFed
  <2>5. 1..next = 1..(next - 1) \cup {next} /\ next - next + counter + 1 = counter + 1
    BY <1>2
  <2>6. Skipped(run) <=> (next - next + counter + 1) % run.sub # 0
    BY <1>3, <2>5 DEF Skipped, Counted
  <2> QED  BY <1>2, <2>3, <2>4, <2>5, <2>6
<1>4. CASE ~(run.sub > 1)
  <2>1. next' - 1 = next
    BY <1>1, <1>2
  <2>2. RunFed' = {i \in 1..next : ~bag[i].empty}
    BY <1>1, <1>4, <2>1 DEF RunFed
  <2>3. RunFed = {i \in 1..(next - 1) : ~bag[i].empty}
    BY <1>4 DEF RunFed
  <2>4. 1..next = 1..(next - 1) \cup {next}
    BY <1>2
  <2>5. ~Skipped(run)
    BY <1>4 DEF Skipped
  <2> QED  BY <1>2, <2>2, <2>3, <2>4, <2>5
<1> QED  BY <1>3, <1>4

\* An image of a bag in order is never too old.
LEMMA ValidInOrder ==
  ASSUME CacheTypeOK, RunOK, Increasing, next \in 1..Len(bag)
  PROVE  IsValid(bag[next].t)
<1>1. Len(bag) \in Nat /\ bag[next].t \in Nat
  BY BagFacts DEF CacheTypeOK
<1>2. CASE current = NoTime
  BY <1>1, <1>2 DEF IsValid, NoTime
<1>3. CASE current # NoTime
  <2>1. PICK i \in 1..(next - 1) : current = bag[i].t
    BY <1>3 DEF RunOK
  <2>2. i \in 1..Len(bag) /\ i < next
    BY <1>1, <2>1
  <2>3. bag[i].t < bag[next].t /\ bag[i].t \in Int
    BY <2>2, IncreasingStamps, BagFacts DEF CacheTypeOK
  <2> QED  BY <1>1, <2>1, <2>3 DEF IsValid
<1> QED  BY <1>2, <1>3

LEMMA ImageCallbackKeeps ==
  ASSUME CacheIInv, ImageCallback
  PROVE  CacheIInv'
<1> DEFINE img == bag[next]
           dropped == Skipped(run) \/ ~IsValid(img.t) \/ img.empty
           found == [Found(records, img.t) EXCEPT !.t = img.t, !.prev = chain]
           tracked == [Tracked(shadow, img, run) EXCEPT !.prev = chain]
<1>1. /\ phase = "running" /\ phase' = phase /\ next' = next + 1 /\ counter' = Counted(run)
      /\ UNCHANGED <<bag, tool, run, tracker, records, file, cache, current>>
  BY DEF ImageCallback
<1>2. CacheTypeOK /\ ToolOK /\ RunOK /\ cache = records
  BY <1>1 DEF CacheIInv, FileOK
<1>3. /\ dropped => UNCHANGED <<chain, results, shadow, live>>
      /\ ~dropped => /\ results' = Append(results, found)
                     /\ live' = Append(live, tracked)
                     /\ shadow' = Reseeded(shadow, img, run)
                     /\ chain' = img.t
  BY <1>2 DEF ImageCallback
<1>4. /\ next \in 1..Len(bag) /\ next \in Nat
      /\ RunFed \subseteq 1..(next - 1) /\ RunFed \subseteq RunFed'
      /\ RunFed' \subseteq RunFed \cup {next}
      /\ next \in RunFed' <=> ~Skipped(run) /\ ~img.empty
  BY <1>2, ReceivedFacts
<1>5. /\ bag \in Bags /\ run \in SettingSet /\ results \in Seq(Results) /\ live \in Seq(Results)
      /\ shadow \in Trackers /\ chain \in Int /\ counter \in Nat /\ Len(bag) \in Nat
  BY <1>2, BagFacts DEF CacheTypeOK
<1>6. next' \in 1..(Len(bag) + 1) /\ counter' \in Nat
  BY <1>1, <1>4, <1>5 DEF Counted
<1>7. ToolOK'
  <2>1. Passed' = Passed
    BY <1>1 DEF Passed
  <2> QED  BY <1>1, <1>2, <2>1, ToolUntouched
<1>8. FileOK'
  BY <1>1 DEF CacheIInv, FileOK
<1>9. Increasing' = Increasing
  BY <1>1 DEF Increasing
<1>10. current' = NoTime \/ \E i \in 1..(next' - 1) : current' = bag'[i].t
  <2>1. 1..(next - 1) \subseteq 1..(next' - 1)
    BY <1>1, <1>4
  <2> QED  BY <1>1, <1>2, <2>1 DEF RunOK
<1>11. CASE dropped
  <2>1. UNCHANGED <<chain, results, shadow, live>>
    BY <1>3, <1>11
  <2> HIDE DEF found, tracked
  <2>2. CacheTypeOK'
    BY <1>1, <1>2, <1>6, <2>1 DEF CacheTypeOK
  <2>3. From(bag', results', RunFed')
    BY <1>1, <1>2, <1>4, <2>1 DEF RunOK, From
  <2>4. Increasing => RunLater' = RunLater
    <3> SUFFICES ASSUME Increasing PROVE RunLater' = RunLater
      OBVIOUS
    <3>1. IsValid(img.t)
      BY <1>2, <1>4, ValidInOrder
    <3>2. RunFed' = RunFed
      BY <1>4, <1>11, <3>1
    <3> QED  BY <1>1, <2>1, <3>2 DEF RunLater
  <2>5. RunOK'
    BY <1>1, <1>2, <1>9, <1>10, <2>1, <2>3, <2>4 DEF RunOK
  <2> QED  BY <1>7, <1>8, <2>2, <2>5 DEF CacheIInv
<1>12. CASE ~dropped
  <2>1. /\ results' = Append(results, found) /\ live' = Append(live, tracked)
        /\ shadow' = Reseeded(shadow, img, run) /\ chain' = img.t
    BY <1>3, <1>12
  <2>2. next \in RunFed'
    BY <1>4, <1>12
  <2>3. found \in Results /\ found.t = img.t /\ found.prev = chain /\ found = LookedUp(records, found)
    BY <1>2, <1>4, <1>5, LookedUpFacts
  <2>4. /\ Tracked(shadow, img, run) \in Results /\ Tracked(shadow, img, run).t = img.t
        /\ Tracked(shadow, img, run).reseeded = Reseeds(ImageAt(bag, img.t), run)
        /\ SeenIn(Tracked(shadow, img, run)) = Seen(shadow)
        /\ shadow' \in Trackers
        /\ Seen(shadow') = SeenAfter(bag, Tracked(shadow, img, run), run)
    BY <1>4, <1>5, <2>1, TrackedFacts
  <2>5. /\ tracked \in Results /\ tracked.t = img.t /\ tracked.prev = chain
        /\ tracked.reseeded = Reseeds(ImageAt(bag, tracked.t), run)
        /\ SeenIn(tracked) = Seen(shadow)
        /\ Seen(shadow') = SeenAfter(bag, tracked, run)
    BY <1>5, <2>4, PrevFacts
  <2> HIDE DEF found, tracked
  <2>6. /\ results' \in Seq(Results) /\ Len(results') = Len(results) + 1
        /\ DOMAIN results' = 1..(Len(results) + 1)
        /\ \A k \in 1..Len(results) : results'[k] = results[k]
        /\ results'[Len(results) + 1] = found
    BY <1>5, <2>1, <2>3, AppendFacts
  <2>7. /\ live' \in Seq(Results) /\ Len(live') = Len(live) + 1
        /\ \A k \in 1..Len(live) : live'[k] = live[k]
        /\ live'[Len(live) + 1] = tracked
    BY <1>5, <2>1, <2>5, AppendFacts
  <2>8. Len(live) = Len(results) /\ Len(results) \in Nat /\ DOMAIN results = 1..Len(results)
    BY <1>2, <1>5, SeqFacts DEF RunOK
  <2>9. CacheTypeOK'
    <3>1. chain' \in Int
      BY <1>4, <1>5, <2>1, BagFacts
    <3> QED  BY <1>1, <1>2, <1>6, <2>4, <2>6, <2>7, <3>1 DEF CacheTypeOK
  <2>10. \A k \in DOMAIN results' : /\ live'[k].t = results'[k].t /\ live'[k].prev = results'[k].prev
                                    /\ results'[k] = LookedUp(records, results'[k])
    <3> SUFFICES ASSUME NEW k \in 1..(Len(results) + 1)
                 PROVE  /\ live'[k].t = results'[k].t /\ live'[k].prev = results'[k].prev
                        /\ results'[k] = LookedUp(records, results'[k])
      BY <2>6
    <3>1. CASE k \in 1..Len(results)
      BY <1>2, <2>6, <2>7, <2>8, <3>1 DEF RunOK
    <3>2. CASE k = Len(results) + 1
      BY <2>3, <2>5, <2>6, <2>7, <2>8, <3>2
    <3> QED  BY <2>8, <3>1, <3>2
  <2>11. From(bag, results', RunFed')
    <3>1. From(bag, results, RunFed)
      BY <1>2 DEF RunOK
    <3> QED  BY <1>4, <1>5, <2>1, <2>2, <2>3, <3>1, FromGrows
  <2>12. Chained(bag, live', shadow', run)
    <3>1. Chained(bag, live, shadow, run)
      BY <1>2 DEF RunOK
    <3> QED  BY <1>5, <2>1, <2>5, <3>1, ChainedOn
  <2>13. ASSUME Increasing PROVE Sorted(results') /\ Covers(bag, results', RunLater')
    <3>1. Sorted(results) /\ Covers(bag, results, RunLater) /\ From(bag, results, RunFed)
      BY <1>2, <2>13 DEF RunOK
    <3>2. Sorted(results')
      BY <1>4, <1>5, <2>1, <2>3, <2>13, <3>1, SortedGrows
    <3>3. RunLater' \subseteq RunLater \cup {next}
      <4> SUFFICES ASSUME NEW i \in RunLater', i # next PROVE i \in RunLater
        OBVIOUS
      <4>1. i \in RunFed /\ bag[i].t >= results'[1].t
        BY <1>1, <1>4 DEF RunLater
      <4>2. i \in 1..Len(bag) /\ i < next
        BY <1>4, <1>5, <4>1
      <4>3. bag[i].t < bag[next].t /\ bag[i].t \in Int /\ bag[next].t \in Int
        BY <1>4, <1>5, <2>13, <4>2, IncreasingStamps, BagFacts
      <4>4. Len(results) # 0
        BY <2>3, <2>6, <4>1, <4>3
      <4>5. results # <<>> /\ results'[1] = results[1]
        BY <2>6, <2>8, <4>4
      <4> QED  BY <4>1, <4>5 DEF RunLater
    <3>4. Covers(bag, results', RunLater')
      BY <1>5, <2>1, <2>3, <3>1, <3>3, CoversGrows
    <3> QED  BY <3>2, <3>4
  <2>14. Len(live') = Len(results')
    BY <2>6, <2>7, <2>8
  <2>15. RunOK'
    BY <1>1, <1>9, <1>10, <2>10, <2>11, <2>12, <2>13, <2>14 DEF RunOK
  <2> QED  BY <1>7, <1>8, <2>9, <2>15 DEF CacheIInv
<1> QED  BY <1>11, <1>12

\* The invariant holds in every state.
THEOREM CacheInvariant == CacheSpec => []CacheIInv
<1>1. CacheIInv /\ [CacheNext]_cacheVars => CacheIInv'
  <2> SUFFICES ASSUME CacheIInv, [CacheNext]_cacheVars PROVE CacheIInv'
    OBVIOUS
  <2>1. CASE FeedTool
    BY <2>1, FeedToolKeeps
  <2>2. CASE OpenFile
    BY <2>2, OpenFileKeeps
  <2>3. CASE WriteFrame
    BY <2>3, WriteFrameKeeps
  <2>4. CASE EndTool
    BY <2>4, EndToolKeeps
  <2>5. CASE LoadCache
    BY <2>5, LoadCacheKeeps
  <2>6. CASE ImageCallback
    BY <2>6, ImageCallbackKeeps
  <2>7. CASE FormGroup
    BY <2>7, FormGroupKeeps
  <2>8. CASE UNCHANGED cacheVars
    BY <2>8, StutterKeeps
  <2> QED  BY <2>1, <2>2, <2>3, <2>4, <2>5, <2>6, <2>7, <2>8 DEF CacheNext
<1> QED  BY CacheInitIInv, <1>1, PTL DEF CacheSpec

-----------------------------------------------------------------------------
(* Every image gets its own record.                                        *)

LEMMA FindsOwn == CacheIInv => FindsOwnRecord
<1> SUFFICES ASSUME CacheIInv, NEW k \in DOMAIN results
             PROVE  LET mine == {AsRun(r, k) : r \in RecordsOf(results[k].t)}
                        none == [NoRecord EXCEPT !.t = results[k].t, !.prev = results[k].prev]
                    IN  /\ results[k] \in mine \cup {none}
                        /\ Increasing /\ mine # {} => results[k] \in mine
  BY DEF FindsOwnRecord
<1> DEFINE t == results[k].t
           mine == {AsRun(r, k) : r \in RecordsOf(t)}
<1>1. CacheTypeOK /\ ToolOK /\ RunOK
  BY DEF CacheIInv
<1>2. PICK i \in 1..Len(bag) : t = bag[i].t
  <2>1. PICK i \in RunFed : t = bag[i].t
    BY <1>1 DEF RunOK, From
  <2>2. i \in 1..Len(bag)
    BY <1>1, <2>1, BagFacts DEF RunFed, CacheTypeOK
  <2> QED  BY <2>1, <2>2
<1>3. results[k] = [Found(records, t) EXCEPT !.t = t, !.prev = results[k].prev]
  BY <1>1 DEF RunOK, LookedUp
<1>4. /\ \/ Found(records, t) = NoRecord
         \/ \E r \in DOMAIN records : records[r].t = t /\ Found(records, t) = records[r]
      /\ Increasing => \A r \in DOMAIN records : records[r].t = t => Found(records, t) = records[r]
  BY <1>1, <1>2, FoundFacts
<1>5. ASSUME NEW r \in DOMAIN records, records[r].t = t, Found(records, t) = records[r]
      PROVE  results[k] \in mine
  <2>1. r \in RecordsOf(t)
    BY <1>5 DEF RecordsOf
  <2>2. results[k] = AsRun(r, k)
    BY <1>3, <1>5 DEF AsRun
  <2> QED  BY <2>1, <2>2
<1>6. ASSUME Increasing, mine # {} PROVE results[k] \in mine
  <2>1. PICK r \in DOMAIN records : records[r].t = t
    BY <1>6 DEF RecordsOf
  <2> QED  BY <1>4, <1>5, <1>6, <2>1
<1> HIDE DEF mine
<1>7. results[k] \in mine \/ results[k] = [NoRecord EXCEPT !.t = t, !.prev = results[k].prev]
  BY <1>3, <1>4, <1>5
<1> QED  BY <1>6, <1>7 DEF mine

\* Whatever the order of the stamps, an image that is looked up gets what was tracked for
\* that very image or nothing; in order, it gets it whenever the tool has seen the image.
THEOREM FindsOwnCorrect == CacheSpec => []FindsOwnRecord
BY CacheInvariant, FindsOwn, PTL

-----------------------------------------------------------------------------
(* Replaying is tracking.                                                  *)

LEMMA ModFacts ==
  ASSUME NEW x \in Int, NEW d \in Nat, d > 0
  PROVE  /\ x \div d \in Int /\ x % d \in 0..(d - 1)
         /\ x = d * (x \div d) + (x % d)
OBVIOUS

LEMMA NoMultipleBetween ==
  ASSUME NEW q \in Int, NEW d \in Nat, d > 0, 0 <= d * q, d * q < d
  PROVE  d * q = 0
<1>1. ~(q >= 1)
  <2> SUFFICES ASSUME q >= 1 PROVE FALSE
    OBVIOUS
  <2>1. d * q >= d * 1
    OBVIOUS
  <2> QED  BY <2>1
<1>2. ~(q <= -1)
  <2> SUFFICES ASSUME q <= -1 PROVE FALSE
    OBVIOUS
  <2>1. d * q <= d * (-1)
    OBVIOUS
  <2> QED  BY <2>1
<1>3. q = 0
  BY <1>1, <1>2
<1> QED  BY <1>3

LEMMA MultiplesDiffer ==
  ASSUME NEW a \in Int, NEW b \in Int, NEW d \in Nat, d > 0, a % d = 0, b % d = 0
  PROVE  (a + b) % d = 0 /\ (a - b) % d = 0
<1> DEFINE p == a \div d
           q == b \div d
           u == (a + b) \div d
           v == (a - b) \div d
<1>1. p \in Int /\ q \in Int /\ a = d * p /\ b = d * q
  BY ModFacts
<1>2. a + b \in Int /\ a - b \in Int
  OBVIOUS
<1>3. /\ u \in Int /\ (a + b) % d \in 0..(d - 1) /\ a + b = d * u + ((a + b) % d)
  BY <1>2, ModFacts
<1>4. /\ v \in Int /\ (a - b) % d \in 0..(d - 1) /\ a - b = d * v + ((a - b) % d)
  BY <1>2, ModFacts
<1> HIDE DEF p, q, u, v
<1>5. (a + b) % d = d * (p + q - u)
  BY <1>1, <1>3
<1>6. (a - b) % d = d * (p - q - v)
  BY <1>1, <1>4
<1>7. p + q - u \in Int /\ p - q - v \in Int
  BY <1>1, <1>3, <1>4
<1>8. (a + b) % d = 0
  BY <1>3, <1>5, <1>7, NoMultipleBetween
<1>9. (a - b) % d = 0
  BY <1>4, <1>6, <1>7, NoMultipleBetween
<1> QED  BY <1>8, <1>9

LEMMA MultiplesCancel ==
  ASSUME NEW a \in Int, NEW b \in Int, NEW d \in Nat, d > 0, a % d = 0, (a + b) % d = 0
  PROVE  b % d = 0
<1>1. PICK x : x = a + b
  OBVIOUS
<1>2. x \in Int /\ x % d = 0 /\ x - a = b
  BY <1>1
<1>3. (x - a) % d = 0
  BY <1>2, MultiplesDiffer
<1> QED  BY <1>2, <1>3

\* What a run that joins the bag at an image of the cache tracks, the tool has tracked.
LEMMA Aligned ==
  ASSUME CacheIInv, tool = run, NEW first \in RunFed, first \in ToolFed, NEW i \in 1..(next - 1)
  PROVE  i \in RunFed <=> i \in ToolFed
<1>1. /\ bag \in Bags /\ Len(bag) \in Nat /\ next \in 1..(Len(bag) + 1) /\ counter \in Nat
      /\ run.sub \in Int
  BY BagFacts, CacheAssumption DEF CacheIInv, CacheTypeOK
<1>2. first \in Int /\ first \in 1..(next - 1)
  BY DEF RunFed
<1>3. i \in 1..Passed
  <2>1. CASE phase = "feeding"
    BY <2>1 DEF Passed
  <2>2. CASE phase # "feeding"
    BY <1>1, <2>2 DEF Passed
  <2> QED  BY <2>1, <2>2
<1>4. CASE run.sub > 1
  <2>0. run.sub \in Nat /\ run.sub > 0
    BY <1>1, <1>4
  <2> DEFINE c == counter + 1 - next
             at(j) == j - next + counter + 1
  <2>1. c \in Int /\ i \in Int /\ at(first) = first + c /\ at(i) = i + c
    BY <1>1, <1>2
  <2>2. first % run.sub = 0 /\ at(first) % run.sub = 0
    BY <1>4 DEF RunFed, ToolFed
  <2>3. /\ i \in RunFed <=> at(i) % run.sub = 0 /\ ~bag[i].empty
        /\ i \in ToolFed <=> i % run.sub = 0 /\ ~bag[i].empty
    BY <1>3, <1>4 DEF RunFed, ToolFed
  <2> HIDE DEF at, c
  <2>4. c % run.sub = 0
    <3>1. (first + c) % run.sub = 0
      BY <2>1, <2>2
    <3> QED  BY <1>2, <2>0, <2>1, <2>2, <3>1, MultiplesCancel
  <2>5. i % run.sub = 0 => (i + c) % run.sub = 0
    BY <2>0, <2>1, <2>4, MultiplesDiffer
  <2>6. (i + c) % run.sub = 0 => i % run.sub = 0
    <3>1. (i + c) % run.sub = (c + i) % run.sub
      BY <2>1
    <3> QED  BY <2>0, <2>1, <2>4, <3>1, MultiplesCancel
  <2> QED  BY <2>1, <2>3, <2>5, <2>6
<1>5. CASE ~(run.sub > 1)
  BY <1>3, <1>5 DEF RunFed, ToolFed
<1> QED  BY <1>4, <1>5

\* A result and the record it was read from: alike but for the predecessor's stamp.
IsOf(res, rec) == res.t = rec.t /\ res.reseeded = rec.reseeded /\ SeenIn(res) = SeenIn(rec)

LEMMA ReplayFacts ==
  ASSUME CacheIInv, Replaying
  PROVE  /\ phase = "running" /\ Len(results) \in Nat /\ 1 \in 1..Len(results)
         /\ \A i \in 1..(next - 1) : i \in RunFed <=> i \in ToolFed
<1>1. CacheTypeOK /\ ToolOK /\ RunOK
  BY DEF CacheIInv
<1>2. phase = "running"
  BY <1>1 DEF RunOK, Replaying
<1>3. Len(results) \in Nat /\ 1 \in 1..Len(results) /\ DOMAIN results = 1..Len(results)
  <2>1. results \in Seq(Results) /\ results # <<>>
    BY <1>1 DEF CacheTypeOK, Replaying
  <2> QED  BY <2>1
<1>4. PICK first \in RunFed : results[1].t = bag[first].t
  BY <1>1, <1>3 DEF RunOK, From
<1>5. PICK r \in DOMAIN records : records[r].t = results[1].t
  BY DEF Replaying, RecordsOf
<1>6. PICK j \in ToolFed : records[r].t = bag[j].t
  BY <1>1 DEF ToolOK, From
<1>7. first \in 1..Len(bag) /\ j \in 1..Len(bag)
  BY <1>1, <1>2, <1>4, <1>6, BagFacts DEF RunFed, ToolFed, Passed, CacheTypeOK
<1>8. j = first
  BY <1>1, <1>4, <1>5, <1>6, <1>7, StampsDiffer DEF CacheTypeOK
<1>9. first \in ToolFed /\ tool = run
  BY <1>6, <1>8 DEF Replaying
<1>10. \A i \in 1..(next - 1) : i \in RunFed <=> i \in ToolFed
  BY <1>4, <1>9, Aligned
<1> QED  BY <1>2, <1>3, <1>10

LEMMA ResultHasRecord ==
  ASSUME CacheIInv, Replaying, NEW k \in 1..Len(results)
  PROVE  \E r \in DOMAIN records : IsOf(results[k], records[r])
<1>1. CacheTypeOK /\ ToolOK /\ RunOK
  BY DEF CacheIInv
<1>2. results \in Seq(Results) /\ records \in Seq(Results) /\ DOMAIN results = 1..Len(results)
  BY <1>1 DEF CacheTypeOK
<1>3. PICK i \in RunFed : results[k].t = bag[i].t
  BY <1>1, <1>2 DEF RunOK, From
<1>4. i \in 1..Len(bag) /\ i \in 1..(next - 1)
  BY <1>1, <1>3, BagFacts DEF RunFed, CacheTypeOK
<1>5. i \in ToolFed
  BY <1>3, <1>4, ReplayFacts
<1>6. PICK r \in DOMAIN records : records[r].t = bag[i].t
  BY <1>1, <1>5 DEF ToolOK, Covers
<1>7. Found(records, bag[i].t) = records[r]
  BY <1>1, <1>4, <1>6, FoundFacts DEF Replaying
<1>8. results[k] = [records[r] EXCEPT !.t = results[k].t, !.prev = results[k].prev]
  BY <1>1, <1>2, <1>3, <1>7 DEF RunOK, LookedUp
<1>9. records[r] \in Results
  BY <1>2, SeqFacts
<1>10. PICK p, q : p = results[k].t /\ q = results[k].prev
  OBVIOUS
<1>11. results[k] = [records[r] EXCEPT !.t = p, !.prev = q]
  BY <1>8, <1>10
<1>12. /\ results[k].reseeded = records[r].reseeded /\ results[k].ok = records[r].ok
       /\ results[k].from = records[r].from /\ results[k].anchors = records[r].anchors
  BY <1>9, <1>11 DEF Results
<1>13. results[k].t = records[r].t
  BY <1>3, <1>6
<1> QED  BY <1>6, <1>12, <1>13 DEF IsOf, SeenIn

\* The records of one result and the next are one and the next.
LEMMA NextRecord ==
  ASSUME CacheIInv, Replaying, NEW k \in 1..(Len(results) - 1),
         NEW r \in DOMAIN records, IsOf(results[k], records[r]),
         NEW s \in DOMAIN records, IsOf(results[k + 1], records[s])
  PROVE  s = r + 1
<1>1. CacheTypeOK /\ ToolOK /\ RunOK /\ Increasing
  BY DEF CacheIInv, Replaying
<1>2. /\ Len(results) \in Nat /\ DOMAIN results = 1..Len(results) /\ Len(records) \in Nat
      /\ DOMAIN records = 1..Len(records)
      /\ \A i \in DOMAIN results : results[i].t \in Int
      /\ \A i \in DOMAIN records : records[i].t \in Int
  BY <1>1, ResultStamps DEF CacheTypeOK, Dated
<1>3. Sorted(results) /\ Sorted(records) /\ Covers(bag, results, RunLater)
  BY <1>1 DEF RunOK, ToolOK
<1>4. k \in DOMAIN results /\ k + 1 \in DOMAIN results /\ 1 \in DOMAIN results
  BY <1>2
<1>5. results[k].t = records[r].t /\ results[k + 1].t = records[s].t
  BY DEF IsOf
<1>6. records[r].t < records[s].t
  BY <1>2, <1>3, <1>4, <1>5 DEF Sorted
<1>7. r < s
  <2>1. ~(s < r)
    BY <1>2, <1>3, <1>6 DEF Sorted
  <2>2. s # r
    BY <1>2, <1>6
  <2> QED  BY <1>2, <2>1, <2>2
<1>8. ASSUME r + 1 < s PROVE FALSE
  <2>1. r + 1 \in DOMAIN records
    BY <1>2, <1>8
  <2>2. results[k].t < records[r + 1].t /\ records[r + 1].t < results[k + 1].t
    BY <1>2, <1>3, <1>5, <1>8, <2>1 DEF Sorted
  <2>3. PICK j \in ToolFed : records[r + 1].t = bag[j].t
    BY <1>1, <2>1 DEF ToolOK, From
  <2>4. PICK i \in RunFed : results[k + 1].t = bag[i].t
    BY <1>1, <1>4 DEF RunOK, From
  <2>5. /\ bag \in Bags /\ Len(bag) \in Nat /\ next \in Nat
        /\ i \in 1..Len(bag) /\ i \in 1..(next - 1) /\ j \in 1..Len(bag)
    BY <1>1, <2>3, <2>4, BagFacts, ReplayFacts DEF RunFed, ToolFed, Passed, CacheTypeOK
  <2>6. ~(i < j) /\ i # j
    <3>1. bag[i].t \in Int /\ bag[j].t \in Int /\ bag[j].t < bag[i].t
      BY <2>2, <2>3, <2>4, <2>5, BagFacts
    <3> QED  BY <1>1, <2>5, <3>1, IncreasingStamps
  <2>7. j \in 1..(next - 1)
    BY <2>5, <2>6
  <2>8. j \in RunFed
    BY <2>3, <2>7, ReplayFacts
  <2>9. bag[j].t >= results[1].t
    <3>1. k = 1 \/ 1 < k
      BY <1>2, <1>4
    <3>2. 1 < k => results[1].t < results[k].t
      BY <1>3, <1>4 DEF Sorted
    <3>3. results[1].t <= results[k].t
      BY <1>2, <1>4, <3>1, <3>2
    <3>4. results[k].t < bag[j].t /\ bag[j].t \in Int
      BY <1>2, <2>1, <2>2, <2>3
    <3>5. results[1].t \in Int /\ results[k].t \in Int
      BY <1>2, <1>4
    <3> QED  BY <3>3, <3>4, <3>5
  <2>10. j \in RunLater
    BY <2>8, <2>9 DEF RunLater, Replaying
  <2>11. PICK m \in DOMAIN results : results[m].t = bag[j].t
    BY <1>3, <2>10 DEF Covers
  <2>12. results[k].t < results[m].t /\ results[m].t < results[k + 1].t
    BY <2>2, <2>3, <2>11
  <2>13. ~(m < k) /\ m # k
    BY <1>2, <1>3, <1>4, <2>11, <2>12 DEF Sorted
  <2>14. ~(k + 1 < m) /\ m # k + 1
    BY <1>2, <1>3, <1>4, <2>11, <2>12 DEF Sorted
  <2> QED  BY <1>2, <2>11, <2>13, <2>14
<1> QED  BY <1>2, <1>7, <1>8

LEMMA SameSight ==
  ASSUME NEW r, NEW l, SeenIn(r) = SeenIn(l)
  PROVE  r.ok = l.ok /\ r.from = l.from /\ r.anchors = l.anchors
<1>1. PICK x, y : x = SeenIn(r) /\ y = SeenIn(l)
  OBVIOUS
<1>2. x = [ok |-> r.ok, from |-> r.from, anchors |-> r.anchors]
      /\ y = [ok |-> l.ok, from |-> l.from, anchors |-> l.anchors] /\ x = y
  BY <1>1 DEF SeenIn
<1>3. x.ok = r.ok /\ x.from = r.from /\ x.anchors = r.anchors
      /\ y.ok = l.ok /\ y.from = l.from /\ y.anchors = l.anchors
  BY <1>2
<1> QED  BY <1>2, <1>3

\* What comes after a result is said by what shows of it, its image and its reseed.
LEMMA SameAfter ==
  ASSUME NEW b, NEW set, NEW r, NEW l, r.t = l.t, r.reseeded = l.reseeded,
         r.reseeded \/ SeenIn(r) = SeenIn(l)
  PROVE  SeenAfter(b, r, set) = SeenAfter(b, l, set)
<1>1. CASE r.reseeded
  BY <1>1 DEF SeenAfter
<1>2. CASE ~r.reseeded
  <2>1. SeenIn(r) = SeenIn(l)
    BY <1>2
  <2>2. r.ok = l.ok /\ r.from = l.from /\ r.anchors = l.anchors
    BY <2>1, SameSight
  <2> QED  BY <1>2, <2>1, <2>2 DEF SeenAfter
<1> QED  BY <1>1, <1>2

\* The replayed results chain as the tracked ones do.
LEMMA ResultsChain ==
  ASSUME CacheIInv, Replaying, NEW k \in 1..(Len(results) - 1)
  PROVE  SeenIn(results[k + 1]) = SeenAfter(bag, results[k], run)
<1>1. Len(results) \in Nat /\ k \in 1..Len(results) /\ k + 1 \in 1..Len(results)
  BY SeqFacts DEF CacheIInv, CacheTypeOK
<1>2. PICK r \in DOMAIN records : IsOf(results[k], records[r])
  BY <1>1, ResultHasRecord
<1>3. PICK s \in DOMAIN records : IsOf(results[k + 1], records[s])
  BY <1>1, ResultHasRecord
<1>4. s = r + 1
  BY <1>2, <1>3, NextRecord
<1>5. r \in 1..(Len(records) - 1)
  BY <1>2, <1>3, <1>4, SeqFacts DEF CacheIInv, CacheTypeOK
<1>6. SeenIn(records[r + 1]) = SeenAfter(bag, records[r], run)
  BY <1>5 DEF CacheIInv, ToolOK, Chained, Replaying
<1>7. SeenAfter(bag, results[k], run) = SeenAfter(bag, records[r], run)
  BY <1>2, SameAfter DEF IsOf
<1> QED  BY <1>3, <1>4, <1>6, <1>7 DEF IsOf

LEMMA ResultsReseed ==
  ASSUME CacheIInv, Replaying, NEW k \in 1..Len(results)
  PROVE  results[k].reseeded = live[k].reseeded /\ results[k].t = live[k].t
<1>1. /\ k \in DOMAIN results /\ k \in DOMAIN live /\ live[k].t = results[k].t
  BY SeqFacts DEF CacheIInv, CacheTypeOK, RunOK
<1>2. PICK r \in DOMAIN records : IsOf(results[k], records[r])
  BY ResultHasRecord
<1>3. records[r].reseeded = Reseeds(ImageAt(bag, records[r].t), run)
  BY <1>2 DEF CacheIInv, ToolOK, Chained, Replaying
<1>4. live[k].reseeded = Reseeds(ImageAt(bag, live[k].t), run)
  BY <1>1 DEF CacheIInv, RunOK, Chained
<1> QED  BY <1>1, <1>2, <1>3, <1>4 DEF IsOf

Alike(rs, ls, n) == \A k \in 1..n : rs[k].t = ls[k].t /\ rs[k].reseeded = ls[k].reseeded
Linked(b, rs, set, n) == \A k \in 1..(n - 1) : SeenIn(rs[k + 1]) = SeenAfter(b, rs[k], set)
AgreeAt(rs, ls, j) == rs[j].reseeded \/ SeenIn(rs[j]) = SeenIn(ls[j])

\* From a point where two trackers agree or both select anchors they agree on.
LEMMA AgreeFrom ==
  ASSUME NEW b, NEW set, NEW rs, NEW ls, NEW n \in Nat,
         Alike(rs, ls, n), Linked(b, rs, set, n), Linked(b, ls, set, n),
         NEW j \in 1..n, AgreeAt(rs, ls, j)
  PROVE  \A k \in (j + 1)..n : SeenIn(rs[k]) = SeenIn(ls[k])
<1> DEFINE Bad == {k \in (j + 1)..n : SeenIn(rs[k]) # SeenIn(ls[k])}
<1> SUFFICES ASSUME Bad # {} PROVE FALSE
  OBVIOUS
<1>1. PICK m \in Bad : \A k \in Bad : m <= k
  <2>1. Bad \subseteq Nat
    OBVIOUS
  <2> HIDE DEF Bad
  <2> QED  BY <2>1, LeastNatural
<1>2. m \in (j + 1)..n /\ SeenIn(rs[m]) # SeenIn(ls[m]) /\ m - 1 \notin Bad
  BY <1>1
<1>3. m - 1 \in 1..(n - 1) /\ m - 1 \in 1..n /\ m - 1 + 1 = m
  BY <1>2
<1>4. m - 1 = j \/ m - 1 \in (j + 1)..n
  BY <1>2
<1>5. rs[m - 1].reseeded \/ SeenIn(rs[m - 1]) = SeenIn(ls[m - 1])
  BY <1>2, <1>4 DEF AgreeAt
<1>6. rs[m - 1].t = ls[m - 1].t /\ rs[m - 1].reseeded = ls[m - 1].reseeded
  BY <1>3 DEF Alike
<1>7. SeenAfter(b, rs[m - 1], set) = SeenAfter(b, ls[m - 1], set)
  BY <1>5, <1>6, SameAfter
<1>8. SeenIn(rs[m]) = SeenAfter(b, rs[m - 1], set) /\ SeenIn(ls[m]) = SeenAfter(b, ls[m - 1], set)
  BY <1>3 DEF Linked
<1> QED  BY <1>2, <1>7, <1>8

LEMMA SameResult ==
  ASSUME NEW r \in Results, NEW l \in Results, r.t = l.t, r.prev = l.prev, r.reseeded = l.reseeded,
         SeenIn(r) = SeenIn(l)
  PROVE  r = l
<1>1. r.ok = l.ok /\ r.from = l.from /\ r.anchors = l.anchors
  BY SameSight
<1> QED  BY <1>1 DEF Results

LEMMA Replay == CacheIInv => ReplayIsTracking
<1> SUFFICES ASSUME CacheIInv, Replaying
             PROVE  /\ \A k \in DOMAIN results :
                         (\E j \in 1..(k - 1) : live[j].reseeded) => results[k] = live[k]
                    /\ records[1].t = results[1].t => results = live
  BY DEF ReplayIsTracking, Replaying
<1> DEFINE n == Len(results)
<1>1. /\ n \in Nat /\ 1 \in 1..n /\ results \in Seq(Results) /\ live \in Seq(Results)
      /\ Len(live) = n /\ DOMAIN results = 1..n /\ DOMAIN live = 1..n
      /\ \A k \in 1..n : results[k] \in Results /\ live[k] \in Results
      /\ \A k \in 1..n : results[k].prev = live[k].prev
  BY ReplayFacts, SeqFacts DEF CacheIInv, CacheTypeOK, RunOK
<1>2. \A k \in 1..n : results[k].t = live[k].t /\ results[k].reseeded = live[k].reseeded
  BY ResultsReseed
<1>3. \A k \in 1..(n - 1) : SeenIn(results[k + 1]) = SeenAfter(bag, results[k], run)
  BY ResultsChain
<1>4. \A k \in 1..(n - 1) : SeenIn(live[k + 1]) = SeenAfter(bag, live[k], run)
  BY <1>1 DEF CacheIInv, RunOK, Chained
<1>5. SeenIn(live[1]) = Seen(NoTracker)
  <2>1. live # <<>>
    BY <1>1
  <2> QED  BY <2>1 DEF CacheIInv, RunOK, Chained
<1> HIDE DEF n
<1>6. ASSUME NEW j \in 1..n, results[j].reseeded \/ SeenIn(results[j]) = SeenIn(live[j])
      PROVE  \A k \in (j + 1)..n : results[k] = live[k]
  <2>1. \A k \in (j + 1)..n : SeenIn(results[k]) = SeenIn(live[k])
    <3>1. Alike(results, live, n) /\ Linked(bag, results, run, n) /\ Linked(bag, live, run, n)
      BY <1>2, <1>3, <1>4 DEF Alike, Linked
    <3>2. AgreeAt(results, live, j)
      BY <1>6 DEF AgreeAt
    <3> QED  BY <1>1, <3>1, <3>2, AgreeFrom
  <2> SUFFICES ASSUME NEW k \in (j + 1)..n PROVE results[k] = live[k]
    OBVIOUS
  <2>2. k \in 1..n
    BY <1>1
  <2> QED  BY <1>1, <1>2, <2>1, <2>2, SameResult
<1>7. ASSUME NEW k \in DOMAIN results, NEW j \in 1..(k - 1), live[j].reseeded
      PROVE  results[k] = live[k]
  <2>1. j \in 1..n /\ k \in (j + 1)..n
    BY <1>1
  <2>2. results[j].reseeded
    BY <1>2, <1>7, <2>1
  <2> QED  BY <1>6, <2>1, <2>2
<1>8. ASSUME records[1].t = results[1].t PROVE results = live
  <2>1. PICK r \in DOMAIN records : IsOf(results[1], records[r])
    BY <1>1, ResultHasRecord DEF n
  <2>2. /\ Len(records) \in Nat /\ DOMAIN records = 1..Len(records) /\ Sorted(records)
        /\ \A i \in DOMAIN records : records[i].t \in Int
    BY ResultStamps DEF CacheIInv, CacheTypeOK, ToolOK, Replaying, Dated
  <2>3. r = 1
    <3>1. 1 \in DOMAIN records /\ records[r].t = records[1].t
      BY <1>8, <2>1, <2>2 DEF IsOf
    <3>2. ~(1 < r)
      BY <2>1, <2>2, <3>1 DEF Sorted
    <3> QED  BY <2>1, <2>2, <3>2
  <2>4. SeenIn(records[1]) = Seen(NoTracker)
    <3>1. records # <<>>
      BY <2>1
    <3> QED  BY <3>1 DEF CacheIInv, ToolOK, Chained
  <2>5. SeenIn(results[1]) = SeenIn(live[1])
    BY <1>5, <2>1, <2>3, <2>4 DEF IsOf
  <2>6. results[1] = live[1]
    BY <1>1, <1>2, <2>5, SameResult
  <2>7. \A k \in 2..n : results[k] = live[k]
    BY <1>1, <1>6, <2>5
  <2>8. \A k \in 1..n : results[k] = live[k]
    BY <1>1, <2>6, <2>7
  <2> QED  BY <1>1, <2>8
<1> QED  BY <1>7, <1>8

\* With the tool's settings and images in order, a run that starts at an image of the
\* cache replays what it would have tracked, from the first image whose anchors it would
\* have selected itself; and everything when it starts where the tool did.
THEOREM ReplayCorrect == CacheSpec => []ReplayIsTracking
BY CacheInvariant, Replay, PTL

-----------------------------------------------------------------------------
(* The predecessor of a result is the image its tracks are on.             *)

StampOfLast(rs) == IF rs = <<>> THEN NoTime ELSE rs[Len(rs)].t

\* prev_timestamp_chain is the stamp of the image answered last.
PrevInv ==
  /\ chain = StampOfLast(live)
  /\ \A k \in 1..(Len(live) - 1) : live[k + 1].prev = live[k].t

LEMMA PrevInit == CacheInit => PrevInv
BY DEF CacheInit, PrevInv, StampOfLast, NoTime

LEMMA PrevStep ==
  ASSUME CacheIInv, PrevInv, [CacheNext]_cacheVars
  PROVE  PrevInv'
<1> DEFINE img == bag[next]
           tracked == [Tracked(shadow, img, run) EXCEPT !.prev = chain]
<1>1. CASE UNCHANGED <<live, chain>>
  BY <1>1 DEF PrevInv, StampOfLast
<1>2. CASE ImageCallback /\ ~UNCHANGED <<live, chain>>
  <2>1. live' = Append(live, tracked) /\ chain' = img.t
    BY <1>2 DEF ImageCallback
  <2>2. next \in 1..Len(bag)
    BY <1>2, BagFacts DEF ImageCallback, CacheIInv, CacheTypeOK
  <2>3. tracked \in Results /\ tracked.t = img.t /\ tracked.prev = chain
    <3>1. Tracked(shadow, img, run) \in Results /\ Tracked(shadow, img, run).t = img.t
      BY <2>2, TrackedFacts DEF CacheIInv, CacheTypeOK
    <3> QED  BY <3>1, PrevFacts DEF CacheIInv, CacheTypeOK
  <2> HIDE DEF img, tracked
  <2>4. live \in Seq(Results) /\ Len(live) \in Nat
    BY SeqFacts DEF CacheIInv, CacheTypeOK
  <2>5. /\ Len(live') = Len(live) + 1
        /\ \A k \in 1..Len(live) : live'[k] = live[k]
        /\ live'[Len(live) + 1] = tracked
    BY <2>1, <2>3, <2>4, AppendFacts
  <2>6. live' # <<>> /\ chain' = StampOfLast(live')
    BY <2>1, <2>3, <2>4, <2>5 DEF StampOfLast
  <2>7. ASSUME NEW k \in 1..(Len(live') - 1) PROVE live'[k + 1].prev = live'[k].t
    <3>1. k \in 1..Len(live) /\ live'[k] = live[k]
      BY <2>4, <2>5
    <3>2. CASE k = Len(live)
      <4>1. chain = live[k].t
        BY <2>4, <3>1, <3>2 DEF PrevInv, StampOfLast
      <4> QED  BY <2>3, <2>5, <3>1, <3>2, <4>1
    <3>3. CASE k # Len(live)
      <4>1. k \in 1..(Len(live) - 1) /\ k + 1 \in 1..Len(live)
        BY <2>4, <3>1, <3>3
      <4> QED  BY <2>5, <3>1, <4>1 DEF PrevInv
    <3> QED  BY <3>2, <3>3
  <2> QED  BY <2>6, <2>7 DEF PrevInv
<1>3. CASE FeedTool \/ OpenFile \/ WriteFrame \/ EndTool \/ LoadCache \/ FormGroup
  BY <1>1, <1>3 DEF FeedTool, OpenFile, WriteFrame, EndTool, UnchangedByTool, LoadCache, FormGroup
<1>4. CASE UNCHANGED cacheVars
  BY <1>1, <1>4 DEF cacheVars
<1> QED  BY <1>1, <1>2, <1>3, <1>4 DEF CacheNext

\* However a result leaves the tracks, they are on its image.
LEMMA LeftOnImage ==
  ASSUME NEW b, NEW set, NEW r \in Results, NEW q, q.ok, SeenIn(q) = SeenAfter(b, r, set)
  PROVE  q.from # <<>> /\ Last(q.from) = r.t
<1>1. r.t \in Int /\ r.from \in Seq(Int)
  BY DEF Results
<1>3. CASE r.reseeded
  <2>1. PICK tr : tr = [from |-> <<r.t>>, anchors |-> SelectAnchors(ImageAt(b, r.t), set)]
    OBVIOUS
  <2>2. SeenIn(q) = Seen(tr) /\ tr.from = <<r.t>>
    BY <1>3, <2>1 DEF SeenAfter
  <2>3. tr.anchors # <<>>
    <3> SUFFICES ASSUME tr.anchors = <<>> PROVE FALSE
      OBVIOUS
    <3>1. SeenIn(q) = [ok |-> FALSE, from |-> <<>>, anchors |-> <<>>]
      BY <2>2, SeenFacts
    <3>2. q.ok = FALSE
      BY <3>1, SightParts
    <3> QED  BY <3>2
  <2>4. SeenIn(q) = [ok |-> TRUE, from |-> tr.from, anchors |-> tr.anchors]
    BY <2>2, <2>3, SeenFacts
  <2>5. q.from = <<r.t>>
    BY <2>2, <2>4, SightParts
  <2> QED  BY <1>1, <2>5 DEF Last
<1>4. CASE ~r.reseeded
  <2>1. CASE r.ok
    <3>1. q.from = Append(r.from, r.t)
      <4>1. SeenIn(q) = [ok |-> TRUE, from |-> Append(r.from, r.t), anchors |-> r.anchors]
        BY <1>4, <2>1 DEF SeenAfter
      <4> QED  BY <4>1, SightParts
    <3>2. Len(q.from) = Len(r.from) + 1 /\ q.from[Len(q.from)] = r.t /\ Len(q.from) # 0
      BY <1>1, <3>1
    <3> QED  BY <3>2 DEF Last
  <2>2. CASE ~r.ok
    <3>1. SeenIn(q) = SeenIn(r)
      BY <1>4, <2>2 DEF SeenAfter
    <3> QED  BY <2>2, <3>1, SameSight
  <2> QED  BY <2>1, <2>2
<1> QED  BY <1>3, <1>4

LEMMA OnPredecessors == CacheIInv /\ PrevInv => TracksFromPredecessor
<1> SUFFICES ASSUME CacheIInv, PrevInv
             PROVE  /\ \A k \in DOMAIN live : OnPredecessor(live[k])
                    /\ Replaying => \A k \in 2..Len(results) : OnPredecessor(results[k])
  BY DEF TracksFromPredecessor
<1> DEFINE n == Len(live)
<1>1. /\ n \in Nat /\ DOMAIN live = 1..n /\ Len(results) = n
      /\ \A k \in 1..n : live[k] \in Results /\ results[k] \in Results
      /\ \A k \in 1..n : live[k].t = results[k].t /\ live[k].prev = results[k].prev
  BY SeqFacts DEF CacheIInv, CacheTypeOK, RunOK
<1>2. Chained(bag, live, shadow, run)
  BY DEF CacheIInv, RunOK
<1>3. ASSUME NEW k \in DOMAIN live, live[k].ok
      PROVE  live[k].from # <<>> /\ Last(live[k].from) = live[k].prev
  <2>1. CASE k = 1
    <3>1. SeenIn(live[1]) = Seen(NoTracker)
      BY <1>1, <1>2, <2>1 DEF Chained
    <3>2. Seen(NoTracker) = [ok |-> FALSE, from |-> <<>>, anchors |-> <<>>]
      BY DEF Seen, NoTracker
    <3>3. SeenIn(live[1]) = [ok |-> live[1].ok, from |-> live[1].from, anchors |-> live[1].anchors]
      BY DEF SeenIn
    <3>4. live[1].ok = FALSE
      BY <3>1, <3>2, <3>3
    <3> QED  BY <1>3, <2>1, <3>4
  <2>2. CASE k # 1
    <3>1. k - 1 \in 1..(n - 1) /\ k - 1 \in 1..n /\ k - 1 + 1 = k
      BY <1>1, <2>2
    <3>2. SeenIn(live[k]) = SeenAfter(bag, live[k - 1], run) /\ live[k].prev = live[k - 1].t
      BY <1>2, <3>1 DEF Chained, PrevInv
    <3> QED  BY <1>1, <1>3, <3>1, <3>2, LeftOnImage
  <2> QED  BY <2>1, <2>2
<1>4. ASSUME Replaying, NEW k \in 2..Len(results), results[k].ok
      PROVE  results[k].from # <<>> /\ Last(results[k].from) = results[k].prev
  <2>1. k - 1 \in 1..(Len(results) - 1) /\ k - 1 \in 1..n /\ k \in 1..n /\ k - 1 + 1 = k
    BY <1>1
  <2>2. SeenIn(results[k]) = SeenAfter(bag, results[k - 1], run)
    BY <1>4, <2>1, ResultsChain
  <2>3. results[k].prev = results[k - 1].t
    BY <1>1, <2>1 DEF PrevInv
  <2> QED  BY <1>1, <1>4, <2>1, <2>2, <2>3, LeftOnImage
<1> QED  BY <1>3, <1>4 DEF OnPredecessor

\* What a result reports as movement begins in the image whose pose is looked up for it,
\* whatever reseeds were skipped, when tracking and when replaying.
THEOREM PredecessorCorrect == CacheSpec => []TracksFromPredecessor
<1>1. PrevInv /\ CacheIInv /\ CacheIInv' /\ [CacheNext]_cacheVars => PrevInv'
  BY PrevStep
<1> QED  BY CacheInvariant, PrevInit, <1>1, OnPredecessors, PTL DEF CacheSpec

-----------------------------------------------------------------------------
(* Anchor selection: ranking.                                              *)

\* Distinct ranks below the number of members number the members.
LEMMA InOrderFacts ==
  ASSUME NEW S, IsFiniteSet(S), NEW rank \in [S -> 0..(Cardinality(S) - 1)],
         \A x, y \in S : rank[x] = rank[y] => x = y
  PROVE  /\ Cardinality(S) \in Nat
         /\ InOrder(rank) \in [1..Cardinality(S) -> S]
         /\ \A k \in 1..Cardinality(S) : rank[InOrder(rank)[k]] = k - 1
         /\ \A x \in S : rank[x] + 1 \in 1..Cardinality(S) /\ InOrder(rank)[rank[x] + 1] = x
<1> DEFINE n == Cardinality(S)
<1>1. n \in Nat
  BY FS_CardinalityType
<1> HIDE DEF n
<1>2. IsFiniteSet(0..(n - 1)) /\ Cardinality(0..(n - 1)) = n
  BY <1>1, FS_Interval
<1>3. rank \in [S -> 0..(n - 1)]
  BY DEF n
<1>4. rank \in Injection(S, 0..(n - 1))
  BY <1>3 DEF Injection, IsInjective
<1>5. rank \in Surjection(S, 0..(n - 1))
  BY <1>2, <1>4, FS_Injection DEF n
<1>6. ASSUME NEW k \in 1..n PROVE \E x \in S : rank[x] = k - 1
  BY <1>1, <1>5 DEF Surjection
<1>7. InOrder(rank) = [k \in 1..n |-> CHOOSE x \in S : rank[x] = k - 1]
  BY DEF InOrder, n
<1>8. ASSUME NEW k \in 1..n PROVE InOrder(rank)[k] \in S /\ rank[InOrder(rank)[k]] = k - 1
  BY <1>6, <1>7
<1>9. ASSUME NEW x \in S PROVE rank[x] + 1 \in 1..n /\ InOrder(rank)[rank[x] + 1] = x
  <2>1. rank[x] + 1 \in 1..n /\ rank[x] + 1 - 1 = rank[x]
    BY <1>1, <1>3
  <2> QED  BY <2>1, <1>8
<1> QED  BY <1>1, <1>7, <1>8, <1>9 DEF n

\* R puts the members of S in a row.
Orders(R, S) ==
  /\ \A x \in S : <<x, x>> \notin R
  /\ \A x, y \in S : x = y \/ <<x, y>> \in R \/ <<y, x>> \in R
  /\ \A x, y, z \in S : <<x, y>> \in R /\ <<y, z>> \in R => <<x, z>> \in R
RankBy(R, S) == [x \in S |-> Cardinality({y \in S : <<y, x>> \in R})]

\* Numbered by how many come before them, the members are in order.
LEMMA RankFacts ==
  ASSUME NEW S, IsFiniteSet(S), NEW R, Orders(R, S)
  PROVE  /\ RankBy(R, S) \in [S -> 0..(Cardinality(S) - 1)]
         /\ \A x, y \in S : <<x, y>> \in R => RankBy(R, S)[x] < RankBy(R, S)[y]
         /\ \A x, y \in S : RankBy(R, S)[x] = RankBy(R, S)[y] => x = y
<1> DEFINE ahead(x) == {y \in S : <<y, x>> \in R}
           rank == RankBy(R, S)
<1>0. Cardinality(S) \in Nat
  BY FS_CardinalityType
<1>1. ASSUME NEW x \in S
      PROVE  IsFiniteSet(ahead(x)) /\ rank[x] = Cardinality(ahead(x)) /\ rank[x] \in 0..(Cardinality(S) - 1)
  <2>1. ahead(x) \in SUBSET S /\ x \notin ahead(x)
    BY DEF Orders
  <2> HIDE DEF ahead
  <2>2. IsFiniteSet(ahead(x)) /\ Cardinality(ahead(x)) <= Cardinality(S) /\ Cardinality(ahead(x)) # Cardinality(S)
    BY <2>1, FS_Subset
  <2>3. Cardinality(ahead(x)) \in Nat
    BY <2>2, FS_CardinalityType
  <2>4. rank[x] = Cardinality(ahead(x))
    BY DEF RankBy, ahead
  <2> QED  BY <1>0, <2>2, <2>3, <2>4
<1>2. ASSUME NEW x \in S, NEW y \in S, <<x, y>> \in R PROVE rank[x] < rank[y]
  <2>1. ahead(x) \in SUBSET ahead(y) /\ x \in ahead(y) /\ x \notin ahead(x)
    BY <1>2 DEF Orders
  <2> HIDE DEF ahead, rank
  <2>2. Cardinality(ahead(x)) <= Cardinality(ahead(y)) /\ Cardinality(ahead(x)) # Cardinality(ahead(y))
    BY <1>1, <2>1, FS_Subset
  <2> QED  BY <1>1, <2>2
<1>3. rank \in [S -> 0..(Cardinality(S) - 1)]
  <2>1. rank = [x \in S |-> rank[x]]
    BY DEF RankBy
  <2> HIDE DEF rank, ahead
  <2>2. \A x \in S : rank[x] \in 0..(Cardinality(S) - 1)
    BY <1>1
  <2> QED  BY <2>1, <2>2
<1>4. ASSUME NEW x \in S, NEW y \in S, rank[x] = rank[y] PROVE x = y
  <2> HIDE DEF rank, ahead
  <2>1. rank[x] \in Int /\ rank[y] \in Int
    BY <1>1
  <2>2. <<x, y>> \notin R /\ <<y, x>> \notin R
    BY <1>2, <1>4, <2>1
  <2> QED  BY <2>2 DEF Orders
<1> QED  BY <1>2, <1>3, <1>4

\* Pixels, best first.
Images == [t : Nat, empty : BOOLEAN, scores : Seq(Nat)]

LEMMA RankedFacts ==
  ASSUME NEW img \in Images, NEW pixels \in SUBSET DOMAIN img.scores
  PROVE  LET s == Ranked(img, pixels)
             n == Cardinality(pixels)
         IN  /\ IsFiniteSet(pixels) /\ n \in Nat
             /\ s \in Seq(pixels) /\ Len(s) = n /\ DOMAIN s = 1..n
             /\ \A k \in 1..n : s[k] \in pixels
             /\ \A x \in pixels : \E k \in 1..n : s[k] = x
             /\ \A j, k \in 1..n : j < k => Before(img, s[j], s[k])
             /\ \A j, k \in 1..n : s[j] = s[k] => j = k
<1> DEFINE n == Cardinality(pixels)
           R == {p \in pixels \X pixels : Before(img, p[1], p[2])}
           rank == RankBy(R, pixels)
           s == Ranked(img, pixels)
<1>1. Len(img.scores) \in Nat /\ DOMAIN img.scores = 1..Len(img.scores)
      /\ \A x \in DOMAIN img.scores : img.scores[x] \in Nat
  BY SeqFacts DEF Images
<1>2. IsFiniteSet(pixels) /\ n \in Nat
  <2>1. IsFiniteSet(1..Len(img.scores))
    BY <1>1, FS_Interval
  <2> QED  BY <1>1, <2>1, FS_Subset, FS_CardinalityType
<1>3. \A x, y \in pixels : <<x, y>> \in R <=> Before(img, x, y)
  OBVIOUS
<1>4. \A x \in pixels : x \in Nat /\ img.scores[x] \in Nat
  BY <1>1
<1>5. Orders(R, pixels)
  <2> HIDE DEF R
  <2> QED  BY <1>3, <1>4 DEF Orders, Before
<1>6. s = InOrder(rank)
  <2>1. \A x \in pixels : {y \in pixels : Before(img, y, x)} = {y \in pixels : <<y, x>> \in R}
    BY <1>3
  <2>2. [x \in pixels |-> Cardinality({y \in pixels : Before(img, y, x)})] = rank
    BY <2>1 DEF RankBy
  <2> QED  BY <2>2 DEF Ranked
<1>7. /\ rank \in [pixels -> 0..(n - 1)]
      /\ \A x, y \in pixels : <<x, y>> \in R => rank[x] < rank[y]
      /\ \A x, y \in pixels : rank[x] = rank[y] => x = y
  <2> HIDE DEF R
  <2> QED  BY <1>2, <1>5, RankFacts
<1> HIDE DEF rank, R
<1>8. /\ s \in [1..n -> pixels]
      /\ \A k \in 1..n : rank[s[k]] = k - 1
      /\ \A x \in pixels : rank[x] + 1 \in 1..n /\ s[rank[x] + 1] = x
  BY <1>2, <1>6, <1>7, InOrderFacts
<1> HIDE DEF n, s
<1>9. s \in Seq(pixels) /\ Len(s) = n /\ DOMAIN s = 1..n
  BY <1>2, <1>8
<1>10. ASSUME NEW j \in 1..n, NEW k \in 1..n, j < k PROVE Before(img, s[j], s[k])
  <2>1. s[j] \in pixels /\ s[k] \in pixels /\ rank[s[j]] < rank[s[k]] /\ rank[s[j]] \in Int /\ rank[s[k]] \in Int
    BY <1>2, <1>8, <1>10
  <2>2. ~(<<s[k], s[j]>> \in R) /\ s[j] # s[k]
    <3>1. <<s[k], s[j]>> \in R => rank[s[k]] < rank[s[j]]
      BY <1>7, <2>1
    <3> QED  BY <2>1, <3>1
  <2>3. <<s[j], s[k]>> \in R
    BY <1>5, <2>1, <2>2 DEF Orders
  <2> QED  BY <1>3, <2>1, <2>3
<1>11. ASSUME NEW j \in 1..n, NEW k \in 1..n, s[j] = s[k] PROVE j = k
  <2>1. j - 1 = k - 1
    BY <1>8, <1>11
  <2> QED  BY <1>2, <2>1
<1> QED  BY <1>2, <1>8, <1>9, <1>10, <1>11 DEF n, s

-----------------------------------------------------------------------------
(* Anchor selection: the grid.                                             *)

\* Rounding keeps the order of the edges, and the outer edges are the region's.
LEMMA DivFacts ==
  ASSUME NEW a \in Nat, NEW b \in Nat, NEW m \in Nat \ {0}
  PROVE  /\ a \div m \in Nat
         /\ a <= b => a \div m <= b \div m
         /\ a + m <= b => a \div m + 1 <= b \div m
<1>1. /\ a \div m \in Nat /\ m * (a \div m) <= a /\ a < m * (a \div m) + m
      /\ b \div m \in Nat /\ m * (b \div m) <= b /\ b < m * (b \div m) + m
  OBVIOUS
<1>2. ASSUME NEW p \in Nat, NEW q \in Nat, p < q PROVE m * p + m <= m * q
  <2>1. m * (p + 1) <= m * q
    BY <1>2
  <2> QED  BY <2>1
<1> DEFINE p == a \div m
           q == b \div m
<1> HIDE DEF p, q
<1>3. ASSUME a <= b, q < p PROVE FALSE
  <2>1. m * q + m <= m * p
    BY <1>1, <1>2, <1>3 DEF p, q
  <2> QED  BY <1>1, <1>3, <2>1 DEF p, q
<1>4. ASSUME a + m <= b, ~(p < q) PROVE FALSE
  <2>1. p = q \/ m * q + m <= m * p
    BY <1>1, <1>2, <1>4 DEF p, q
  <2> QED  BY <1>1, <1>4, <2>1 DEF p, q
<1> QED  BY <1>1, <1>3, <1>4 DEF p, q

LEMMA EdgeFacts ==
  ASSUME NEW n \in Nat \ {0}
  PROVE  /\ \A c \in 0..n : CellEdge(n, c) \in Nat
         /\ CellEdge(n, 0) = Valid.x /\ CellEdge(n, n) = Valid.x + Valid.width
         /\ \A c, d \in 0..n : c <= d => CellEdge(n, c) <= CellEdge(n, d)
         /\ n <= Valid.width => \A c, d \in 0..n : c < d => CellEdge(n, c) < CellEdge(n, d)
<1> DEFINE w == Valid.width
           at(c) == 2 * c * w + n
<1>1. Valid.x \in Nat /\ w \in Nat
  BY CacheAssumption
<1> HIDE DEF w
<1>2. ASSUME NEW c \in 0..n PROVE at(c) \in Nat /\ CellEdge(n, c) = Valid.x + at(c) \div (2 * n)
  BY <1>1 DEF CellEdge, w
<1>3. 2 * n \in Nat \ {0}
  OBVIOUS
<1>4. at(0) \div (2 * n) = 0 /\ at(n) \div (2 * n) = w
  <2>1. at(0) = n /\ n \div (2 * n) = 0
    BY <1>1
  <2>2. at(n) = (2 * n) * w + n
    BY <1>1
  <2>3. ASSUME NEW m \in Nat, m = 2 * n PROVE (m * w + n) \div m = w
    BY <1>1, <2>3
  <2> QED  BY <1>3, <2>1, <2>2, <2>3
<1>5. ASSUME NEW c \in 0..n, NEW d \in 0..n, c <= d PROVE at(c) <= at(d)
  <2>1. c * w <= d * w
    BY <1>1, <1>5
  <2>2. at(c) = 2 * (c * w) + n /\ at(d) = 2 * (d * w) + n /\ c * w \in Nat /\ d * w \in Nat
    BY <1>1
  <2> QED  BY <2>1, <2>2
<1>6. ASSUME NEW c \in 0..n, NEW d \in 0..n, c < d, n <= w PROVE at(c) + 2 * n <= at(d)
  <2>1. (c + 1) * w <= d * w /\ (c + 1) * w = c * w + w
    BY <1>1, <1>6
  <2>2. at(c) = 2 * (c * w) + n /\ at(d) = 2 * (d * w) + n /\ c * w \in Nat /\ d * w \in Nat
    BY <1>1
  <2> QED  BY <1>1, <1>6, <2>1, <2>2
<1> HIDE DEF at
<1>7. ASSUME NEW c \in 0..n PROVE at(c) \div (2 * n) \in Nat
  BY <1>2, <1>3, DivFacts
<1>8. ASSUME NEW c \in 0..n, NEW d \in 0..n, c <= d PROVE at(c) \div (2 * n) <= at(d) \div (2 * n)
  BY <1>2, <1>3, <1>5, <1>8, DivFacts
<1>9. ASSUME NEW c \in 0..n, NEW d \in 0..n, c < d, n <= w
      PROVE  at(c) \div (2 * n) + 1 <= at(d) \div (2 * n)
  BY <1>2, <1>3, <1>6, <1>9, DivFacts
<1>10. 0 \in 0..n /\ n \in 0..n
  OBVIOUS
<1> QED  BY <1>1, <1>2, <1>4, <1>7, <1>8, <1>9, <1>10 DEF w

Met(img, n) == {c \in 1..n : CellPixels(img, n, c) # {}}

\* Whatever the number of cells, each pixel of the region is in one; in one only
\* when none is narrower than a pixel.
LEMMA CellFacts ==
  ASSUME NEW img \in Images, NEW n \in Nat \ {0}
  PROVE  /\ \A c \in 1..n : CellPixels(img, n, c) \in SUBSET DOMAIN img.scores
         /\ \A x \in Region(img) : \E c \in 1..n : x \in CellPixels(img, n, c)
         /\ n <= Valid.width =>
              \A c \in 1..n :
                /\ CellPixels(img, n, c) \subseteq Region(img)
                /\ \A d \in 1..n : c # d => CellPixels(img, n, c) \cap CellPixels(img, n, d) = {}
<1> DEFINE edge(c) == CellEdge(n, c)
<1>1. Valid.x \in Nat /\ Valid.width \in Nat
  BY CacheAssumption
<1>2. /\ \A c \in 0..n : edge(c) \in Nat
      /\ edge(0) = Valid.x /\ edge(n) = Valid.x + Valid.width
      /\ \A c, d \in 0..n : c <= d => edge(c) <= edge(d)
      /\ n <= Valid.width => \A c, d \in 0..n : c < d => edge(c) < edge(d)
  BY EdgeFacts
<1>3. \A c \in 1..n : c - 1 \in 0..n /\ c \in 0..n /\ c - 1 < c
  OBVIOUS
<1>4. ASSUME NEW c \in 1..n
      PROVE  CellPixels(img, n, c) =
               (edge(c - 1)..(IF edge(c) > edge(c - 1) THEN edge(c) - 1 ELSE edge(c - 1))) \cap DOMAIN img.scores
  BY DEF CellPixels
<1> HIDE DEF edge
<1>5. ASSUME NEW x \in Region(img) PROVE \E c \in 1..n : x \in CellPixels(img, n, c)
  <2> DEFINE Beyond == {c \in 1..n : edge(c) > x}
  <2>1. x \in Valid.x..(Valid.x + Valid.width - 1) /\ x \in DOMAIN img.scores
    BY DEF Region
  <2>2. n \in Beyond
    BY <1>1, <1>2, <2>1
  <2>3. PICK c \in Beyond : \A d \in Beyond : c <= d
    <3>1. Beyond \in SUBSET Nat /\ Beyond # {}
      BY <2>2
    <3> HIDE DEF Beyond
    <3> QED  BY <3>1, LeastNatural
  <2>4. c \in 1..n /\ edge(c) > x /\ c - 1 \notin Beyond
    BY <2>3
  <2>5. edge(c - 1) <= x
    <3>1. CASE c = 1
      BY <1>1, <1>2, <2>1, <3>1
    <3>2. CASE c # 1
      <4>1. c - 1 \in 1..n /\ c - 1 \in 0..n
        BY <2>4, <3>2
      <4> QED  BY <1>1, <1>2, <2>1, <2>4, <4>1
    <3> QED  BY <3>1, <3>2
  <2>6. edge(c) \in Nat /\ edge(c - 1) \in Nat /\ x \in Int
    BY <1>1, <1>2, <1>3, <2>1, <2>4
  <2>7. x \in edge(c - 1)..(IF edge(c) > edge(c - 1) THEN edge(c) - 1 ELSE edge(c - 1))
    BY <2>4, <2>5, <2>6
  <2> QED  BY <1>4, <2>1, <2>4, <2>7
<1>6. ASSUME n <= Valid.width, NEW c \in 1..n
      PROVE  /\ edge(c - 1) \in Nat /\ edge(c) \in Nat
             /\ CellPixels(img, n, c) = (edge(c - 1)..(edge(c) - 1)) \cap DOMAIN img.scores
  <2>1. edge(c - 1) < edge(c) /\ edge(c - 1) \in Nat /\ edge(c) \in Nat
    BY <1>2, <1>3, <1>6
  <2>2. edge(c) > edge(c - 1)
    BY <2>1
  <2> QED  BY <1>4, <2>1, <2>2
<1>7. ASSUME n <= Valid.width, NEW c \in 1..n PROVE CellPixels(img, n, c) \subseteq Region(img)
  <2>1. 0 <= c - 1 /\ c <= n /\ 0 \in 0..n /\ n \in 0..n
    OBVIOUS
  <2>2. Valid.x <= edge(c - 1) /\ edge(c) <= Valid.x + Valid.width
    BY <1>2, <1>3, <2>1
  <2> QED  BY <1>1, <1>6, <1>7, <2>2 DEF Region
<1>8. ASSUME n <= Valid.width, NEW c \in 1..n, NEW d \in 1..n, c < d
      PROVE  CellPixels(img, n, c) \cap CellPixels(img, n, d) = {}
  <2>1. c <= d - 1 /\ d - 1 \in 0..n
    BY <1>8
  <2>2. edge(c) <= edge(d - 1)
    BY <1>2, <1>3, <2>1
  <2> QED  BY <1>6, <1>8, <2>2
<1>9. ASSUME n <= Valid.width, NEW c \in 1..n, NEW d \in 1..n, c # d
      PROVE  CellPixels(img, n, c) \cap CellPixels(img, n, d) = {}
  <2>1. c < d \/ d < c
    BY <1>9
  <2> QED  BY <1>8, <1>9, <2>1
<1> QED  BY <1>4, <1>5, <1>7, <1>9

\* One anchor for each cell that meets the image, the best of its pixels.
LEMMA OnePerCellFacts ==
  ASSUME NEW img \in Images, NEW set, set.grid \in Nat \ {0}
  PROVE  LET n == set.grid
             met == Met(img, n)
             chosen == OnePerCell(img, set)
         IN  \E cells \in [1..Cardinality(met) -> met] :
               /\ DOMAIN chosen = 1..Cardinality(met)
               /\ \A c \in met : \E k \in DOMAIN chosen : cells[k] = c
               /\ \A j, k \in DOMAIN chosen : cells[j] = cells[k] => j = k
               /\ \A k \in DOMAIN chosen :
                    /\ chosen[k] \in CellPixels(img, n, cells[k])
                    /\ \A x \in CellPixels(img, n, cells[k]) : img.scores[chosen[k]] >= img.scores[x]
<1> DEFINE n == set.grid
           met == Met(img, n)
           R == {p \in met \X met : p[1] < p[2]}
           rank == RankBy(R, met)
           cells == InOrder(rank)
           chosen == OnePerCell(img, set)
           m == Cardinality(met)
<1>1. met \in SUBSET (1..n)
  BY DEF Met
<1>2. IsFiniteSet(met) /\ m \in Nat
  <2>1. IsFiniteSet(1..n)
    BY FS_Interval
  <2> HIDE DEF met
  <2> QED  BY <1>1, <2>1, FS_Subset, FS_CardinalityType
<1>3. \A x, y \in met : <<x, y>> \in R <=> x < y
  OBVIOUS
<1>4. Orders(R, met)
  <2>1. \A x \in met : x \in Nat
    BY <1>1
  <2> HIDE DEF R, met
  <2> QED  BY <1>3, <2>1 DEF Orders
<1>5. chosen = [k \in DOMAIN cells |-> Ranked(img, CellPixels(img, n, cells[k]))[1]]
  <2>1. \A x \in met : {y \in met : y < x} = {y \in met : <<y, x>> \in R}
    BY <1>3
  <2>2. [c \in met |-> Cardinality({d \in met : d < c})] = rank
    BY <2>1 DEF RankBy
  <2> HIDE DEF rank
  <2> QED  BY <2>2 DEF OnePerCell, Met
<1> HIDE DEF R
<1>6. /\ rank \in [met -> 0..(m - 1)]
      /\ \A x, y \in met : rank[x] = rank[y] => x = y
  <2> HIDE DEF met
  <2> QED  BY <1>2, <1>4, RankFacts
<1> HIDE DEF rank
<1>7. /\ cells \in [1..m -> met]
      /\ \A k \in 1..m : rank[cells[k]] = k - 1
      /\ \A c \in met : rank[c] + 1 \in 1..m /\ cells[rank[c] + 1] = c
  <2> HIDE DEF met
  <2> QED  BY <1>2, <1>6, InOrderFacts
<1> HIDE DEF cells, m, chosen
<1>8. DOMAIN chosen = 1..m
  BY <1>5, <1>7
<1>9. ASSUME NEW k \in 1..m
      PROVE  /\ chosen[k] \in CellPixels(img, n, cells[k])
             /\ \A x \in CellPixels(img, n, cells[k]) : img.scores[chosen[k]] >= img.scores[x]
  <2> DEFINE pixels == CellPixels(img, n, cells[k])
             s == Ranked(img, pixels)
  <2>1. cells[k] \in 1..n /\ pixels # {}
    BY <1>7 DEF Met
  <2>2. pixels \in SUBSET DOMAIN img.scores
    BY <2>1, CellFacts
  <2>3. chosen[k] = s[1]
    BY <1>5, <1>7
  <2> HIDE DEF pixels
  <2>4. /\ Cardinality(pixels) \in Nat
        /\ \A j \in 1..Cardinality(pixels) : s[j] \in pixels
        /\ \A x \in pixels : \E j \in 1..Cardinality(pixels) : s[j] = x
        /\ \A i, j \in 1..Cardinality(pixels) : i < j => Before(img, s[i], s[j])
    BY <2>2, RankedFacts
  <2>5. 1 \in 1..Cardinality(pixels)
    BY <2>1, <2>4
  <2> HIDE DEF s
  <2>6. ASSUME NEW x \in pixels PROVE img.scores[s[1]] >= img.scores[x]
    <3>1. PICK j \in 1..Cardinality(pixels) : s[j] = x
      BY <2>4
    <3>2. j = 1 \/ Before(img, s[1], x)
      BY <2>4, <2>5, <3>1
    <3>3. img.scores[s[1]] \in Nat /\ img.scores[x] \in Nat
      BY <2>2, <2>4, <2>5, SeqFacts DEF Images
    <3> QED  BY <3>1, <3>2, <3>3 DEF Before
  <2> QED  BY <2>3, <2>4, <2>5, <2>6 DEF pixels
<1>10. ASSUME NEW j \in 1..m, NEW k \in 1..m, cells[j] = cells[k] PROVE j = k
  <2>1. j - 1 = k - 1
    BY <1>7, <1>10
  <2> QED  BY <2>1
<1> QED  BY <1>7, <1>8, <1>9, <1>10 DEF m, chosen

LEMMA GridSelection ==
  ASSUME NEW img \in Images, NEW set, set.grid \in Nat \ {0}
  PROVE  BestOfEachCell(img, set, OnePerCell(img, set))
<1> DEFINE n == set.grid
           met == Met(img, n)
           chosen == OnePerCell(img, set)
           cellsOf(x) == {c \in 1..n : x \in CellPixels(img, n, c)}
<1>1. PICK cells \in [1..Cardinality(met) -> met] :
        /\ DOMAIN chosen = 1..Cardinality(met)
        /\ \A c \in met : \E k \in DOMAIN chosen : cells[k] = c
        /\ \A j, k \in DOMAIN chosen : cells[j] = cells[k] => j = k
        /\ \A k \in DOMAIN chosen :
             /\ chosen[k] \in CellPixels(img, n, cells[k])
             /\ \A x \in CellPixels(img, n, cells[k]) : img.scores[chosen[k]] >= img.scores[x]
  BY OnePerCellFacts
<1> HIDE DEF chosen
<1>2. \A k \in DOMAIN chosen : cells[k] \in 1..n
  BY <1>1 DEF Met
<1>3. ASSUME NEW x \in Region(img)
      PROVE  \E k \in DOMAIN chosen :
               img.scores[chosen[k]] >= img.scores[x] /\ cellsOf(chosen[k]) \cap cellsOf(x) # {}
  <2>1. PICK c \in 1..n : x \in CellPixels(img, n, c)
    BY CellFacts
  <2>2. c \in met
    BY <2>1 DEF Met
  <2>3. PICK k \in DOMAIN chosen : cells[k] = c
    BY <1>1, <2>2
  <2> QED  BY <1>1, <2>1, <2>3
<1>4. ASSUME n <= Valid.width, NEW x, NEW c \in 1..n, x \in CellPixels(img, n, c)
      PROVE  cellsOf(x) = {c}
  <2>1. \A d \in 1..n : d # c => x \notin CellPixels(img, n, d)
    BY <1>4, CellFacts
  <2> QED  BY <1>4, <2>1
<1> HIDE DEF cellsOf
<1>5. ASSUME n <= Valid.width, NEW x \in Region(img) PROVE Cardinality(cellsOf(x)) = 1
  <2>1. PICK c \in 1..n : x \in CellPixels(img, n, c)
    BY CellFacts
  <2>2. cellsOf(x) = {c}
    BY <1>4, <1>5, <2>1
  <2> QED  BY <2>2, FS_Singleton
<1>6. ASSUME n <= Valid.width, NEW k \in DOMAIN chosen
      PROVE  chosen[k] \in Region(img) /\ cellsOf(chosen[k]) = {cells[k]}
  <2>1. cells[k] \in 1..n /\ chosen[k] \in CellPixels(img, n, cells[k])
    BY <1>1, <1>2
  <2>2. CellPixels(img, n, cells[k]) \subseteq Region(img)
    BY <1>6, <2>1, CellFacts
  <2> QED  BY <1>4, <1>6, <2>1, <2>2
<1>7. ASSUME n <= Valid.width, NEW j \in DOMAIN chosen, NEW k \in DOMAIN chosen, j # k
      PROVE  cellsOf(chosen[j]) \cap cellsOf(chosen[k]) = {}
  <2>1. cells[j] # cells[k]
    BY <1>1, <1>7
  <2> QED  BY <1>6, <1>7, <2>1
<1> QED  BY <1>3, <1>5, <1>6, <1>7 DEF BestOfEachCell, cellsOf, chosen

-----------------------------------------------------------------------------
(* Anchor selection: the spacing.                                          *)

\* One turn of the loop over the candidates, with what the turns before it took.
TakeTurn(candidates, set, taken, k) ==
  IF k = 0 THEN <<>>
  ELSE IF Len(taken[k - 1]) < set.grid /\ ApartOfAll(taken[k - 1], candidates[k], set.spacing)
  THEN Append(taken[k - 1], candidates[k]) ELSE taken[k - 1]
IsTaken(candidates, set, f, n) == f = [k \in 0..n |-> TakeTurn(candidates, set, f, k)]
Taken(candidates, set) == CHOOSE f : IsTaken(candidates, set, f, Len(candidates))

LEMMA SpacedTaken ==
  ASSUME NEW candidates, NEW set
  PROVE  Spaced(candidates, set) = Taken(candidates, set)[Len(candidates)]
BY DEF Spaced, Taken, IsTaken, TakeTurn

\* The loop ends, whatever the number of candidates.
LEMMA TakenExists ==
  ASSUME NEW candidates, NEW set
  PROVE  \A n \in Nat : \E f : IsTaken(candidates, set, f, n)
<1> DEFINE turn(f, k) == TakeTurn(candidates, set, f, k)
           Bad == {n \in Nat : ~\E f : IsTaken(candidates, set, f, n)}
<1> SUFFICES ASSUME Bad # {} PROVE FALSE
  OBVIOUS
<1>1. PICK m \in Bad : \A k \in Bad : m <= k
  BY LeastNatural
<1>2. m # 0
  <2> DEFINE f == [k \in 0..0 |-> <<>>]
  <2>1. \A k \in 0..0 : turn(f, k) = <<>>
    BY DEF TakeTurn
  <2>2. f = [k \in 0..0 |-> turn(f, k)]
    BY <2>1
  <2>3. 0 \notin Bad
    BY <2>2 DEF IsTaken
  <2> QED  BY <2>3
<1>3. m - 1 \in Nat /\ m - 1 \notin Bad
  BY <1>1, <1>2
<1>4. PICK f : IsTaken(candidates, set, f, m - 1)
  BY <1>3
<1> DEFINE g == [k \in 0..m |-> turn(f, k)]
<1>5. \A k \in 0..(m - 1) : f[k] = g[k]
  BY <1>3, <1>4 DEF IsTaken
<1>6. ASSUME NEW k \in 0..m PROVE turn(f, k) = turn(g, k)
  <2>1. CASE k = 0
    BY <2>1 DEF TakeTurn
  <2>2. CASE k # 0
    <3> HIDE DEF g
    <3>1. f[k - 1] = g[k - 1]
      <4>1. k - 1 \in 0..(m - 1)
        BY <1>3, <2>2
      <4> QED  BY <1>5, <4>1
    <3> QED  BY <2>2, <3>1 DEF TakeTurn
  <2> QED  BY <2>1, <2>2
<1>7. g = [k \in 0..m |-> turn(g, k)]
  <2>1. \A k \in 0..m : g[k] = turn(g, k)
    BY <1>6
  <2> QED  BY <2>1
<1>8. m \notin Bad
  BY <1>7 DEF IsTaken
<1> QED  BY <1>1, <1>8

LEMMA ApartSymmetric ==
  ASSUME NEW x \in Int, NEW y \in Int, NEW d
  PROVE  Apart(x, y, d) = Apart(y, x, d)
<1>1. (x - y) * (x - y) = (y - x) * (y - x)
  OBVIOUS
<1> QED  BY <1>1 DEF Apart

\* What k candidates leave: distances are kept, and a candidate is left out only for
\* one before it, or for as many before it as are wanted.
TakenOK(candidates, set, chosen, k) ==
  /\ chosen \in Seq(Int) /\ Len(chosen) <= set.grid
  /\ \A i \in 1..Len(chosen) : \E m \in 1..k : chosen[i] = candidates[m]
  /\ \A i, j \in 1..Len(chosen) : i # j => Apart(chosen[i], chosen[j], set.spacing)
  /\ \A m \in 1..k :
       \/ \E i \in 1..Len(chosen) : chosen[i] = candidates[m]
       \/ \E i \in 1..Len(chosen) : \E l \in 1..(m - 1) :
            chosen[i] = candidates[l] /\ ~Apart(chosen[i], candidates[m], set.spacing)
       \/ /\ Len(chosen) = set.grid
          /\ \A i \in 1..Len(chosen) : \E l \in 1..(m - 1) : chosen[i] = candidates[l]

LEMMA TurnKeeps ==
  ASSUME NEW candidates, NEW set, set.grid \in Nat \ {0}, NEW k \in Nat, candidates[k + 1] \in Int,
         NEW chosen, TakenOK(candidates, set, chosen, k),
         NEW after,
         after = IF Len(chosen) < set.grid /\ ApartOfAll(chosen, candidates[k + 1], set.spacing)
                 THEN Append(chosen, candidates[k + 1]) ELSE chosen
  PROVE  TakenOK(candidates, set, after, k + 1)
<1> DEFINE x == candidates[k + 1]
           d == set.spacing
           n == Len(chosen)
<1>1. /\ chosen \in Seq(Int) /\ n <= set.grid /\ n \in Nat
      /\ \A i \in 1..n : chosen[i] \in Int
  BY DEF TakenOK
<1>2. CASE n < set.grid /\ ApartOfAll(chosen, x, d)
  <2>1. after = Append(chosen, x)
    BY <1>2
  <2>2. /\ after \in Seq(Int) /\ Len(after) = n + 1
        /\ \A i \in 1..n : after[i] = chosen[i]
        /\ after[n + 1] = x
    BY <1>1, <2>1
  <2> HIDE DEF n, x, d
  <2>3. \A i \in 1..(n + 1) : i = n + 1 \/ i \in 1..n
    BY <1>1
  <2>4. \A i \in 1..n : Apart(chosen[i], x, d) /\ Apart(x, chosen[i], d)
    <3>1. \A i \in 1..n : Apart(chosen[i], x, d)
      BY <1>1, <1>2 DEF ApartOfAll, n
    <3> QED  BY <1>1, <3>1, ApartSymmetric DEF x
  <2>5. \A i, j \in 1..(n + 1) : i # j => Apart(after[i], after[j], d)
    <3>1. \A i, j \in 1..n : i # j => Apart(chosen[i], chosen[j], d)
      BY DEF TakenOK, n, d
    <3> QED  BY <2>2, <2>3, <2>4, <3>1
  <2>6. \A i \in 1..(n + 1) : \E m \in 1..(k + 1) : after[i] = candidates[m]
    <3>1. \A i \in 1..n : \E m \in 1..k : chosen[i] = candidates[m]
      BY DEF TakenOK, n
    <3>2. 1..k \subseteq 1..(k + 1) /\ k + 1 \in 1..(k + 1)
      OBVIOUS
    <3> QED  BY <2>2, <2>3, <3>1, <3>2 DEF x
  <2>7. ASSUME NEW m \in 1..(k + 1)
        PROVE  \/ \E i \in 1..(n + 1) : after[i] = candidates[m]
               \/ \E i \in 1..(n + 1) : \E l \in 1..(m - 1) :
                    after[i] = candidates[l] /\ ~Apart(after[i], candidates[m], d)
    <3>1. CASE m = k + 1
      <4>1. n + 1 \in 1..(n + 1)
        BY <1>1
      <4> QED  BY <2>2, <3>1, <4>1 DEF x
    <3>2. CASE m # k + 1
      <4>1. m \in 1..k /\ 1..n \subseteq 1..(n + 1)
        BY <1>1, <3>2
      <4>2. n # set.grid
        BY <1>1, <1>2
      <4>3. \/ \E i \in 1..n : chosen[i] = candidates[m]
            \/ \E i \in 1..n : \E l \in 1..(m - 1) :
                 chosen[i] = candidates[l] /\ ~Apart(chosen[i], candidates[m], d)
        BY <4>1, <4>2 DEF TakenOK, n, d
      <4> QED  BY <2>2, <4>1, <4>3
    <3> QED  BY <3>1, <3>2
  <2>8. n + 1 <= set.grid
    BY <1>1, <1>2
  <2>9. /\ \A i \in 1..Len(after) : \E m \in 1..(k + 1) : after[i] = candidates[m]
        /\ \A i, j \in 1..Len(after) : i # j => Apart(after[i], after[j], set.spacing)
    BY <2>2, <2>5, <2>6 DEF d
  <2>10. \A m \in 1..(k + 1) :
           \/ \E i \in 1..Len(after) : after[i] = candidates[m]
           \/ \E i \in 1..Len(after) : \E l \in 1..(m - 1) :
                after[i] = candidates[l] /\ ~Apart(after[i], candidates[m], set.spacing)
    BY <2>2, <2>7 DEF d
  <2>11. after \in Seq(Int) /\ Len(after) <= set.grid
    BY <2>2, <2>8
  <2> HIDE DEF d
  <2> QED  BY ONLY <2>9, <2>10, <2>11 DEF TakenOK
<1>3. CASE ~(n < set.grid /\ ApartOfAll(chosen, x, d))
  <2>1. after = chosen
    BY <1>3
  <2> HIDE DEF n, x, d
  <2>2. 1..k \subseteq 1..(k + 1)
    OBVIOUS
  <2>3. \A i \in 1..n : \E l \in 1..k : chosen[i] = candidates[l]
    BY DEF TakenOK, n
  <2>4. \/ \E i \in 1..n : \E l \in 1..k : chosen[i] = candidates[l] /\ ~Apart(chosen[i], x, d)
        \/ n = set.grid
    <3>1. CASE n < set.grid
      <4>1. PICK i \in 1..n : ~Apart(chosen[i], x, d)
        BY <1>1, <1>3, <3>1 DEF ApartOfAll, n
      <4> QED  BY <2>3, <4>1
    <3>2. CASE ~(n < set.grid)
      BY <1>1, <3>2
    <3> QED  BY <3>1, <3>2
  <2>5. ASSUME NEW m \in 1..(k + 1)
        PROVE  \/ \E i \in 1..n : chosen[i] = candidates[m]
               \/ \E i \in 1..n : \E l \in 1..(m - 1) :
                    chosen[i] = candidates[l] /\ ~Apart(chosen[i], candidates[m], d)
               \/ /\ n = set.grid
                  /\ \A i \in 1..n : \E l \in 1..(m - 1) : chosen[i] = candidates[l]
    <3>1. CASE m = k + 1
      <4>1. m - 1 = k
        BY <3>1
      <4> QED  BY <2>3, <2>4, <3>1, <4>1 DEF x
    <3>2. CASE m # k + 1
      <4>1. m \in 1..k
        BY <3>2
      <4> QED  BY <4>1 DEF TakenOK, n, d
    <3> QED  BY <3>1, <3>2
  <2>6. \A i \in 1..n : \E m \in 1..(k + 1) : chosen[i] = candidates[m]
    BY <2>2, <2>3
  <2>7. /\ chosen \in Seq(Int) /\ Len(chosen) <= set.grid
        /\ \A i, j \in 1..Len(chosen) : i # j => Apart(chosen[i], chosen[j], set.spacing)
    BY DEF TakenOK
  <2>8. \A m \in 1..(k + 1) :
          \/ \E i \in 1..Len(chosen) : chosen[i] = candidates[m]
          \/ \E i \in 1..Len(chosen) : \E l \in 1..(m - 1) :
               chosen[i] = candidates[l] /\ ~Apart(chosen[i], candidates[m], set.spacing)
          \/ /\ Len(chosen) = set.grid
             /\ \A i \in 1..Len(chosen) : \E l \in 1..(m - 1) : chosen[i] = candidates[l]
    BY <2>5 DEF n, d
  <2>9. \A i \in 1..Len(chosen) : \E m \in 1..(k + 1) : chosen[i] = candidates[m]
    BY <2>6 DEF n
  <2>10. TakenOK(candidates, set, chosen, k + 1)
    BY ONLY <2>7, <2>8, <2>9 DEF TakenOK
  <2> QED  BY <2>1, <2>10
<1> QED  BY <1>2, <1>3

LEMMA SpacedFacts ==
  ASSUME NEW candidates \in Seq(Int), NEW set, set.grid \in Nat \ {0}
  PROVE  TakenOK(candidates, set, Spaced(candidates, set), Len(candidates))
<1> DEFINE n == Len(candidates)
           taken == Taken(candidates, set)
           Bad == {k \in 0..n : ~TakenOK(candidates, set, taken[k], k)}
<1>1. n \in Nat /\ \A k \in 1..n : candidates[k] \in Int
  BY SeqFacts
<1>2. \A k \in 0..n : taken[k] = TakeTurn(candidates, set, taken, k)
  <2>1. IsTaken(candidates, set, taken, n)
    <3>1. \E f : IsTaken(candidates, set, f, n)
      BY <1>1, TakenExists
    <3> QED  BY <3>1 DEF Taken
  <2> HIDE DEF taken
  <2> QED  BY <2>1 DEF IsTaken
<1> HIDE DEF taken, n
<1>3. Bad = {}
  <2> SUFFICES ASSUME Bad # {} PROVE FALSE
    OBVIOUS
  <2>1. PICK k \in Bad : \A j \in Bad : k <= j
    <3>1. Bad \in SUBSET Nat
      BY <1>1
    <3> HIDE DEF Bad
    <3> QED  BY <3>1, LeastNatural
  <2>2. k \in 0..n /\ ~TakenOK(candidates, set, taken[k], k) /\ k - 1 \notin Bad
    BY <1>1, <2>1
  <2>3. CASE k = 0
    <3>1. taken[k] = <<>>
      BY <1>2, <2>2, <2>3 DEF TakeTurn
    <3>2. TakenOK(candidates, set, <<>>, 0)
      BY DEF TakenOK
    <3> QED  BY <2>2, <2>3, <3>1, <3>2
  <2>4. CASE k # 0
    <3> DEFINE j == k - 1
    <3>1. j \in Nat /\ j \in 0..n /\ j + 1 = k /\ k \in 1..n
      BY <1>1, <2>2, <2>4
    <3>2. TakenOK(candidates, set, taken[j], j)
      BY <2>2, <3>1
    <3>3. taken[k] = IF Len(taken[j]) < set.grid /\ ApartOfAll(taken[j], candidates[j + 1], set.spacing)
                     THEN Append(taken[j], candidates[j + 1]) ELSE taken[j]
      BY <1>2, <2>4, <3>1 DEF TakeTurn
    <3> HIDE DEF j
    <3>4. TakenOK(candidates, set, taken[k], j + 1)
      BY <1>1, <3>1, <3>2, <3>3, TurnKeeps
    <3> QED  BY <2>2, <3>1, <3>4
  <2> QED  BY <2>3, <2>4
<1>4. TakenOK(candidates, set, taken[n], n)
  BY <1>1, <1>3
<1> QED  BY <1>4, SpacedTaken DEF taken, n

\* The slice is the beginning of the ranking.
LEMMA SliceFacts ==
  ASSUME NEW S, NEW ranked \in Seq(S)
  PROVE  /\ Slice(ranked) \in Seq(S)
         /\ Len(Slice(ranked)) = IF Len(ranked) < CandidateCap THEN Len(ranked) ELSE CandidateCap
         /\ Len(Slice(ranked)) \in 0..Len(ranked)
         /\ \A k \in 1..Len(Slice(ranked)) : Slice(ranked)[k] = ranked[k]
<1> DEFINE n == IF Len(ranked) < CandidateCap THEN Len(ranked) ELSE CandidateCap
<1>1. n \in 0..Len(ranked) /\ Len(ranked) \in Nat
  BY CacheAssumption
<1>2. Slice(ranked) = SubSeq(ranked, 1, n)
  BY DEF Slice
<1> HIDE DEF n
<1>3. /\ SubSeq(ranked, 1, n) \in Seq(S) /\ Len(SubSeq(ranked, 1, n)) = n
      /\ \A k \in 1..n : SubSeq(ranked, 1, n)[k] = ranked[k]
  BY <1>1
<1> QED  BY <1>1, <1>2, <1>3 DEF n

LEMMA TopNSelection ==
  ASSUME NEW img \in Images, NEW set, set.grid \in Nat \ {0}
  PROVE  BestAndSpread(img, set, GlobalTopN(img, set))
<1> DEFINE region == Region(img)
           s == Ranked(img, region)
           n == Cardinality(region)
           candidates == Slice(s)
           m == Len(candidates)
           chosen == Spaced(candidates, set)
           d == set.spacing
<1>1. region \in SUBSET DOMAIN img.scores /\ \A x \in region : x \in Int /\ img.scores[x] \in Nat
  <2>1. \A x \in DOMAIN img.scores : x \in Int /\ img.scores[x] \in Nat
    BY SeqFacts DEF Images
  <2> QED  BY <2>1 DEF Region
<1> HIDE DEF region
<1>2. /\ IsFiniteSet(region) /\ n \in Nat
      /\ s \in Seq(region) /\ Len(s) = n
      /\ \A k \in 1..n : s[k] \in region
      /\ \A x \in region : \E k \in 1..n : s[k] = x
      /\ \A j, k \in 1..n : j < k => Before(img, s[j], s[k])
      /\ \A j, k \in 1..n : s[j] = s[k] => j = k
  BY <1>1, RankedFacts
<1> HIDE DEF n, s
<1>3. /\ candidates \in Seq(region)
      /\ m = IF n < CandidateCap THEN n ELSE CandidateCap
      /\ m \in 0..n
      /\ \A k \in 1..m : candidates[k] = s[k]
  BY <1>2, SliceFacts
<1> HIDE DEF candidates
<1>4. candidates \in Seq(Int)
  BY <1>1, <1>3
<1>5. TakenOK(candidates, set, chosen, m)
  BY <1>4, SpacedFacts
<1> HIDE DEF m, chosen
<1>6. /\ chosen \in Seq(Int) /\ Len(chosen) \in Nat /\ DOMAIN chosen = 1..Len(chosen)
      /\ Len(chosen) <= set.grid
      /\ \A j, k \in DOMAIN chosen : j # k => Apart(chosen[j], chosen[k], d)
  <2>1. /\ chosen \in Seq(Int) /\ Len(chosen) <= set.grid
        /\ \A j, k \in 1..Len(chosen) : j # k => Apart(chosen[j], chosen[k], d)
    BY <1>5, Zenon DEF TakenOK
  <2>2. Len(chosen) \in Nat /\ DOMAIN chosen = 1..Len(chosen)
    BY <2>1, SeqFacts
  <2> QED  BY <2>1, <2>2
<1>7. \A k \in DOMAIN chosen : \E l \in 1..m : chosen[k] = candidates[l]
  BY <1>5, <1>6 DEF TakenOK
<1>8. \A j, k \in 1..n : j < k => img.scores[s[j]] >= img.scores[s[k]]
  <2>1. \A k \in 1..n : img.scores[s[k]] \in Nat
    BY <1>1, <1>2
  <2> QED  BY <1>2, <2>1 DEF Before
<1>9. ASSUME NEW x \in region
      PROVE  LET better == {k \in DOMAIN chosen : img.scores[chosen[k]] >= img.scores[x]}
                 ahead == {y \in region \ {x} : img.scores[y] >= img.scores[x]}
             IN  \/ \E k \in better : chosen[k] = x \/ ~Apart(chosen[k], x, d)
                 \/ Cardinality(better) = set.grid
                 \/ Cardinality(ahead) >= CandidateCap
  <2> DEFINE better == {k \in DOMAIN chosen : img.scores[chosen[k]] >= img.scores[x]}
             ahead == {y \in region \ {x} : img.scores[y] >= img.scores[x]}
  <2>1. PICK r \in 1..n : s[r] = x
    BY <1>2
  <2>2. CASE r <= m
    <3>1. r \in 1..m /\ candidates[r] = x
      BY <1>3, <2>1, <2>2
    <3>2. \A k \in DOMAIN chosen : \A l \in 1..(r - 1) : chosen[k] = candidates[l] => k \in better
      <4>1. \A l \in 1..(r - 1) : l \in 1..m /\ l \in 1..n /\ l < r
        BY <1>2, <1>3, <2>1, <2>2
      <4>2. \A l \in 1..(r - 1) : img.scores[candidates[l]] >= img.scores[x]
        BY <1>3, <1>8, <2>1, <4>1
      <4> QED  BY <4>2
    <3>3. \/ \E k \in DOMAIN chosen : chosen[k] = x
          \/ \E k \in DOMAIN chosen : \E l \in 1..(r - 1) :
               chosen[k] = candidates[l] /\ ~Apart(chosen[k], x, d)
          \/ /\ Len(chosen) = set.grid
             /\ \A k \in DOMAIN chosen : \E l \in 1..(r - 1) : chosen[k] = candidates[l]
      BY <1>5, <1>6, <3>1 DEF TakenOK
    <3>4. ASSUME NEW k \in DOMAIN chosen, chosen[k] = x PROVE k \in better
      BY <1>1, <3>4
    <3>5. ASSUME Len(chosen) = set.grid, \A k \in DOMAIN chosen : k \in better
          PROVE  Cardinality(better) = set.grid
      <4>1. better = 1..set.grid
        BY <1>6, <3>5
      <4> HIDE DEF better
      <4> QED  BY <4>1, FS_Interval
    <3> QED  BY <3>2, <3>3, <3>4, <3>5
  <2>3. CASE ~(r <= m)
    <3> DEFINE f == [k \in 1..CandidateCap |-> s[k]]
    <3>1. m = CandidateCap /\ CandidateCap \in Nat /\ CandidateCap < r
      BY <1>2, <1>3, <2>1, <2>3, CacheAssumption
    <3>2. \A k \in 1..CandidateCap : k \in 1..n /\ k < r
      BY <1>2, <2>1, <3>1
    <3>3. ASSUME NEW k \in 1..CandidateCap PROVE s[k] \in ahead
      <4>1. s[k] # x
        BY <1>2, <2>1, <3>2
      <4>2. img.scores[s[k]] >= img.scores[x]
        BY <1>8, <2>1, <3>2
      <4> QED  BY <1>2, <3>2, <4>1, <4>2
    <3>4. IsFiniteSet(ahead)
      <4>1. ahead \in SUBSET region
        OBVIOUS
      <4> HIDE DEF ahead
      <4> QED  BY <1>2, <4>1, FS_Subset
    <3> HIDE DEF ahead
    <3>5. f \in Injection(1..CandidateCap, ahead)
      <4>1. f \in [1..CandidateCap -> ahead]
        BY <3>3
      <4>2. \A j, k \in 1..CandidateCap : f[j] = f[k] => j = k
        BY <1>2, <3>2
      <4> HIDE DEF f
      <4> QED  BY <4>1, <4>2 DEF Injection, IsInjective
    <3>6. Cardinality(1..CandidateCap) = CandidateCap
      BY <3>1, FS_Interval
    <3>7. CandidateCap <= Cardinality(ahead)
      <4> HIDE DEF f
      <4> QED  BY <3>4, <3>5, <3>6, FS_Injection
    <3>8. Cardinality(ahead) \in Nat
      BY <3>4, FS_CardinalityType
    <3>9. Cardinality(ahead) >= CandidateCap
      BY <3>1, <3>7, <3>8
    <3> QED  BY <3>9 DEF ahead
  <2> QED  BY <2>2, <2>3
<1>10. \A k \in DOMAIN chosen : chosen[k] \in region
  BY <1>2, <1>3, <1>7
<1>11. chosen = GlobalTopN(img, set)
  BY DEF GlobalTopN, chosen, candidates, s, region
<1> QED  BY <1>6, <1>9, <1>10, <1>11 DEF BestAndSpread, region

LEMMA Anchors ==
  ASSUME bag \in Bags, run \in SettingSet
  PROVE  AnchorsBestAndSpread
<1> SUFFICES ASSUME NEW i \in DOMAIN bag
             PROVE  IF run.mode = "grid" THEN BestOfEachCell(bag[i], run, SelectAnchors(bag[i], run))
                    ELSE BestAndSpread(bag[i], run, SelectAnchors(bag[i], run))
  BY DEF AnchorsBestAndSpread
<1>1. bag \in Seq(Images)
  BY CacheAssumption DEF Images
<1>2. bag[i] \in Images
  BY <1>1, SeqFacts
<1>3. run.grid \in Nat \ {0}
  BY CacheAssumption
<1>4. CASE run.mode = "grid"
  <2>1. SelectAnchors(bag[i], run) = OnePerCell(bag[i], run)
    BY <1>4 DEF SelectAnchors
  <2> QED  BY <1>2, <1>3, <1>4, <2>1, GridSelection
<1>5. CASE run.mode # "grid"
  <2>1. SelectAnchors(bag[i], run) = GlobalTopN(bag[i], run)
    BY <1>5 DEF SelectAnchors
  <2> QED  BY <1>2, <1>3, <1>5, <2>1, TopNSelection
<1> QED  BY <1>4, <1>5

\* Whatever the image and the settings, the anchors selected are the best of their cells,
\* or the best that keep the distance, as far as the slice goes.
THEOREM SelectionCorrect == CacheSpec => []AnchorsBestAndSpread
<1>1. CacheIInv => AnchorsBestAndSpread
  BY Anchors DEF CacheIInv, CacheTypeOK
<1> QED  BY <1>1, CacheInvariant, PTL
=============================================================================
